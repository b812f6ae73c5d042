---------------------------- MODULE SessionProofs ----------------------------
(***************************************************************************)
(* The safety properties of AgentSession for every number of connections,  *)
(* edits and faults and every limit of heartbeat failures.                 *)
(*                                                                         *)
(* Each of the three properties has its own strengthening: which           *)
(* connections a goroutine holds at each of its steps (Held), how many of  *)
(* the counted failures can be of a beat older than the session (Judged),  *)
(* and from which step on the hub has the shares of the configuration      *)
(* (Published).                                                            *)
(***************************************************************************)
EXTENDS AgentSession, TLAPS

-----------------------------------------------------------------------------
(* The inductive invariant.                                                *)

\* The first attempt is Run's own; the session's spare connection is open and not
\* the installed one; and what Shutdown has taken stays installed.
Held ==
    /\ main = "connect" => clients = {}
    /\ main \in {"connect", "ssh"} => sess.pc = "off"
    /\ sess.first /\ sess.pc \notin {"off", "read"} => main \in {"first", "done"}
    /\ sess.pc \notin {"swap", "dispose"} => sess.spare = 0
    /\ main # "done" /\ sess.pc \in {"swap", "dispose"} =>
         sess.spare \in clients /\ sess.spare # hubClient
    /\ taken # 0 => taken = hubClient /\ main \in {"deregister", "close", "done"}
    /\ main \in {"deregister", "close"} => taken # 0

\* While the session may still be given up, at most one failure is counted that
\* is not its own, and none if that beat has not ended yet.
Judged ==
    sess.ctx = "live" =>
        /\ fails <= own + 1
        /\ beat.pc = "flight" /\ ~ beat.own => fails = own

\* What the session registers is the configuration in force, and what it has
\* registered the hub has, unless a publish is under way or a change was missed.
Published ==
    /\ sess.pc = "register" /\ ~ missed => sess.shares = config
    /\ sess.pc \in {"registered", "snapshot", "subscribe", "read"}
         /\ watch.pc # "publish" /\ ~ missed => hubShares = config
    /\ sess.pc \in {"snapshot", "subscribe", "read"} => ever

\* The type invariant, one variable at a time.
Typed ==
    /\ main \in {"connect", "ssh", "first", "await", "services", "take",
                 "deregister", "close", "done"}
    /\ result \in {"none", "ok", "error"}
    /\ sess \in Session
    /\ clients \subseteq Client /\ wedged \subseteq Client
    /\ hubClient \in 0..MaxClients /\ taken \in 0..MaxClients
    /\ beat \in [pc : {"off", "idle", "flight"}, client : 0..MaxClients,
                 own : BOOLEAN]
    /\ watch \in [pc : {"off", "idle", "publish"}, client : 0..MaxClients]
    /\ fails \in 0..(MaxFails - 1) /\ own \in 0..fails /\ blame \in 0..MaxFails
    /\ config \in 0..MaxEdits /\ hubShares \in 0..MaxEdits
    /\ ssh \in {"unbound", "serving", "dead", "stopped"}
    /\ hub \in {"up", "down", "hole", "refuse"}
    /\ faults \in 0..MaxFaults
    /\ ctxDone \in BOOLEAN /\ ever \in BOOLEAN /\ ready \in BOOLEAN
    /\ sshDied \in BOOLEAN /\ missed \in BOOLEAN

IInv == /\ Typed
        /\ Held /\ ClientsAccounted
        /\ Judged /\ BeatsJudgeOwnSession
        /\ Published /\ SharesConverge

-----------------------------------------------------------------------------
(* The steps.                                                              *)

\* A fault uses up one of those that are left.
LEMMA SpendType ==
    ASSUME Typed, Spend
    PROVE  faults' \in 0..MaxFaults
  BY SessionAssumption DEF Typed, Spend

\* How an attempt moves on: alone, with another connection, or off Run's goroutine.
LEMMA SessionExcept ==
    ASSUME NEW s \in Session, NEW pc \in Pcs, NEW c \in 0..MaxClients
    PROVE  /\ [s EXCEPT !.pc = pc] \in Session
           /\ [s EXCEPT !.pc = pc, !.client = c] \in Session
           /\ [s EXCEPT !.pc = pc, !.spare = c] \in Session
           /\ [s EXCEPT !.pc = pc, !.spent = TRUE, !.spare = c] \in Session
           /\ [s EXCEPT !.pc = pc, !.first = FALSE] \in Session
  <1>1. [s EXCEPT !.pc = pc] \in Session
    BY DEF Session
  <1>2. [s EXCEPT !.pc = pc, !.client = c] \in Session
    BY DEF Session
  <1>3. [s EXCEPT !.pc = pc, !.spare = c] \in Session
    BY DEF Session
  <1>4. [s EXCEPT !.pc = pc, !.spent = TRUE, !.spare = c] \in Session
    BY DEF Session
  <1>5. [s EXCEPT !.pc = pc, !.first = FALSE] \in Session
    BY DEF Session
  <1> QED  BY <1>1, <1>2, <1>3, <1>4, <1>5

\* Run and Shutdown.
LEMMA MainKeeps ==
    ASSUME IInv, Main
    PROVE  IInv'
  <1> USE DEF IInv, run, conns, beats, conf, sshd, hubside
  <1>1. ASSUME Connect PROVE IInv'
    <2>1. Typed'
      <3>1. clients' \subseteq Client /\ hubClient' \in 0..MaxClients
        <4>1. CASE \E c \in Fresh : hubClient' = c /\ clients' = clients \cup {c}
          BY <4>1 DEF Fresh, Client, Typed
        <4>2. CASE UNCHANGED <<hubClient, clients>>
          BY <4>2 DEF Typed
        <4> QED  BY <1>1, <4>1, <4>2 DEF Connect
      <3> QED  BY <1>1, <3>1 DEF Connect, Go, End, Typed
    <2>2. Held' /\ ClientsAccounted'
      BY <1>1 DEF Connect, Fresh, Go, End, Typed, Session, Client, Held, ClientsAccounted, Running
    <2>3. Judged' /\ BeatsJudgeOwnSession'
      BY <1>1, SessionAssumption DEF Connect, Fresh, Client, Go, End, Typed, Session, Judged, BeatsJudgeOwnSession
    <2>4. Published' /\ SharesConverge'
      BY <1>1 DEF Connect, Fresh, Client, Go, End, Typed, Session, Held, Published, SharesConverge
    <2> QED  BY <2>1, <2>2, <2>3, <2>4
  <1>2. ASSUME StartSSH PROVE IInv'
    <2>1. Typed'
      BY <1>2, SessionAssumption DEF StartSSH, Go, End, Typed, Session, Pcs
    <2>2. Held' /\ ClientsAccounted'
      BY <1>2 DEF StartSSH, Go, End, Typed, Session, Client, Held, ClientsAccounted, Running
    <2>3. Judged' /\ BeatsJudgeOwnSession'
      BY <1>2, SessionAssumption DEF StartSSH, Go, End, Typed, Session, Judged, BeatsJudgeOwnSession
    <2>4. Published' /\ SharesConverge'
      BY <1>2 DEF StartSSH, Go, End, Typed, Session, Held, Published, SharesConverge
    <2> QED  BY <2>1, <2>2, <2>3, <2>4
  <1>3. ASSUME FirstStream PROVE IInv'
    <2>1. Typed'
      BY <1>3, SessionAssumption DEF FirstStream, Go, Typed, Session, Pcs
    <2>2. Held' /\ ClientsAccounted'
      BY <1>3 DEF FirstStream, Go, Typed, Session, Client, Held, ClientsAccounted, Running
    <2>3. Judged' /\ BeatsJudgeOwnSession'
      BY <1>3, SessionAssumption DEF FirstStream, Go, Typed, Session, Judged, BeatsJudgeOwnSession
    <2>4. Published' /\ SharesConverge'
      BY <1>3 DEF FirstStream, Go, Typed, Session, Held, Published, SharesConverge
    <2> QED  BY <2>1, <2>2, <2>3, <2>4
  <1>4. ASSUME NoStream PROVE IInv'
    <2>1. Typed'
      BY <1>4, SessionAssumption DEF NoStream, Go, End, Typed, Session, Pcs
    <2>2. Held' /\ ClientsAccounted'
      BY <1>4 DEF NoStream, Go, End, Typed, Session, Client, Held, ClientsAccounted, Running
    <2>3. Judged' /\ BeatsJudgeOwnSession'
      BY <1>4, SessionAssumption DEF NoStream, Go, End, Typed, Session, Judged, BeatsJudgeOwnSession
    <2>4. Published' /\ SharesConverge'
      BY <1>4 DEF NoStream, Go, End, Typed, Session, Held, Published, SharesConverge
    <2> QED  BY <2>1, <2>2, <2>3, <2>4
  <1>5. ASSUME SSHDiedWaiting PROVE IInv'
    <2>1. Typed'
      <3>1. sshDied' \in BOOLEAN /\ main' = "done" /\ result' = "error"
        BY <1>5 DEF SSHDiedWaiting, End
      <3> QED  BY <1>5, <3>1 DEF SSHDiedWaiting, End, Typed
    <2>2. Held' /\ ClientsAccounted'
      BY <1>5 DEF SSHDiedWaiting, End, Typed, Session, Client, Held, ClientsAccounted, Running
    <2>3. Judged' /\ BeatsJudgeOwnSession'
      BY <1>5, SessionAssumption DEF SSHDiedWaiting, End, Typed, Session, Judged, BeatsJudgeOwnSession
    <2>4. Published' /\ SharesConverge'
      BY <1>5 DEF SSHDiedWaiting, End, Typed, Session, Held, Published, SharesConverge
    <2> QED  BY <2>1, <2>2, <2>3, <2>4
  <1>6. ASSUME ServicesCancelled PROVE IInv'
    <2>1. Typed'
      BY <1>6, SessionAssumption DEF ServicesCancelled, Go, Typed, Session, Pcs
    <2>2. Held' /\ ClientsAccounted'
      BY <1>6 DEF ServicesCancelled, Go, Typed, Session, Client, Held, ClientsAccounted, Running
    <2>3. Judged' /\ BeatsJudgeOwnSession'
      BY <1>6, SessionAssumption DEF ServicesCancelled, Go, Typed, Session, Judged, BeatsJudgeOwnSession
    <2>4. Published' /\ SharesConverge'
      BY <1>6 DEF ServicesCancelled, Go, Typed, Session, Held, Published, SharesConverge
    <2> QED  BY <2>1, <2>2, <2>3, <2>4
  <1>7. ASSUME ServicesSSHDied PROVE IInv'
    <2>1. Typed'
      <3>1. sshDied' \in BOOLEAN /\ ctxDone' \in BOOLEAN
        BY <1>7 DEF ServicesSSHDied
      <3> QED  BY <1>7, <3>1 DEF ServicesSSHDied, Typed
    <2>2. Held' /\ ClientsAccounted'
      BY <1>7 DEF ServicesSSHDied, Typed, Session, Client, Held, ClientsAccounted, Running
    <2>3. Judged' /\ BeatsJudgeOwnSession'
      BY <1>7, SessionAssumption DEF ServicesSSHDied, Typed, Session, Judged, BeatsJudgeOwnSession
    <2>4. Published' /\ SharesConverge'
      BY <1>7 DEF ServicesSSHDied, Typed, Session, Held, Published, SharesConverge
    <2> QED  BY <2>1, <2>2, <2>3, <2>4
  <1>8. ASSUME TakeHubClient PROVE IInv'
    <2>1. Typed'
      BY <1>8, SessionAssumption DEF TakeHubClient, Go, Typed, Session, Pcs
    <2>2. Held' /\ ClientsAccounted'
      BY <1>8 DEF TakeHubClient, Go, Typed, Session, Client, Held, ClientsAccounted, Running
    <2>3. Judged' /\ BeatsJudgeOwnSession'
      BY <1>8, SessionAssumption DEF TakeHubClient, Go, Typed, Session, Judged, BeatsJudgeOwnSession
    <2>4. Published' /\ SharesConverge'
      BY <1>8 DEF TakeHubClient, Go, Typed, Session, Held, Published, SharesConverge
    <2> QED  BY <2>1, <2>2, <2>3, <2>4
  <1>9. ASSUME Deregister PROVE IInv'
    <2>1. Typed'
      BY <1>9, SpendType, SessionAssumption DEF Deregister, Typed, Session, Pcs
    <2>2. Held' /\ ClientsAccounted'
      BY <1>9 DEF Deregister, Typed, Session, Client, Held, ClientsAccounted, Running
    <2>3. Judged' /\ BeatsJudgeOwnSession'
      BY <1>9, SessionAssumption DEF Deregister, Typed, Session, Judged, BeatsJudgeOwnSession
    <2>4. Published' /\ SharesConverge'
      BY <1>9 DEF Deregister, Typed, Session, Held, Published, SharesConverge
    <2> QED  BY <2>1, <2>2, <2>3, <2>4
  <1>10. ASSUME Close PROVE IInv'
    <2>1. Typed'
      BY <1>10, SessionAssumption DEF Close, End, Typed, Session, Pcs
    <2>2. Held' /\ ClientsAccounted'
      BY <1>10 DEF Close, End, Typed, Session, Client, Held, ClientsAccounted, Running
    <2>3. Judged' /\ BeatsJudgeOwnSession'
      BY <1>10, SessionAssumption DEF Close, End, Typed, Session, Judged, BeatsJudgeOwnSession
    <2>4. Published' /\ SharesConverge'
      BY <1>10 DEF Close, End, Typed, Session, Held, Published, SharesConverge
    <2> QED  BY <2>1, <2>2, <2>3, <2>4
  <1> QED  BY <1>1, <1>2, <1>3, <1>4, <1>5, <1>6, <1>7, <1>8, <1>9, <1>10
       DEF Main

\* The session goroutine.
LEMMA SessionKeeps ==
    ASSUME IInv, SessionStep
    PROVE  IInv'
  <1> USE DEF IInv, run, conns, beats, conf, sshd, hubside
  <1>1. ASSUME SessionOnce PROVE IInv'
    <2>1. Typed'
      <3>1. sess' \in Session
        BY <1>1, SessionAssumption DEF SessionOnce, SharesToRegister, Typed, Session, Pcs
      <3>2. missed' \in BOOLEAN
        BY <1>1 DEF SessionOnce
      <3> QED  BY <1>1, <3>1, <3>2 DEF SessionOnce, Typed
    <2>2. Held' /\ ClientsAccounted'
      BY <1>1 DEF SessionOnce, SharesToRegister, Typed, Session, Client, Held, ClientsAccounted, Running
    <2>3. Judged' /\ BeatsJudgeOwnSession'
      BY <1>1, SessionAssumption DEF SessionOnce, SharesToRegister, Typed, Session, Judged, BeatsJudgeOwnSession
    <2>4. Published' /\ SharesConverge'
      BY <1>1 DEF SessionOnce, SharesToRegister, Typed, Session, Held, Published, SharesConverge
    <2> QED  BY <2>1, <2>2, <2>3, <2>4
  <1>2. ASSUME RegisterRuns PROVE IInv'
    <2>1. Typed'
      BY <1>2, SessionAssumption DEF RegisterRuns, Typed, Session, Pcs
    <2>2. Held' /\ ClientsAccounted'
      BY <1>2 DEF RegisterRuns, Typed, Session, Client, Held, ClientsAccounted, Running
    <2>3. Judged' /\ BeatsJudgeOwnSession'
      BY <1>2, SessionAssumption DEF RegisterRuns, Typed, Session, Judged, BeatsJudgeOwnSession
    <2>4. Published' /\ SharesConverge'
      BY <1>2 DEF RegisterRuns, Typed, Session, Held, Published, SharesConverge
    <2> QED  BY <2>1, <2>2, <2>3, <2>4
  <1>3. ASSUME RegisterAnswered PROVE IInv'
    <2>1. Typed'
      BY <1>3, SessionAssumption DEF RegisterAnswered, Typed, Session, Pcs
    <2>2. Held' /\ ClientsAccounted'
      BY <1>3 DEF RegisterAnswered, Typed, Session, Client, Held, ClientsAccounted, Running
    <2>3. Judged' /\ BeatsJudgeOwnSession'
      BY <1>3, SessionAssumption DEF RegisterAnswered, Typed, Session, Judged, BeatsJudgeOwnSession
    <2>4. Published' /\ SharesConverge'
      BY <1>3 DEF RegisterAnswered, Typed, Session, Held, Published, SharesConverge
    <2> QED  BY <2>1, <2>2, <2>3, <2>4
  <1>4. ASSUME NewSession PROVE IInv'
    <2>1. Typed'
      <3>1. sess' \in Session
        BY <1>4, SessionAssumption DEF NewSession, FailsOfNewSession, Typed, Session, Pcs
      <3>2. beat' \in [pc : {"off", "idle", "flight"}, client : 0..MaxClients, own : BOOLEAN]
        BY <1>4 DEF NewSession, Typed
      <3>3. fails' \in 0..(MaxFails - 1) /\ own' \in 0..fails' /\ blame' \in 0..MaxFails
        BY <1>4, SessionAssumption DEF NewSession, FailsOfNewSession
      <3> QED  BY <1>4, <3>1, <3>2, <3>3 DEF NewSession, Typed
    <2>2. Held' /\ ClientsAccounted'
      BY <1>4 DEF NewSession, FailsOfNewSession, Typed, Session, Client, Held, ClientsAccounted, Running
    <2>3. Judged' /\ BeatsJudgeOwnSession'
      BY <1>4, SessionAssumption DEF NewSession, FailsOfNewSession, Typed, Session, Judged, BeatsJudgeOwnSession
    <2>4. Published' /\ SharesConverge'
      BY <1>4 DEF NewSession, FailsOfNewSession, Typed, Session, Held, Published, SharesConverge
    <2> QED  BY <2>1, <2>2, <2>3, <2>4
  <1>5. ASSUME Subscribed PROVE IInv'
    <2>1. Typed'
      <3>1. sess' \in Session
        BY <1>5, SessionAssumption DEF Subscribed, Typed, Session, Pcs
      <3> QED  BY <1>5, <3>1, SessionAssumption DEF Subscribed, Typed
    <2>2. Held' /\ ClientsAccounted'
      BY <1>5 DEF Subscribed, Typed, Session, Client, Held, ClientsAccounted, Running
    <2>3. Judged' /\ BeatsJudgeOwnSession'
      BY <1>5, SessionAssumption DEF Subscribed, Typed, Session, Judged, BeatsJudgeOwnSession
    <2>4. Published' /\ SharesConverge'
      BY <1>5 DEF Subscribed, Typed, Session, Held, Published, SharesConverge
    <2> QED  BY <2>1, <2>2, <2>3, <2>4
  <1>6. ASSUME NEW err \in {"plain", "timeout", "rejected"},
               AttemptFails(err)
        PROVE  IInv'
    <2>1. Typed'
      <3>1. sess' \in Session
        BY <1>6, SessionAssumption DEF AttemptFails, Typed, Session, Pcs
      <3> QED  BY <1>6, <3>1, SpendType, SessionAssumption DEF AttemptFails, Typed
    <2>2. Held' /\ ClientsAccounted'
      BY <1>6 DEF AttemptFails, Typed, Session, Client, Held, ClientsAccounted, Running
    <2>3. Judged' /\ BeatsJudgeOwnSession'
      BY <1>6, SessionAssumption DEF AttemptFails, Typed, Session, Judged, BeatsJudgeOwnSession
    <2>4. Published' /\ SharesConverge'
      BY <1>6 DEF AttemptFails, Typed, Session, Held, Published, SharesConverge
    <2> QED  BY <2>1, <2>2, <2>3, <2>4
  <1>7. ASSUME FirstFailed PROVE IInv'
    <2>1. Typed'
      <3>1. sess' \in Session
        <4>1. "start" \in Pcs /\ sess \in Session /\ 0 \in 0..MaxClients
          BY SessionAssumption DEF Pcs, Typed
        <4>2. sess' \in {sess, [sess EXCEPT !.pc = "start", !.first = FALSE]}
          BY <1>7 DEF FirstFailed
        <4>3. [sess EXCEPT !.pc = "start", !.first = FALSE] \in Session
          BY <4>1, SessionExcept
        <4> QED  BY <4>1, <4>2, <4>3, Zenon
      <3>2. /\ main' \in {"done", "await"} /\ result' \in {"error", result}
            /\ ready' \in BOOLEAN /\ ctxDone' = ctxDone
        BY <1>7 DEF FirstFailed, Go, End, Typed
      <3> QED  BY <1>7, <3>1, <3>2 DEF FirstFailed, Typed
    <2>2. Held' /\ ClientsAccounted'
      <3>1. sess.pc = "judge" /\ UNCHANGED <<clients, hubClient, taken>>
        BY <1>7 DEF FirstFailed
      <3>2. CASE sess.err = "rejected"
        <4>1. sess' = sess /\ main' = "done" /\ main = "first"
          BY <1>7, <3>1, <3>2 DEF FirstFailed, End, Held, Running
        <4> QED  BY <3>1, <4>1 DEF Held, ClientsAccounted
      <3>3. CASE sess.err # "rejected"
        <4>1. /\ sess'.pc = "start" /\ sess'.spare = sess.spare /\ main' = "await"
              /\ sess'.first = FALSE
              /\ main = "first"
          BY <1>7, <3>1, <3>3 DEF FirstFailed, Go, Typed, Session, Held, Running
        <4> QED  BY <3>1, <4>1 DEF Held, ClientsAccounted
      <3> QED  BY <3>2, <3>3
    <2>3. Judged' /\ BeatsJudgeOwnSession'
      BY <1>7, SessionAssumption DEF FirstFailed, Go, End, Typed, Session, Judged, BeatsJudgeOwnSession
    <2>4. Published' /\ SharesConverge'
      BY <1>7 DEF FirstFailed, Go, End, Typed, Session, Held, Published, SharesConverge
    <2> QED  BY <2>1, <2>2, <2>3, <2>4
  <1>8. ASSUME RetryFailed PROVE IInv'
    <2>1. Typed'
      <3>1. sess' \in Session
        BY <1>8, SessionAssumption DEF RetryFailed, ReplaceConnection, Typed, Session, Pcs
      <3> QED  BY <1>8, <3>1, SessionAssumption DEF RetryFailed, ReplaceConnection, Typed
    <2>2. Held' /\ ClientsAccounted'
      BY <1>8 DEF RetryFailed, ReplaceConnection, Typed, Session, Client, Held, ClientsAccounted, Running
    <2>3. Judged' /\ BeatsJudgeOwnSession'
      BY <1>8, SessionAssumption DEF RetryFailed, ReplaceConnection, Typed, Session, Judged, BeatsJudgeOwnSession
    <2>4. Published' /\ SharesConverge'
      BY <1>8 DEF RetryFailed, ReplaceConnection, Typed, Session, Held, Published, SharesConverge
    <2> QED  BY <2>1, <2>2, <2>3, <2>4
  <1>9. ASSUME DialReplacement PROVE IInv'
    <2>1. Typed'
      <3>1. sess' \in Session
        <4>1. /\ "swap" \in Pcs /\ "sleep" \in Pcs /\ sess \in Session
              /\ Fresh \subseteq 0..MaxClients /\ 0 \in 0..MaxClients
          BY SessionAssumption DEF Pcs, Typed, Fresh, Client
        <4>2. \/ sess' = [sess EXCEPT !.pc = "sleep"]
              \/ \E c \in Fresh : sess' = [sess EXCEPT !.pc = "swap", !.spare = c]
          BY <1>9 DEF DialReplacement
        <4>3. [sess EXCEPT !.pc = "sleep"] \in Session
          BY <4>1, SessionExcept
        <4>4. \A c \in Fresh : [sess EXCEPT !.pc = "swap", !.spare = c] \in Session
          BY <4>1, SessionExcept
        <4> QED  BY <4>2, <4>3, <4>4, Zenon
      <3>2. clients' \subseteq Client
        BY <1>9 DEF DialReplacement, Fresh, Typed
      <3>3. faults' \in 0..MaxFaults
        BY <1>9, SpendType DEF DialReplacement, Typed
      <3>4. UNCHANGED <<run, ever, ready, wedged, hubClient, taken, beats, conf, sshd, hubside>>
        BY <1>9 DEF DialReplacement
      <3> QED  BY <3>1, <3>2, <3>3, <3>4 DEF Typed
    <2>2. Held' /\ ClientsAccounted'
      <3>1. /\ sess.pc = "dial" /\ sess.spare = 0 /\ main \notin {"connect", "ssh", "done"}
            /\ UNCHANGED <<main, hubClient, taken>>
        BY <1>9 DEF DialReplacement, Held, Running
      <3>2. \/ \E c \in Fresh : /\ clients' = clients \cup {c} /\ sess'.pc = "swap"
                               /\ sess'.spare = c /\ sess'.first = sess.first
            \/ /\ clients' = clients /\ sess'.pc = "sleep" /\ sess'.spare = 0
               /\ sess'.first = sess.first
        BY <1>9, <3>1 DEF DialReplacement, Typed, Session
      <3>3. \A c \in Fresh : c # hubClient
        BY DEF Fresh
      <3>4. 0 \notin clients
        BY DEF Typed, Client
      <3>5. ASSUME NEW c \in Fresh, clients' = clients \cup {c}, sess'.pc = "swap",
                   sess'.spare = c, sess'.first = sess.first
            PROVE  Held' /\ ClientsAccounted'
        BY <3>1, <3>3, <3>4, <3>5 DEF Held, ClientsAccounted
      <3>6. ASSUME clients' = clients, sess'.pc = "sleep", sess'.spare = 0,
                   sess'.first = sess.first
            PROVE  Held' /\ ClientsAccounted'
        BY <3>1, <3>6 DEF Held, ClientsAccounted
      <3> QED  BY <3>2, <3>5, <3>6
    <2>3. Judged' /\ BeatsJudgeOwnSession'
      BY <1>9, SessionAssumption DEF DialReplacement, Fresh, Client, Typed, Session, Judged, BeatsJudgeOwnSession
    <2>4. Published' /\ SharesConverge'
      BY <1>9 DEF DialReplacement, Fresh, Client, Typed, Session, Held, Published, SharesConverge
    <2> QED  BY <2>1, <2>2, <2>3, <2>4
  <1>10. ASSUME SwapHubClient PROVE IInv'
    <2>1. Typed'
      <3>1. sess' \in Session
        <4>1. "dispose" \in Pcs /\ sess \in Session /\ hubClient \in 0..MaxClients
          BY DEF Pcs, Typed
        <4>2. sess' \in {[sess EXCEPT !.pc = "dispose"],
                         [sess EXCEPT !.pc = "dispose", !.spent = TRUE, !.spare = hubClient]}
          BY <1>10 DEF SwapHubClient
        <4>3. /\ [sess EXCEPT !.pc = "dispose"] \in Session
              /\ [sess EXCEPT !.pc = "dispose", !.spent = TRUE, !.spare = hubClient] \in Session
          BY <4>1, SessionExcept
        <4> QED  BY <4>2, <4>3, Zenon
      <3>2. hubClient' \in 0..MaxClients
        BY <1>10 DEF SwapHubClient, Typed, Session
      <3> QED  BY <1>10, <3>1, <3>2 DEF SwapHubClient, Typed
    <2>2. Held' /\ ClientsAccounted'
      BY <1>10 DEF SwapHubClient, MaySwap, Typed, Session, Client, Held, ClientsAccounted, Running
    <2>3. Judged' /\ BeatsJudgeOwnSession'
      BY <1>10, SessionAssumption DEF SwapHubClient, MaySwap, Typed, Session, Judged, BeatsJudgeOwnSession
    <2>4. Published' /\ SharesConverge'
      BY <1>10 DEF SwapHubClient, MaySwap, Typed, Session, Held, Published, SharesConverge
    <2> QED  BY <2>1, <2>2, <2>3, <2>4
  <1>11. ASSUME CloseSpare PROVE IInv'
    <2>1. Typed'
      <3>1. sess' \in Session
        <4>1. "sleep" \in Pcs /\ sess \in Session /\ 0 \in 0..MaxClients
          BY SessionAssumption DEF Pcs, Typed
        <4> QED  BY <1>11, <4>1, SessionExcept DEF CloseSpare
      <3> QED  BY <1>11, <3>1, SessionAssumption DEF CloseSpare, Typed
    <2>2. Held' /\ ClientsAccounted'
      BY <1>11 DEF CloseSpare, Typed, Session, Client, Held, ClientsAccounted, Running
    <2>3. Judged' /\ BeatsJudgeOwnSession'
      BY <1>11, SessionAssumption DEF CloseSpare, Typed, Session, Judged, BeatsJudgeOwnSession
    <2>4. Published' /\ SharesConverge'
      BY <1>11 DEF CloseSpare, Typed, Session, Held, Published, SharesConverge
    <2> QED  BY <2>1, <2>2, <2>3, <2>4
  <1>12. ASSUME Sleep PROVE IInv'
    <2>1. Typed'
      <3>1. sess' \in Session
        <4>1. Woken \in Pcs /\ sess \in Session /\ 0 \in 0..MaxClients
          BY SessionAssumption DEF Pcs, Typed, Woken
        <4> QED  BY <1>12, <4>1, SessionExcept DEF Sleep
      <3> QED  BY <1>12, <3>1, SessionAssumption DEF Sleep, Woken, Typed
    <2>2. Held' /\ ClientsAccounted'
      BY <1>12 DEF Sleep, Woken, Typed, Session, Client, Held, ClientsAccounted, Running
    <2>3. Judged' /\ BeatsJudgeOwnSession'
      BY <1>12, SessionAssumption DEF Sleep, Woken, Typed, Session, Judged, BeatsJudgeOwnSession
    <2>4. Published' /\ SharesConverge'
      BY <1>12 DEF Sleep, Woken, Typed, Session, Held, Published, SharesConverge
    <2> QED  BY <2>1, <2>2, <2>3, <2>4
  <1>13. ASSUME StreamEnds PROVE IInv'
    <2>1. Typed'
      <3>1. sess' \in Session
        BY <1>13, SessionAssumption DEF StreamEnds, Typed, Session, Pcs
      <3> QED  BY <1>13, <3>1, SessionAssumption DEF StreamEnds, Typed
    <2>2. Held' /\ ClientsAccounted'
      BY <1>13 DEF StreamEnds, Typed, Session, Client, Held, ClientsAccounted, Running
    <2>3. Judged' /\ BeatsJudgeOwnSession'
      BY <1>13, SessionAssumption DEF StreamEnds, Typed, Session, Judged, BeatsJudgeOwnSession
    <2>4. Published' /\ SharesConverge'
      BY <1>13 DEF StreamEnds, Typed, Session, Held, Published, SharesConverge
    <2> QED  BY <2>1, <2>2, <2>3, <2>4
  <1> QED  BY <1>1, <1>2, <1>3, <1>4, <1>5, <1>6, <1>7, <1>8, <1>9, <1>10, <1>11, <1>12, <1>13
       DEF SessionStep

\* The heartbeat loop and the watcher.
LEMMA LoopsKeep ==
    ASSUME IInv, Heartbeats \/ OnConfigChange \/ PublishEnds
    PROVE  IInv'
  <1> USE DEF IInv, run, conns, beats, conf, sshd, hubside
  <1>1. ASSUME SendBeat PROVE IInv'
    <2>1. Typed'
      BY <1>1, SessionAssumption DEF SendBeat, Typed, Session, Pcs
    <2>2. Held' /\ ClientsAccounted'
      BY <1>1 DEF SendBeat, Typed, Session, Client, Held, ClientsAccounted, Running
    <2>3. Judged' /\ BeatsJudgeOwnSession'
      BY <1>1, SessionAssumption DEF SendBeat, Typed, Session, Judged, BeatsJudgeOwnSession
    <2>4. Published' /\ SharesConverge'
      BY <1>1 DEF SendBeat, Typed, Session, Held, Published, SharesConverge
    <2> QED  BY <2>1, <2>2, <2>3, <2>4
  <1>2. ASSUME BeatAnswered PROVE IInv'
    <2>1. Typed'
      BY <1>2, SessionAssumption DEF BeatAnswered, Typed, Session, Pcs
    <2>2. Held' /\ ClientsAccounted'
      BY <1>2 DEF BeatAnswered, Typed, Session, Client, Held, ClientsAccounted, Running
    <2>3. Judged' /\ BeatsJudgeOwnSession'
      BY <1>2, SessionAssumption DEF BeatAnswered, Typed, Session, Judged, BeatsJudgeOwnSession
    <2>4. Published' /\ SharesConverge'
      BY <1>2 DEF BeatAnswered, Typed, Session, Held, Published, SharesConverge
    <2> QED  BY <2>1, <2>2, <2>3, <2>4
  <1>3. ASSUME BeatFails PROVE IInv'
    <2>1. Typed'
      BY <1>3, SpendType, SessionAssumption DEF BeatFails, Enough, Typed, Session, Pcs
    <2>2. Held' /\ ClientsAccounted'
      BY <1>3 DEF BeatFails, Enough, Typed, Session, Client, Held, ClientsAccounted, Running
    <2>3. Judged' /\ BeatsJudgeOwnSession'
      BY <1>3, SessionAssumption DEF BeatFails, Enough, Typed, Session, Judged, BeatsJudgeOwnSession
    <2>4. Published' /\ SharesConverge'
      BY <1>3 DEF BeatFails, Enough, Typed, Session, Held, Published, SharesConverge
    <2> QED  BY <2>1, <2>2, <2>3, <2>4
  <1>4. ASSUME OnConfigChange PROVE IInv'
    <2>1. Typed'
      BY <1>4, SessionAssumption DEF OnConfigChange, Typed, Session, Pcs
    <2>2. Held' /\ ClientsAccounted'
      BY <1>4 DEF OnConfigChange, Typed, Session, Client, Held, ClientsAccounted, Running
    <2>3. Judged' /\ BeatsJudgeOwnSession'
      BY <1>4, SessionAssumption DEF OnConfigChange, Typed, Session, Judged, BeatsJudgeOwnSession
    <2>4. Published' /\ SharesConverge'
      BY <1>4 DEF OnConfigChange, Typed, Session, Held, Published, SharesConverge
    <2> QED  BY <2>1, <2>2, <2>3, <2>4
  <1>5. ASSUME PublishEnds PROVE IInv'
    <2>1. Typed'
      <3>1. /\ hubShares' \in 0..MaxEdits /\ faults' \in 0..MaxFaults
            /\ missed' \in BOOLEAN
        BY <1>5, SpendType DEF PublishEnds, Typed
      <3>2. watch' \in [pc : {"off", "idle", "publish"}, client : 0..MaxClients]
        BY <1>5, SessionAssumption DEF PublishEnds
      <3> QED  BY <1>5, <3>1, <3>2 DEF PublishEnds, Typed
    <2>2. Held' /\ ClientsAccounted'
      BY <1>5 DEF PublishEnds, Typed, Session, Client, Held, ClientsAccounted, Running
    <2>3. Judged' /\ BeatsJudgeOwnSession'
      BY <1>5, SessionAssumption DEF PublishEnds, Typed, Session, Judged, BeatsJudgeOwnSession
    <2>4. Published' /\ SharesConverge'
      BY <1>5 DEF PublishEnds, Typed, Session, Held, Published, SharesConverge
    <2> QED  BY <2>1, <2>2, <2>3, <2>4
  <1> QED  BY <1>1, <1>2, <1>3, <1>4, <1>5
       DEF Heartbeats

\* The signal, the SSH server, the hub and the network.
LEMMA EnvironmentKeeps ==
    ASSUME IInv, Environment
    PROVE  IInv'
  <1> USE DEF IInv, run, conns, beats, conf, sshd, hubside
  <1>1. ASSUME Cancel PROVE IInv'
    <2>1. Typed'
      BY <1>1, SessionAssumption DEF Cancel, Typed, Session, Pcs
    <2>2. Held' /\ ClientsAccounted'
      BY <1>1 DEF Cancel, Typed, Session, Client, Held, ClientsAccounted, Running
    <2>3. Judged' /\ BeatsJudgeOwnSession'
      BY <1>1, SessionAssumption DEF Cancel, Typed, Session, Judged, BeatsJudgeOwnSession
    <2>4. Published' /\ SharesConverge'
      BY <1>1 DEF Cancel, Typed, Session, Held, Published, SharesConverge
    <2> QED  BY <2>1, <2>2, <2>3, <2>4
  <1>2. ASSUME SSHDies PROVE IInv'
    <2>1. Typed'
      BY <1>2, SpendType, SessionAssumption DEF SSHDies, Typed, Session, Pcs
    <2>2. Held' /\ ClientsAccounted'
      BY <1>2 DEF SSHDies, Typed, Session, Client, Held, ClientsAccounted, Running
    <2>3. Judged' /\ BeatsJudgeOwnSession'
      BY <1>2, SessionAssumption DEF SSHDies, Typed, Session, Judged, BeatsJudgeOwnSession
    <2>4. Published' /\ SharesConverge'
      BY <1>2 DEF SSHDies, Typed, Session, Held, Published, SharesConverge
    <2> QED  BY <2>1, <2>2, <2>3, <2>4
  <1>3. ASSUME Wedge PROVE IInv'
    <2>1. Typed'
      BY <1>3, SpendType, SessionAssumption DEF Wedge, Typed, Session, Pcs
    <2>2. Held' /\ ClientsAccounted'
      BY <1>3 DEF Wedge, Typed, Session, Client, Held, ClientsAccounted, Running
    <2>3. Judged' /\ BeatsJudgeOwnSession'
      BY <1>3, SessionAssumption DEF Wedge, Typed, Session, Judged, BeatsJudgeOwnSession
    <2>4. Published' /\ SharesConverge'
      BY <1>3 DEF Wedge, Typed, Session, Held, Published, SharesConverge
    <2> QED  BY <2>1, <2>2, <2>3, <2>4
  <1>4. ASSUME StreamBreaks PROVE IInv'
    <2>1. Typed'
      <3>1. sess' \in Session
        BY <1>4, SessionAssumption DEF StreamBreaks, Typed, Session, Pcs
      <3> QED  BY <1>4, <3>1, SpendType, SessionAssumption DEF StreamBreaks, Typed
    <2>2. Held' /\ ClientsAccounted'
      BY <1>4 DEF StreamBreaks, Typed, Session, Client, Held, ClientsAccounted, Running
    <2>3. Judged' /\ BeatsJudgeOwnSession'
      BY <1>4, SessionAssumption DEF StreamBreaks, Typed, Session, Judged, BeatsJudgeOwnSession
    <2>4. Published' /\ SharesConverge'
      BY <1>4 DEF StreamBreaks, Typed, Session, Held, Published, SharesConverge
    <2> QED  BY <2>1, <2>2, <2>3, <2>4
  <1>5. ASSUME NEW h \in {"up", "down", "hole", "refuse"},
               HubChanges(h)
        PROVE  IInv'
    <2>1. Typed'
      <3>1. sess' \in Session
        BY <1>5, SessionAssumption DEF HubChanges, Typed, Session, Pcs
      <3> QED  BY <1>5, <3>1, SpendType, SessionAssumption DEF HubChanges, Typed
    <2>2. Held' /\ ClientsAccounted'
      BY <1>5 DEF HubChanges, Typed, Session, Client, Held, ClientsAccounted, Running
    <2>3. Judged' /\ BeatsJudgeOwnSession'
      BY <1>5, SessionAssumption DEF HubChanges, Typed, Session, Judged, BeatsJudgeOwnSession
    <2>4. Published' /\ SharesConverge'
      BY <1>5 DEF HubChanges, Typed, Session, Held, Published, SharesConverge
    <2> QED  BY <2>1, <2>2, <2>3, <2>4
  <1> QED  BY <1>1, <1>2, <1>3, <1>4, <1>5
       DEF Environment

-----------------------------------------------------------------------------
(* The theorems.                                                           *)

\* The invariant holds when Run begins.
LEMMA InitIInv == Init => IInv
  <1> SUFFICES ASSUME Init PROVE IInv
    OBVIOUS
  <1> USE DEF Init
  <1>1. /\ ctxDone \in BOOLEAN /\ ever \in BOOLEAN /\ ready \in BOOLEAN
        /\ sshDied \in BOOLEAN /\ missed \in BOOLEAN
    OBVIOUS
  <1>2. Typed
    BY <1>1, SessionAssumption DEF Typed, Session, Pcs
  <1>3. Held /\ ClientsAccounted
    BY DEF Held, ClientsAccounted
  <1>4. Judged /\ BeatsJudgeOwnSession /\ Published /\ SharesConverge
    BY DEF Judged, BeatsJudgeOwnSession, Published, SharesConverge
  <1> QED  BY <1>2, <1>3, <1>4 DEF IInv

\* Every step, and stuttering, keeps it.
LEMMA NextIInv == IInv /\ [Next]_vars => IInv'
  <1> SUFFICES ASSUME IInv, [Next]_vars PROVE IInv'
    OBVIOUS
  <1>1. CASE Next
    BY <1>1, MainKeeps, SessionKeeps, LoopsKeep, EnvironmentKeeps DEF Next
  <1>2. CASE UNCHANGED vars
    BY <1>2 DEF vars, run, conns, beats, conf, sshd, hubside, IInv, Typed, Held,
       ClientsAccounted, Judged, BeatsJudgeOwnSession, Published, SharesConverge
  <1> QED  BY <1>1, <1>2

\* The strengthening is an invariant of the daemon's session.
THEOREM Inductive == Spec => []IInv
  BY InitIInv, NextIInv, PTL DEF Spec

\* Every variable of the session, the heartbeat, the watcher and the hub as the
\* agent finds it has its type; failures counted stay below the limit.
THEOREM SessionTyped == Spec => []TypeOK
  <1>1. Typed => TypeOK
    BY Zenon DEF Typed, TypeOK
  <1> QED  BY <1>1, Inductive, PTL DEF IInv

\* Every open connection is the installed one or about to be closed, the installed
\* one is open until Shutdown closes it, and Shutdown closes the last.
THEOREM NoConnectionLeaks == Spec => []ClientsAccounted
  <1>1. IInv => ClientsAccounted
    BY DEF IInv
  <1> QED  BY <1>1, Inductive, PTL

\* Heartbeats give a session up on failures of its own but for one at most.
THEOREM SessionsJudgedByOwnBeats == Spec => []BeatsJudgeOwnSession
  <1>1. IInv => BeatsJudgeOwnSession
    BY DEF IInv
  <1> QED  BY <1>1, Inductive, PTL

\* Reading events with nothing to publish, the hub has the shares in force,
\* unless a change was missed as the history variable says.
THEOREM HubHasTheShares == Spec => []SharesConverge
  <1>1. IInv => SharesConverge
    BY DEF IInv
  <1> QED  BY <1>1, Inductive, PTL

=============================================================================
