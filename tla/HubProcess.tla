----------------------------- MODULE HubProcess -----------------------------
(***************************************************************************)
(* The hub as a process: `hubfuse-hub start` (cmd/hubfuse-hub/main.go),    *)
(* Hub.Start and Hub.Stop (internal/hub/hub.go), the bounded stop of the   *)
(* gRPC server (internal/hub/lifecycle.go), and the process control around *)
(* them: the PID file, the parent of `start --daemon` and `hubfuse-hub     *)
(* stop` (internal/common/daemonize).                                      *)
(*                                                                         *)
(* Five goroutines meet here: RunE (main), awaitTermination (term), the    *)
(* goroutine that runs Stop (stop), the two background goroutines of Start *)
(* (bg) and the RPC handlers (handlers).  One action is the code between   *)
(* two points where another of them can interfere: a lock, a channel, an   *)
(* atomic or a call that blocks.  Time is abstracted: a timer may fire at  *)
(* any moment once it is armed.  A PID is the number of the run.           *)
(*                                                                         *)
(* What the RPC handlers and the sweep do to the devices is module         *)
(* Registry; here they only use the store.                                 *)
(***************************************************************************)
EXTENDS Naturals

CONSTANTS MaxRuns,     \* bound: how often the hub is started
          MaxSignals,  \* bound: signals sent besides the ones of `stop`
          MaxHandlers, \* bound: RPC handlers running at a time
          MaxFaults    \* bound: genuine failures of the start, of Serve and of
                       \* the parent's reading of the PID file

ASSUME BoundsAssumption ==
    /\ MaxRuns \in Nat \ {0}
    /\ MaxSignals \in Nat
    /\ MaxHandlers \in Nat
    /\ MaxFaults \in Nat

VARIABLES run,       \* the run's PID; 0 before the first start
          main,      \* where RunE's goroutine is
          startErr,  \* what Start returned: "none", "fault", "cut" (by cancel)
          life,      \* Hub.state
          ctxDone,   \* the context Start was given is cancelled
          grpc,      \* the gRPC server: "none", "up", "stopping", "down"
          handlers,  \* RPC handlers running
          bg,        \* background goroutines running (bgWG)
          store,     \* the SQLite store: "open" or "closed"
          term,      \* where awaitTermination is
          stop,      \* where the goroutine that runs Stop is
          srv,       \* stop's copy of h.grpcServer is not nil
          sig,       \* a signal waits in sigCh (a buffer of one)
          signaled,  \* awaitTermination's atomics, and the channel done
          succeeded,
          done,
          end,       \* how the run ended
          pidFile,   \* the PID the file holds, 0 when there is none
          parent,    \* the process in Spawn: [pc, child]
          cli,       \* the process in SignalStop: [pc, pid]
          signals, faults \* what is left of the bounds

hubVars  == <<life, ctxDone, grpc, bg, store>>
termVars == <<term, sig, signaled>>
stopVars == <<stop, srv, succeeded, done>>
procVars == <<run, end, pidFile>>
ctlVars  == <<parent, cli, signals, faults>>
vars == <<main, startErr, handlers, hubVars, termVars, stopVars, procVars, ctlVars>>

Alive == main \notin {"none", "exited"}

Init ==
    /\ run = 0 /\ main = "none" /\ startErr = "none" /\ end = "none"
    /\ life = "notStarted" /\ ctxDone = FALSE /\ grpc = "none" /\ handlers = 0
    /\ bg = 0 /\ store = "closed" /\ term = "none" /\ stop = "none" /\ srv = FALSE
    /\ sig = FALSE /\ signaled = FALSE /\ succeeded = FALSE /\ done = FALSE
    /\ pidFile = 0
    /\ parent = [pc |-> "none", child |-> 0] /\ cli = [pc |-> "none", pid |-> 0]
    /\ signals = MaxSignals /\ faults = MaxFaults

-----------------------------------------------------------------------------
(* The end of the process: every goroutine is gone.                        *)

\* os.Exit, a return from main or a signal's default action.
Die(how) ==
    /\ main' = "exited" /\ end' = how
    /\ handlers' = 0 /\ bg' = 0 /\ store' = "closed" /\ grpc' = "none"
    /\ UNCHANGED <<run, startErr, life, ctxDone, termVars, stopVars>>

\* removePIDFile removes the file, whatever PID it holds.
RemovePIDFile == pidFile' = 0

\* SIGKILL from the outside: nothing of the process runs any more.
Kill(p) == p = run /\ Alive /\ Die("killed") /\ UNCHANGED <<pidFile, signals, faults>>

Fault == faults > 0 /\ faults' = faults - 1

-----------------------------------------------------------------------------
(* RunE and Hub.Start.                                                     *)

\* CheckRunning found no live PID (a stale file it removes), and the command
\* goes on: in this process, or with --daemon in a child that its parent waits
\* for in Spawn.
StartCmd(daemon) ==
    /\ ~Alive /\ run < MaxRuns
    /\ parent.pc # "waiting"
    /\ run' = run + 1 /\ main' = "boot" /\ startErr' = "none" /\ end' = "none"
    /\ RemovePIDFile
    /\ life' = "notStarted" /\ ctxDone' = FALSE /\ grpc' = "none" /\ bg' = 0
    /\ store' = "closed" /\ term' = "none" /\ stop' = "none" /\ srv' = FALSE
    /\ sig' = FALSE /\ signaled' = FALSE /\ succeeded' = FALSE /\ done' = FALSE
    /\ parent' = IF daemon THEN [pc |-> "waiting", child |-> run + 1] ELSE parent
    /\ UNCHANGED <<handlers, cli, signals, faults>>

\* The flags and NewHub: the store is opened; then signal.Notify and the
\* goroutine awaitTermination.
Boot ==
    /\ main = "boot"
    /\ main' = "enter" /\ store' = "open" /\ term' = "await"
    /\ UNCHANGED <<startErr, handlers, life, ctxDone, grpc, bg, sig, signaled,
                   stopVars, procVars, ctlVars>>

\* A flag, the store or the certificates are refused: RunE returns before it
\* has deferred removePIDFile.
BootFails ==
    /\ main = "boot" /\ Fault /\ Die("fault")
    /\ UNCHANGED <<pidFile, parent, cli, signals>>

\* Start's first critical section.
Enter ==
    /\ main = "enter"
    /\ IF life = "notStarted"
         THEN main' = "reconcile" /\ life' = "started"
         ELSE main' = "returned" /\ UNCHANGED life
    /\ UNCHANGED <<startErr, handlers, ctxDone, grpc, bg, store, termVars,
                   stopVars, procVars, ctlVars>>

\* ReconcileDeviceStatuses: it fails by itself, because the context was
\* cancelled, or because Stop closed the store; a call that got hold of the
\* connection in time succeeds.
Reconcile ==
    /\ main = "reconcile"
    /\ \/ store = "open" /\ main' = "listen" /\ UNCHANGED <<startErr, faults>>
       \/ Fault /\ main' = "judge" /\ startErr' = "fault"
       \/ /\ ctxDone \/ store = "closed"
          /\ main' = "judge" /\ startErr' = "cut" /\ UNCHANGED faults
    /\ UNCHANGED <<handlers, hubVars, termVars, stopVars, procVars, parent, cli, signals>>

\* The error of ReconcileDeviceStatuses counts unless Stop has run: h.stopped().
Judge ==
    /\ main = "judge"
    /\ main' = "returned"
    /\ startErr' = IF life = "stopped" THEN "none" ELSE startErr
    /\ UNCHANGED <<handlers, hubVars, termVars, stopVars, procVars, ctlVars>>

\* net.Listen.
Listen ==
    /\ main = "listen"
    /\ \/ main' = "publish" /\ UNCHANGED <<startErr, faults>>
       \/ Fault /\ main' = "returned" /\ startErr' = "fault"
    /\ UNCHANGED <<handlers, hubVars, termVars, stopVars, procVars, parent, cli, signals>>

MayPublishAlways == TRUE \* mutant
MayPublish == life # "stopped"

\* Start's second critical section: a Stop that has run meanwhile wins;
\* otherwise the server, the background goroutines and the PID file appear
\* together.  A PID file that cannot be written is only a warning.
Publish ==
    /\ main = "publish"
    /\ IF MayPublish
         THEN /\ main' = "serve" /\ grpc' = "up" /\ bg' = 2
              /\ \/ pidFile' = run /\ UNCHANGED faults
                 \/ Fault /\ UNCHANGED pidFile
         ELSE main' = "returned" /\ UNCHANGED <<grpc, bg, pidFile, faults>>
    /\ UNCHANGED <<startErr, handlers, life, ctxDone, store, termVars, stopVars,
                   run, end, parent, cli, signals>>

\* grpcServer.Serve: called after the server was stopped it returns at once
\* (ErrServerStopped, and Stop has run); called before, when the server is
\* down; or it fails by itself.
Serve ==
    /\ main \in {"serve", "serving"}
    /\ \/ /\ main = "serve"
          /\ main' = IF grpc = "up" THEN "serving" ELSE "returned"
          /\ UNCHANGED <<startErr, faults>>
       \/ main = "serving" /\ grpc = "down" /\ main' = "returned" /\ UNCHANGED <<startErr, faults>>
       \/ main = "serving" /\ grpc = "up" /\ Fault /\ main' = "returned" /\ startErr' = "fault"
    /\ UNCHANGED <<handlers, hubVars, termVars, stopVars, procVars, parent, cli, signals>>

MustWaitAlways == TRUE \* mutant
MustWaitNever == FALSE \* mutant
MustWait == signaled

\* waitForShutdown waits for done only if a signal was seen when it looks.
WaitForShutdown ==
    /\ main = "returned"
    /\ main' = IF MustWait THEN "waiting" ELSE "leaving"
    /\ UNCHANGED <<startErr, handlers, hubVars, termVars, stopVars, procVars, ctlVars>>

\* The deferred removePIDFile, and the process's exit status.
Leave ==
    /\ main = "leaving" \/ (main = "waiting" /\ done)
    /\ RemovePIDFile
    /\ Die(IF startErr = "none" THEN "ok" ELSE startErr)
    /\ UNCHANGED ctlVars

-----------------------------------------------------------------------------
(* The background goroutines and the RPC handlers.                         *)

ReturningUncounted == ctxDone \* mutant
\* The heartbeat monitor and the token sweeper return once their context,
\* derived from Start's, is cancelled.
Returning == bg > 0 /\ ctxDone

BackgroundExits ==
    /\ Alive /\ Returning
    /\ bg' = bg - 1
    /\ UNCHANGED <<main, startErr, handlers, life, ctxDone, grpc, store, termVars,
                   stopVars, procVars, ctlVars>>

HandlerBegins ==
    /\ main = "serving" /\ grpc = "up" /\ handlers < MaxHandlers
    /\ handlers' = handlers + 1
    /\ UNCHANGED <<main, startErr, hubVars, termVars, stopVars, procVars, ctlVars>>

HandlerEnds ==
    /\ handlers > 0
    /\ handlers' = handlers - 1
    /\ UNCHANGED <<main, startErr, hubVars, termVars, stopVars, procVars, ctlVars>>

\* GracefulStop ends when the last handler has; a forced Stop drops the
\* connections and does not wait for the handlers.
ServerStops(forced) ==
    /\ Alive /\ grpc = "stopping"
    /\ IF forced THEN stop = "forced" /\ handlers > 0 ELSE handlers = 0
    /\ grpc' = "down"
    /\ UNCHANGED <<main, startErr, handlers, life, ctxDone, bg, store, termVars,
                   stopVars, procVars, ctlVars>>

-----------------------------------------------------------------------------
(* awaitTermination.                                                       *)

\* os/signal: before Notify the signal kills the process, afterwards it is
\* dropped when the channel is full.
Deliver ==
    IF main = "boot"
      THEN Die("killed") /\ UNCHANGED pidFile
      ELSE sig' = TRUE /\ UNCHANGED <<main, startErr, handlers, hubVars, term,
                                      signaled, stopVars, procVars>>

Signal ==
    /\ Alive /\ signals > 0
    /\ signals' = signals - 1
    /\ Deliver
    /\ UNCHANGED <<parent, cli, faults>>

\* The first signal: signaled is stored before the context is cancelled and
\* before Stop is called.
AwaitSignal ==
    /\ Alive /\ term = "await" /\ sig
    /\ sig' = FALSE /\ signaled' = TRUE /\ term' = "cancel"
    /\ UNCHANGED <<main, startErr, handlers, hubVars, stopVars, procVars, ctlVars>>

\* cancel(), and the goroutine that calls Stop.
CancelAndStop ==
    /\ Alive /\ term = "cancel"
    /\ ctxDone' = TRUE /\ stop' = "mark" /\ term' = "select"
    /\ UNCHANGED <<main, startErr, handlers, life, grpc, bg, store, sig, signaled,
                   srv, succeeded, done, procVars, ctlVars>>

\* Stop has settled, or a second signal arrives: an abort unless Stop has
\* already succeeded.  Both may be ready, and either may be chosen.
SecondSelect ==
    /\ Alive /\ term = "select"
    /\ \/ stop = "end" /\ term' = "over" /\ UNCHANGED sig
       \/ sig /\ sig' = FALSE /\ term' = IF succeeded THEN "over" ELSE "abort"
    /\ UNCHANGED <<main, startErr, handlers, hubVars, signaled, stopVars, procVars, ctlVars>>

Abort ==
    /\ Alive /\ term = "abort"
    /\ RemovePIDFile /\ term' = "exit"
    /\ UNCHANGED <<main, startErr, handlers, hubVars, sig, signaled, stopVars,
                   run, end, ctlVars>>

AbortExit == Alive /\ term = "exit" /\ Die("abort") /\ UNCHANGED <<pidFile, ctlVars>>

-----------------------------------------------------------------------------
(* Hub.Stop, and the goroutine around it.                                  *)

StopVarsBut(pc) ==
    /\ stop' = pc
    /\ UNCHANGED <<main, startErr, handlers, termVars, done, procVars, ctlVars>>

\* The critical section that decides the race with Start.
Mark ==
    /\ Alive /\ stop = "mark"
    /\ life' = "stopped" /\ srv' = (grpc # "none")
    /\ StopVarsBut("sweep")
    /\ UNCHANGED <<ctxDone, grpc, bg, store, succeeded>>

\* Drain, the cancel of the background goroutines (their context is already
\* cancelled with Start's), the sweep and CloseAllSubscribers; then
\* GracefulStop, when there is a server.
Sweep ==
    /\ Alive /\ stop = "sweep"
    /\ IF srv THEN grpc' = "stopping" /\ StopVarsBut("grace")
              ELSE StopVarsBut("bgwait") /\ UNCHANGED grpc
    /\ UNCHANGED <<life, ctxDone, bg, store, srv, succeeded>>

CloseStoreIfStopped(outcome) == outcome \in {"graceful", "forced"} \* mutant
\* stopResultFor: which outcomes of StopServer let the store be closed.
CloseStore(outcome) == outcome = "graceful"

Outcome(outcome) ==
    StopVarsBut(CASE outcome = "hung" -> "hung"
                  [] CloseStore(outcome) -> "bgwait"
                  [] OTHER -> "settled")

\* StopServer: the grace window, a last look at done, then the forced Stop.
\* Both timers are set from what splitRemaining leaves of one budget.
Grace ==
    /\ Alive /\ stop = "grace"
    /\ IF grpc = "down" THEN Outcome("graceful") ELSE StopVarsBut("forced")
    /\ UNCHANGED <<hubVars, srv, succeeded>>

Forced ==
    /\ Alive /\ stop = "forced"
    /\ Outcome(IF grpc = "down" THEN "forced" ELSE "hung")
    /\ UNCHANGED <<hubVars, srv, succeeded>>

\* waitForBackground, within what is left of the budget, then store.Close.
BackgroundDone ==
    /\ Alive /\ stop = "bgwait"
    /\ \/ bg = 0 /\ store' = "closed"
       \/ UNCHANGED store \* the budget ended first
    /\ StopVarsBut("settled")
    /\ UNCHANGED <<life, ctxDone, grpc, bg, srv, succeeded>>

\* What follows Stop: succeeded is stored before done is closed, and done
\* before shuttingDown.
Settled ==
    /\ Alive /\ stop = "settled"
    /\ succeeded' = TRUE
    /\ StopVarsBut("close")
    /\ UNCHANGED <<hubVars, srv>>

CloseDone ==
    /\ Alive /\ stop = "close" /\ ~done
    /\ done' = TRUE
    /\ UNCHANGED <<main, startErr, handlers, hubVars, termVars, stop, srv, succeeded,
                   procVars, ctlVars>>

CloseShuttingDown ==
    /\ Alive /\ stop = "close" /\ done
    /\ StopVarsBut("end")
    /\ UNCHANGED <<hubVars, srv, succeeded>>

\* Stop did not settle: the process leaves from this goroutine.
Hung ==
    /\ Alive /\ stop = "hung"
    /\ RemovePIDFile /\ Die("hung")
    /\ UNCHANGED ctlVars

-----------------------------------------------------------------------------
(* Process control: Spawn's parent, `hubfuse-hub stop`, and a crash.       *)

\* Spawn's poll: the child has exited (CheckRunning removes the file of a dead
\* process), or the file holds its PID, even if it has just died, or the file
\* cannot be read.  The last is an error that leaves the child alone.
SpawnPoll ==
    /\ parent.pc = "waiting"
    /\ \/ /\ ~Alive /\ parent' = [parent EXCEPT !.pc = "failed"]
          /\ pidFile' \in {pidFile, 0} /\ UNCHANGED faults
       \/ /\ pidFile = parent.child /\ parent' = [parent EXCEPT !.pc = "started"]
          /\ UNCHANGED <<pidFile, faults>>
       \/ /\ Fault /\ parent' = [parent EXCEPT !.pc = "unread"]
          /\ UNCHANGED pidFile
    /\ UNCHANGED <<main, startErr, handlers, hubVars, termVars, stopVars, run, end,
                   cli, signals>>

\* The readiness deadline has passed: the child is killed.
SpawnTimeout ==
    /\ parent.pc = "waiting" /\ Alive
    /\ Kill(parent.child) /\ parent' = [parent EXCEPT !.pc = "failed"]
    /\ UNCHANGED cli

\* SignalStop reads the PID and sends SIGTERM.
StopCmd ==
    /\ cli.pc \in {"none", "gone"} /\ Alive /\ pidFile # 0
    /\ cli' = [pc |-> "waiting", pid |-> pidFile]
    /\ Deliver
    /\ UNCHANGED <<parent, signals, faults>>

\* waitForExit sees that the process is gone, before or after SIGKILL.
StopSees ==
    /\ cli.pc = "waiting" /\ (cli.pid # run \/ ~Alive)
    /\ cli' = [cli EXCEPT !.pc = "gone"]
    /\ UNCHANGED <<main, startErr, handlers, hubVars, termVars, stopVars, procVars,
                   parent, signals, faults>>

\* The ten seconds are over: SIGKILL.
StopKills == cli.pc = "waiting" /\ Kill(cli.pid) /\ UNCHANGED <<parent, cli>>

-----------------------------------------------------------------------------

MainStep == Boot \/ Enter \/ Reconcile \/ Judge \/ Listen \/ Publish \/ Serve
            \/ WaitForShutdown \/ Leave
TermStep == AwaitSignal \/ CancelAndStop \/ SecondSelect \/ Abort \/ AbortExit
StopStep == Mark \/ Sweep \/ Grace \/ Forced \/ BackgroundDone \/ Settled
            \/ CloseDone \/ CloseShuttingDown \/ Hung
Control  == SpawnPoll \/ SpawnTimeout \/ StopCmd \/ StopSees \/ StopKills \/ Signal
            \/ \E daemon \in BOOLEAN : StartCmd(daemon)

Next == MainStep \/ BootFails \/ TermStep \/ StopStep \/ BackgroundExits
        \/ HandlerBegins \/ HandlerEnds
        \/ (\E forced \in BOOLEAN : ServerStops(forced)) \/ Control

\* The goroutines run, the timers of the stop fire, and the parent polls.  No
\* handler has to end, no forced Stop has to return, nobody has to press ^C.
Fairness ==
    /\ WF_vars(MainStep) /\ WF_vars(TermStep) /\ WF_vars(StopStep)
    /\ WF_vars(BackgroundExits) /\ WF_vars(ServerStops(FALSE)) /\ WF_vars(SpawnPoll)

Spec == Init /\ [][Next]_vars /\ Fairness

-----------------------------------------------------------------------------

(* Every variable has its type. *)
TypeOK ==
    /\ run \in 0..MaxRuns /\ pidFile \in 0..MaxRuns
    /\ main \in {"none", "boot", "enter", "reconcile", "judge", "listen", "publish",
                 "serve", "serving", "returned", "waiting", "leaving", "exited"}
    /\ startErr \in {"none", "fault", "cut"}
    /\ life \in {"notStarted", "started", "stopped"} /\ ctxDone \in BOOLEAN
    /\ grpc \in {"none", "up", "stopping", "down"} /\ handlers \in 0..MaxHandlers
    /\ bg \in 0..2 /\ store \in {"open", "closed"}
    /\ term \in {"none", "await", "cancel", "select", "over", "abort", "exit"}
    /\ stop \in {"none", "mark", "sweep", "grace", "forced", "bgwait", "settled",
                 "close", "end", "hung"}
    /\ srv \in BOOLEAN /\ sig \in BOOLEAN /\ signaled \in BOOLEAN
    /\ succeeded \in BOOLEAN /\ done \in BOOLEAN
    /\ end \in {"none", "ok", "fault", "cut", "hung", "abort", "killed"}
    /\ parent \in [pc : {"none", "waiting", "started", "failed", "unread"}, child : 0..MaxRuns]
    /\ cli \in [pc : {"none", "waiting", "gone"}, pid : 0..MaxRuns]
    /\ signals \in 0..MaxSignals /\ faults \in 0..MaxFaults

(* While the process runs, Stop closes the store only when no RPC handler and    *)
(* no background goroutine is left to use it, and none can appear afterwards:    *)
(* hub.go's handshake between Start's and Stop's critical sections, and the      *)
(* reason stopResultFor keeps the store open after a forced stop.                *)
StoreOutlivesUsers ==
    (main \notin {"none", "boot", "exited"} /\ store = "closed") =>
        /\ handlers = 0 /\ bg = 0
        /\ grpc \in {"none", "down"}

(* What the process and the commands around it report is true.  Exit status 0   *)
(* means that Stop ran to its end although RunE and Stop are different           *)
(* goroutines; a run that ends by itself, without an operator's second signal,   *)
(* leaves no PID file for the next start; `stop` does not say that the process   *)
(* is gone while it runs, and neither does `start --daemon` when it says that    *)
(* the daemon exited or did not become ready.  Its third error, that the PID     *)
(* file cannot be read ("unread", spawn_unix.go:121), is excepted: start fails   *)
(* and the child runs on.                                                        *)
ExitHonest ==
    /\ end = "ok" => succeeded
    /\ end \in {"ok", "fault", "cut", "hung"} => pidFile = 0
    /\ parent.pc = "failed" => ~(Alive /\ parent.child = run)
    /\ cli.pc = "gone" => ~(Alive /\ cli.pid = run)

(* An ordinary stop does not end in an error, wherever in the start it lands:    *)
(* hub.go:168-176 takes the failure of ReconcileDeviceStatuses under a           *)
(* cancelled context for "a clean stop seen from an unlucky angle" that must not *)
(* be recorded as a failed unit.                                                 *)
OrdinaryStopIsClean == end # "cut"

(* The shutdown is bounded although handlers may never end: once a signal was    *)
(* seen, or Start has returned, the process exits.                               *)
StopSettles == (signaled \/ main = "returned") ~> (main \in {"none", "exited"})

=============================================================================
