------------------------------ MODULE HubProofs ------------------------------
(***************************************************************************)
(* The safety properties of HubProcess for every number of runs, signals,  *)
(* handlers and faults.                                                    *)
(*                                                                         *)
(* Neither of them is inductive.  The strengthening says where the five    *)
(* goroutines can be at the same time: awaitTermination, the atomics and   *)
(* Stop keep step (InStep); a server exists only behind Start's second     *)
(* critical section, and Stop's critical section decides whether it ever   *)
(* will (Serving, Stopping); Start returns without an error only when a    *)
(* signal was seen, so RunE waits for Stop (Returned); and no PID is one   *)
(* of a run to come (PidsPast).                                            *)
(***************************************************************************)
EXTENDS HubProcess, TLAPS

-----------------------------------------------------------------------------
(* The inductive invariant.                                                *)

\* awaitTermination, the goroutine of Stop, the atomics and Hub.state.
InStep ==
    /\ signaled <=> term \notin {"none", "await"}
    /\ stop = "none" <=> term \in {"none", "await", "cancel"}
    /\ life = "stopped" <=> stop \notin {"none", "mark"}
    /\ succeeded <=> stop \in {"close", "end"}
    /\ done => succeeded
    /\ main = "boot" => term = "none"

\* There is a server, with its goroutines and handlers, once Start has
\* published it, and until then Start has not been overtaken twice.
Serving ==
    /\ main \notin {"serve", "serving", "returned", "waiting", "leaving"} => grpc = "none"
    /\ main \in {"serve", "serving"} => grpc # "none"
    /\ grpc = "none" => bg = 0 /\ handlers = 0
    /\ main \in {"boot", "enter"} => life # "started"

\* What the goroutine of Stop knows of the server at each of its steps.
Stopping ==
    /\ grpc = "up" => stop \in {"none", "mark", "sweep"}
    /\ grpc \in {"stopping", "down"} => stop \notin {"none", "mark", "sweep"}
    /\ Alive => /\ stop = "sweep" => (srv <=> grpc # "none")
                /\ stop \in {"grace", "forced"} => grpc # "none"
                /\ stop = "bgwait" => grpc \in {"none", "down"}
    /\ stop = "grace" /\ grpc = "down" => handlers = 0
    /\ stop = "bgwait" => handlers = 0
    /\ (Alive /\ main # "boot" /\ store = "closed") => stop \in {"settled", "close", "end"}

\* An error is on its way when Start returns unless a signal was seen.
Returned ==
    /\ main \in {"judge", "leaving"} => startErr # "none"
    /\ main = "returned" => startErr # "none" \/ signaled

\* PIDs are those of runs that have begun, and the file is written late.
PidsPast ==
    /\ pidFile <= run /\ parent.child <= run /\ cli.pid <= run
    /\ main \in {"boot", "enter", "reconcile", "judge", "listen", "publish"} => pidFile = 0
    /\ end # "none" => main = "exited"

IInv == TypeOK /\ InStep /\ Serving /\ Stopping /\ Returned /\ PidsPast
        /\ StoreOutlivesUsers /\ ExitHonest

-----------------------------------------------------------------------------
(* The steps.                                                              *)

\* What a step of control may do to the parent, to `stop` and to the bounds
\* when the process ends with it.
ControlKept ==
    /\ parent' \in [pc : {"none", "waiting", "started", "failed", "unread"}, child : 0..MaxRuns]
    /\ cli' \in [pc : {"none", "waiting", "gone"}, pid : 0..MaxRuns]
    /\ parent'.child <= run /\ cli'.pid <= run
    /\ signals' \in 0..MaxSignals /\ faults' \in 0..MaxFaults

\* The end of the process, with an honest status: what lived in it is gone.
LEMMA Dying ==
    ASSUME IInv, NEW how \in {"ok", "fault", "cut", "hung", "abort", "killed"}, Die(how),
           pidFile' \in {pidFile, 0}, ControlKept,
           how \in {"ok", "fault", "cut", "hung"} => pidFile' = 0,
           how = "ok" => succeeded
    PROVE  IInv'
  <1> USE DEF IInv, Die, termVars, stopVars
  <1>1. TypeOK'
    BY BoundsAssumption DEF TypeOK, ControlKept
  <1>2. InStep' /\ Serving' /\ Stopping' /\ Returned'
    BY DEF TypeOK, InStep, Serving, Stopping, Returned, Alive
  <1>3. PidsPast' /\ StoreOutlivesUsers' /\ ExitHonest'
    BY DEF TypeOK, PidsPast, StoreOutlivesUsers, ExitHonest, Alive, ControlKept
  <1> QED  BY <1>1, <1>2, <1>3

\* A fault uses up one of those that are left.
LEMMA FaultType ==
    ASSUME TypeOK, Fault
    PROVE  faults' \in 0..MaxFaults
  BY BoundsAssumption DEF TypeOK, Fault

\* RunE and Start.
LEMMA MainKeeps ==
    ASSUME IInv, MainStep
    PROVE  IInv'
  <1> USE DEF IInv, hubVars, termVars, stopVars, procVars, ctlVars
  <1>1. ASSUME Boot PROVE IInv'
    <2>1. TypeOK'
      BY <1>1, BoundsAssumption DEF Boot, TypeOK
    <2>2. InStep' /\ Serving' /\ Returned'
      BY <1>1 DEF Boot, TypeOK, InStep, Serving, Stopping, Returned, Alive
    <2>3. Stopping' /\ StoreOutlivesUsers'
      BY <1>1 DEF Boot, TypeOK, InStep, Serving, Stopping, StoreOutlivesUsers, Alive
    <2>4. PidsPast' /\ ExitHonest'
      BY <1>1 DEF Boot, TypeOK, InStep, PidsPast, ExitHonest, Alive
    <2> QED  BY <2>1, <2>2, <2>3, <2>4
  <1>2. ASSUME Enter PROVE IInv'
    <2>1. TypeOK'
      BY <1>2, BoundsAssumption DEF Enter, TypeOK
    <2>2. InStep' /\ Serving' /\ Returned'
      BY <1>2 DEF Enter, TypeOK, InStep, Serving, Stopping, Returned, Alive
    <2>3. Stopping' /\ StoreOutlivesUsers'
      BY <1>2 DEF Enter, TypeOK, InStep, Serving, Stopping, StoreOutlivesUsers, Alive
    <2>4. PidsPast' /\ ExitHonest'
      BY <1>2 DEF Enter, TypeOK, InStep, PidsPast, ExitHonest, Alive
    <2> QED  BY <2>1, <2>2, <2>3, <2>4
  <1>3. ASSUME Reconcile PROVE IInv'
    <2>1. TypeOK'
      BY <1>3, FaultType, BoundsAssumption DEF Reconcile, TypeOK
    <2>2. InStep' /\ Serving' /\ Returned'
      BY <1>3 DEF Reconcile, Fault, TypeOK, InStep, Serving, Stopping, Returned, Alive
    <2>3. Stopping' /\ StoreOutlivesUsers'
      BY <1>3 DEF Reconcile, Fault, TypeOK, InStep, Serving, Stopping, StoreOutlivesUsers, Alive
    <2>4. PidsPast' /\ ExitHonest'
      BY <1>3 DEF Reconcile, Fault, TypeOK, InStep, PidsPast, ExitHonest, Alive
    <2> QED  BY <2>1, <2>2, <2>3, <2>4
  <1>4. ASSUME Judge PROVE IInv'
    <2>1. TypeOK'
      BY <1>4, BoundsAssumption DEF Judge, TypeOK
    <2>2. InStep' /\ Serving' /\ Returned'
      BY <1>4 DEF Judge, TypeOK, InStep, Serving, Stopping, Returned, Alive
    <2>3. Stopping' /\ StoreOutlivesUsers'
      BY <1>4 DEF Judge, TypeOK, InStep, Serving, Stopping, StoreOutlivesUsers, Alive
    <2>4. PidsPast' /\ ExitHonest'
      BY <1>4 DEF Judge, TypeOK, InStep, PidsPast, ExitHonest, Alive
    <2> QED  BY <2>1, <2>2, <2>3, <2>4
  <1>5. ASSUME Listen PROVE IInv'
    <2>1. TypeOK'
      BY <1>5, FaultType, BoundsAssumption DEF Listen, TypeOK
    <2>2. InStep' /\ Serving' /\ Returned'
      BY <1>5 DEF Listen, Fault, TypeOK, InStep, Serving, Stopping, Returned, Alive
    <2>3. Stopping' /\ StoreOutlivesUsers'
      BY <1>5 DEF Listen, Fault, TypeOK, InStep, Serving, Stopping, StoreOutlivesUsers, Alive
    <2>4. PidsPast' /\ ExitHonest'
      BY <1>5 DEF Listen, Fault, TypeOK, InStep, PidsPast, ExitHonest, Alive
    <2> QED  BY <2>1, <2>2, <2>3, <2>4
  <1>6. ASSUME Publish PROVE IInv'
    <2>1. TypeOK'
      BY <1>6, FaultType, BoundsAssumption DEF Publish, MayPublish, TypeOK
    <2>2. InStep' /\ Serving' /\ Returned'
      BY <1>6 DEF Publish, MayPublish, Fault, TypeOK, InStep, Serving, Stopping, Returned, Alive
    <2>3. Stopping' /\ StoreOutlivesUsers'
      BY <1>6 DEF Publish, MayPublish, Fault, TypeOK, InStep, Serving, Stopping, StoreOutlivesUsers, Alive
    <2>4. PidsPast' /\ ExitHonest'
      BY <1>6 DEF Publish, MayPublish, Fault, TypeOK, InStep, PidsPast, ExitHonest, Alive
    <2> QED  BY <2>1, <2>2, <2>3, <2>4
  <1>7. ASSUME Serve PROVE IInv'
    <2>1. TypeOK'
      <3>1. /\ main' \in {"serving", "returned"} /\ startErr' \in {startErr, "fault"}
            /\ faults' \in 0..MaxFaults
        BY <1>7, FaultType DEF Serve, TypeOK
      <3> QED  BY <1>7, <3>1 DEF Serve, TypeOK
    <2>2. InStep' /\ Serving' /\ Returned'
      BY <1>7 DEF Serve, Fault, TypeOK, InStep, Serving, Stopping, Returned, Alive
    <2>3. Stopping' /\ StoreOutlivesUsers'
      BY <1>7 DEF Serve, Fault, TypeOK, InStep, Serving, Stopping, StoreOutlivesUsers, Alive
    <2>4. PidsPast' /\ ExitHonest'
      BY <1>7 DEF Serve, Fault, TypeOK, InStep, PidsPast, ExitHonest, Alive
    <2> QED  BY <2>1, <2>2, <2>3, <2>4
  <1>8. ASSUME WaitForShutdown PROVE IInv'
    <2>1. TypeOK'
      BY <1>8, BoundsAssumption DEF WaitForShutdown, MustWait, TypeOK
    <2>2. InStep' /\ Serving' /\ Returned'
      BY <1>8 DEF WaitForShutdown, MustWait, TypeOK, InStep, Serving, Stopping, Returned, Alive
    <2>3. Stopping' /\ StoreOutlivesUsers'
      BY <1>8 DEF WaitForShutdown, MustWait, TypeOK, InStep, Serving, Stopping, StoreOutlivesUsers, Alive
    <2>4. PidsPast' /\ ExitHonest'
      BY <1>8 DEF WaitForShutdown, MustWait, TypeOK, InStep, PidsPast, ExitHonest, Alive
    <2> QED  BY <2>1, <2>2, <2>3, <2>4
  <1>9. ASSUME Leave PROVE IInv'
    <2> DEFINE how == IF startErr = "none" THEN "ok" ELSE startErr
    <2>1. /\ how \in {"ok", "fault", "cut", "hung", "abort", "killed"}
          /\ Die(how) /\ pidFile' = 0
      BY <1>9 DEF Leave, RemovePIDFile, TypeOK
    <2>2. how = "ok" => succeeded
      BY <1>9 DEF Leave, TypeOK, Returned, InStep
    <2>3. ControlKept
      BY <1>9 DEF Leave, ControlKept, TypeOK, PidsPast
    <2> HIDE DEF how
    <2> QED  BY <2>1, <2>2, <2>3, Dying
  <1> QED  BY <1>1, <1>2, <1>3, <1>4, <1>5, <1>6, <1>7, <1>8, <1>9 DEF MainStep

\* awaitTermination.
LEMMA TermKeeps ==
    ASSUME IInv, TermStep
    PROVE  IInv'
  <1> USE DEF IInv, hubVars, termVars, stopVars, procVars, ctlVars
  <1>1. ASSUME AwaitSignal PROVE IInv'
    <2>1. TypeOK'
      <3>1. sig' \in BOOLEAN /\ signaled' \in BOOLEAN /\ term' = "cancel"
        BY <1>1 DEF AwaitSignal
      <3> QED  BY <1>1, <3>1 DEF AwaitSignal, TypeOK
    <2>2. InStep' /\ Serving' /\ Returned'
      BY <1>1 DEF AwaitSignal, TypeOK, InStep, Serving, Stopping, Returned, Alive
    <2>3. Stopping' /\ StoreOutlivesUsers'
      BY <1>1 DEF AwaitSignal, TypeOK, InStep, Serving, Stopping, StoreOutlivesUsers, Alive
    <2>4. PidsPast' /\ ExitHonest'
      BY <1>1 DEF AwaitSignal, TypeOK, InStep, PidsPast, ExitHonest, Alive
    <2> QED  BY <2>1, <2>2, <2>3, <2>4
  <1>2. ASSUME CancelAndStop PROVE IInv'
    <2>1. TypeOK'
      BY <1>2, BoundsAssumption DEF CancelAndStop, TypeOK
    <2>2. InStep' /\ Serving' /\ Returned'
      BY <1>2 DEF CancelAndStop, TypeOK, InStep, Serving, Stopping, Returned, Alive
    <2>3. Stopping' /\ StoreOutlivesUsers'
      BY <1>2 DEF CancelAndStop, TypeOK, InStep, Serving, Stopping, StoreOutlivesUsers, Alive
    <2>4. PidsPast' /\ ExitHonest'
      BY <1>2 DEF CancelAndStop, TypeOK, InStep, PidsPast, ExitHonest, Alive
    <2> QED  BY <2>1, <2>2, <2>3, <2>4
  <1>3. ASSUME SecondSelect PROVE IInv'
    <2>1. TypeOK'
      <3>1. sig' \in BOOLEAN /\ term' \in {"over", "abort"}
        BY <1>3 DEF SecondSelect, TypeOK
      <3> QED  BY <1>3, <3>1 DEF SecondSelect, TypeOK
    <2>2. InStep' /\ Serving' /\ Returned'
      BY <1>3 DEF SecondSelect, TypeOK, InStep, Serving, Stopping, Returned, Alive
    <2>3. Stopping' /\ StoreOutlivesUsers'
      BY <1>3 DEF SecondSelect, TypeOK, InStep, Serving, Stopping, StoreOutlivesUsers, Alive
    <2>4. PidsPast' /\ ExitHonest'
      BY <1>3 DEF SecondSelect, TypeOK, InStep, PidsPast, ExitHonest, Alive
    <2> QED  BY <2>1, <2>2, <2>3, <2>4
  <1>4. ASSUME Abort PROVE IInv'
    <2>1. TypeOK'
      BY <1>4, BoundsAssumption DEF Abort, RemovePIDFile, TypeOK
    <2>2. InStep' /\ Serving' /\ Returned'
      BY <1>4 DEF Abort, RemovePIDFile, TypeOK, InStep, Serving, Stopping, Returned, Alive
    <2>3. Stopping' /\ StoreOutlivesUsers'
      BY <1>4 DEF Abort, RemovePIDFile, TypeOK, InStep, Serving, Stopping, StoreOutlivesUsers, Alive
    <2>4. PidsPast' /\ ExitHonest'
      BY <1>4 DEF Abort, RemovePIDFile, TypeOK, InStep, PidsPast, ExitHonest, Alive
    <2> QED  BY <2>1, <2>2, <2>3, <2>4
  <1>5. ASSUME AbortExit PROVE IInv'
    <2>1. Die("abort") /\ pidFile' = pidFile
      BY <1>5 DEF AbortExit, RemovePIDFile
    <2>2. ControlKept
      BY <1>5 DEF AbortExit, ControlKept, TypeOK, PidsPast
    <2> QED  BY <2>1, <2>2, Dying
  <1> QED  BY <1>1, <1>2, <1>3, <1>4, <1>5 DEF TermStep

\* Stop, and what follows it.
LEMMA StopKeeps ==
    ASSUME IInv, StopStep
    PROVE  IInv'
  <1> USE DEF IInv, hubVars, termVars, stopVars, procVars, ctlVars
  <1>1. ASSUME Mark PROVE IInv'
    <2>1. TypeOK'
      BY <1>1, BoundsAssumption DEF Mark, StopVarsBut, TypeOK
    <2>2. InStep' /\ Serving' /\ Returned'
      BY <1>1 DEF Mark, StopVarsBut, TypeOK, InStep, Serving, Stopping, Returned, Alive
    <2>3. Stopping' /\ StoreOutlivesUsers'
      BY <1>1 DEF Mark, StopVarsBut, TypeOK, InStep, Serving, Stopping, StoreOutlivesUsers, Alive
    <2>4. PidsPast' /\ ExitHonest'
      BY <1>1 DEF Mark, StopVarsBut, TypeOK, InStep, PidsPast, ExitHonest, Alive
    <2> QED  BY <2>1, <2>2, <2>3, <2>4
  <1>2. ASSUME Sweep PROVE IInv'
    <2>1. TypeOK'
      BY <1>2, BoundsAssumption DEF Sweep, StopVarsBut, TypeOK
    <2>2. InStep' /\ Serving' /\ Returned'
      BY <1>2 DEF Sweep, StopVarsBut, TypeOK, InStep, Serving, Stopping, Returned, Alive
    <2>3. Stopping' /\ StoreOutlivesUsers'
      BY <1>2 DEF Sweep, StopVarsBut, TypeOK, InStep, Serving, Stopping, StoreOutlivesUsers, Alive
    <2>4. PidsPast' /\ ExitHonest'
      BY <1>2 DEF Sweep, StopVarsBut, TypeOK, InStep, PidsPast, ExitHonest, Alive
    <2> QED  BY <2>1, <2>2, <2>3, <2>4
  <1>3. ASSUME Grace PROVE IInv'
    <2>1. TypeOK'
      BY <1>3, BoundsAssumption DEF Grace, Outcome, CloseStore, StopVarsBut, TypeOK
    <2>2. InStep' /\ Serving' /\ Returned'
      BY <1>3 DEF Grace, Outcome, CloseStore, StopVarsBut, TypeOK, InStep, Serving, Stopping, Returned, Alive
    <2>3. Stopping' /\ StoreOutlivesUsers'
      BY <1>3 DEF Grace, Outcome, CloseStore, StopVarsBut, TypeOK, InStep, Serving, Stopping, StoreOutlivesUsers, Alive
    <2>4. PidsPast' /\ ExitHonest'
      BY <1>3 DEF Grace, Outcome, CloseStore, StopVarsBut, TypeOK, InStep, PidsPast, ExitHonest, Alive
    <2> QED  BY <2>1, <2>2, <2>3, <2>4
  <1>4. ASSUME Forced PROVE IInv'
    <2>1. TypeOK'
      BY <1>4, BoundsAssumption DEF Forced, Outcome, CloseStore, StopVarsBut, TypeOK
    <2>2. InStep' /\ Serving' /\ Returned'
      BY <1>4 DEF Forced, Outcome, CloseStore, StopVarsBut, TypeOK, InStep, Serving, Stopping, Returned, Alive
    <2>3. Stopping' /\ StoreOutlivesUsers'
      BY <1>4 DEF Forced, Outcome, CloseStore, StopVarsBut, TypeOK, InStep, Serving, Stopping, StoreOutlivesUsers, Alive
    <2>4. PidsPast' /\ ExitHonest'
      BY <1>4 DEF Forced, Outcome, CloseStore, StopVarsBut, TypeOK, InStep, PidsPast, ExitHonest, Alive
    <2> QED  BY <2>1, <2>2, <2>3, <2>4
  <1>5. ASSUME BackgroundDone PROVE IInv'
    <2>1. TypeOK'
      BY <1>5, BoundsAssumption DEF BackgroundDone, StopVarsBut, TypeOK
    <2>2. InStep' /\ Serving' /\ Returned'
      BY <1>5 DEF BackgroundDone, StopVarsBut, TypeOK, InStep, Serving, Stopping, Returned, Alive
    <2>3. Stopping' /\ StoreOutlivesUsers'
      BY <1>5 DEF BackgroundDone, StopVarsBut, TypeOK, InStep, Serving, Stopping, StoreOutlivesUsers, Alive
    <2>4. PidsPast' /\ ExitHonest'
      BY <1>5 DEF BackgroundDone, StopVarsBut, TypeOK, InStep, PidsPast, ExitHonest, Alive
    <2> QED  BY <2>1, <2>2, <2>3, <2>4
  <1>6. ASSUME Settled PROVE IInv'
    <2>1. TypeOK'
      BY <1>6, BoundsAssumption DEF Settled, StopVarsBut, TypeOK
    <2>2. InStep' /\ Serving' /\ Returned'
      BY <1>6 DEF Settled, StopVarsBut, TypeOK, InStep, Serving, Stopping, Returned, Alive
    <2>3. Stopping' /\ StoreOutlivesUsers'
      BY <1>6 DEF Settled, StopVarsBut, TypeOK, InStep, Serving, Stopping, StoreOutlivesUsers, Alive
    <2>4. PidsPast' /\ ExitHonest'
      BY <1>6 DEF Settled, StopVarsBut, TypeOK, InStep, PidsPast, ExitHonest, Alive
    <2> QED  BY <2>1, <2>2, <2>3, <2>4
  <1>7. ASSUME CloseDone PROVE IInv'
    <2>1. TypeOK'
      BY <1>7, BoundsAssumption DEF CloseDone, TypeOK
    <2>2. InStep' /\ Serving' /\ Returned'
      BY <1>7 DEF CloseDone, TypeOK, InStep, Serving, Stopping, Returned, Alive
    <2>3. Stopping' /\ StoreOutlivesUsers'
      BY <1>7 DEF CloseDone, TypeOK, InStep, Serving, Stopping, StoreOutlivesUsers, Alive
    <2>4. PidsPast' /\ ExitHonest'
      BY <1>7 DEF CloseDone, TypeOK, InStep, PidsPast, ExitHonest, Alive
    <2> QED  BY <2>1, <2>2, <2>3, <2>4
  <1>8. ASSUME CloseShuttingDown PROVE IInv'
    <2>1. TypeOK'
      BY <1>8, BoundsAssumption DEF CloseShuttingDown, StopVarsBut, TypeOK
    <2>2. InStep' /\ Serving' /\ Returned'
      BY <1>8 DEF CloseShuttingDown, StopVarsBut, TypeOK, InStep, Serving, Stopping, Returned, Alive
    <2>3. Stopping' /\ StoreOutlivesUsers'
      BY <1>8 DEF CloseShuttingDown, StopVarsBut, TypeOK, InStep, Serving, Stopping, StoreOutlivesUsers, Alive
    <2>4. PidsPast' /\ ExitHonest'
      BY <1>8 DEF CloseShuttingDown, StopVarsBut, TypeOK, InStep, PidsPast, ExitHonest, Alive
    <2> QED  BY <2>1, <2>2, <2>3, <2>4
  <1>9. ASSUME Hung PROVE IInv'
    <2>1. Die("hung") /\ pidFile' = 0
      BY <1>9 DEF Hung, RemovePIDFile
    <2>2. ControlKept
      BY <1>9 DEF Hung, ControlKept, TypeOK, PidsPast
    <2> QED  BY <2>1, <2>2, Dying
  <1> QED  BY <1>1, <1>2, <1>3, <1>4, <1>5, <1>6, <1>7, <1>8, <1>9 DEF StopStep

\* The background goroutines, the handlers and the server.
LEMMA ServerKeeps ==
    ASSUME IInv, BackgroundExits \/ HandlerBegins \/ HandlerEnds
                 \/ \E forced \in BOOLEAN : ServerStops(forced)
    PROVE  IInv'
  <1> USE DEF IInv, hubVars, termVars, stopVars, procVars, ctlVars
  <1>1. ASSUME BackgroundExits PROVE IInv'
    <2>1. TypeOK'
      BY <1>1, BoundsAssumption DEF BackgroundExits, Returning, TypeOK
    <2>2. InStep' /\ Serving' /\ Returned'
      BY <1>1 DEF BackgroundExits, Returning, TypeOK, InStep, Serving, Stopping, Returned, Alive
    <2>3. Stopping' /\ StoreOutlivesUsers'
      BY <1>1 DEF BackgroundExits, Returning, TypeOK, InStep, Serving, Stopping, StoreOutlivesUsers, Alive
    <2>4. PidsPast' /\ ExitHonest'
      BY <1>1 DEF BackgroundExits, Returning, TypeOK, InStep, PidsPast, ExitHonest, Alive
    <2> QED  BY <2>1, <2>2, <2>3, <2>4
  <1>2. ASSUME HandlerBegins PROVE IInv'
    <2>1. TypeOK'
      BY <1>2, BoundsAssumption DEF HandlerBegins, TypeOK
    <2>2. InStep' /\ Serving' /\ Returned'
      BY <1>2 DEF HandlerBegins, TypeOK, InStep, Serving, Stopping, Returned, Alive
    <2>3. Stopping' /\ StoreOutlivesUsers'
      BY <1>2 DEF HandlerBegins, TypeOK, InStep, Serving, Stopping, StoreOutlivesUsers, Alive
    <2>4. PidsPast' /\ ExitHonest'
      BY <1>2 DEF HandlerBegins, TypeOK, InStep, PidsPast, ExitHonest, Alive
    <2> QED  BY <2>1, <2>2, <2>3, <2>4
  <1>3. ASSUME HandlerEnds PROVE IInv'
    <2>1. TypeOK'
      BY <1>3, BoundsAssumption DEF HandlerEnds, TypeOK
    <2>2. InStep' /\ Serving' /\ Returned'
      BY <1>3 DEF HandlerEnds, TypeOK, InStep, Serving, Stopping, Returned, Alive
    <2>3. Stopping' /\ StoreOutlivesUsers'
      BY <1>3 DEF HandlerEnds, TypeOK, InStep, Serving, Stopping, StoreOutlivesUsers, Alive
    <2>4. PidsPast' /\ ExitHonest'
      BY <1>3 DEF HandlerEnds, TypeOK, InStep, PidsPast, ExitHonest, Alive
    <2> QED  BY <2>1, <2>2, <2>3, <2>4
  <1>4. ASSUME NEW forced \in BOOLEAN, ServerStops(forced) PROVE IInv'
    <2>1. TypeOK'
      BY <1>4, BoundsAssumption DEF ServerStops, TypeOK
    <2>2. InStep' /\ Serving' /\ Returned'
      BY <1>4 DEF ServerStops, TypeOK, InStep, Serving, Stopping, Returned, Alive
    <2>3. Stopping' /\ StoreOutlivesUsers'
      BY <1>4 DEF ServerStops, TypeOK, InStep, Serving, Stopping, StoreOutlivesUsers, Alive
    <2>4. PidsPast' /\ ExitHonest'
      BY <1>4 DEF ServerStops, TypeOK, InStep, PidsPast, ExitHonest, Alive
    <2> QED  BY <2>1, <2>2, <2>3, <2>4
  <1> QED  BY <1>1, <1>2, <1>3, <1>4

\* Delivering a signal to a process that runs.
LEMMA DeliverKeeps ==
    ASSUME IInv, Alive, Deliver, ControlKept,
           parent'.pc = "failed" => parent' = parent, cli'.pc = "gone" => cli' = cli
    PROVE  IInv'
  <1>1. CASE main = "boot"
    <2>1. Die("killed") /\ pidFile' = pidFile
      BY <1>1 DEF Deliver
    <2> QED  BY <2>1, Dying
  <1>2. CASE main # "boot"
    <2> USE DEF IInv, hubVars, stopVars, procVars
    <2>1. /\ sig' = TRUE
          /\ UNCHANGED <<main, startErr, handlers, hubVars, term, signaled, stopVars, procVars>>
      BY <1>2 DEF Deliver
    <2>2. TypeOK'
      BY <2>1 DEF TypeOK, ControlKept
    <2>3. InStep' /\ Serving' /\ Stopping' /\ Returned' /\ StoreOutlivesUsers'
      BY <2>1 DEF InStep, Serving, Stopping, Returned, StoreOutlivesUsers, Alive
    <2>4. PidsPast' /\ ExitHonest'
      BY <2>1 DEF PidsPast, ExitHonest, Alive, ControlKept
    <2> QED  BY <2>2, <2>3, <2>4
  <1> QED  BY <1>1, <1>2

\* Process control.
LEMMA ControlKeeps ==
    ASSUME IInv, Control \/ BootFails
    PROVE  IInv'
  <1> USE DEF IInv, hubVars, termVars, stopVars, procVars, ctlVars
  <1>1. ASSUME SpawnPoll PROVE IInv'
    <2>1. ControlKept
      <3>1. faults' \in 0..MaxFaults
        BY <1>1, FaultType DEF SpawnPoll, TypeOK
      <3> QED  BY <1>1, <3>1 DEF SpawnPoll, ControlKept, TypeOK, PidsPast
    <2>2. TypeOK' /\ PidsPast'
      <3>1. pidFile' \in 0..MaxRuns /\ pidFile' \in {pidFile, 0}
        BY <1>1, BoundsAssumption DEF SpawnPoll, TypeOK
      <3> QED  BY <1>1, <2>1, <3>1 DEF SpawnPoll, TypeOK, PidsPast, ControlKept
    <2>3. InStep' /\ Serving' /\ Stopping' /\ Returned' /\ StoreOutlivesUsers'
      BY <1>1 DEF SpawnPoll, InStep, Serving, Stopping, Returned, StoreOutlivesUsers, Alive
    <2>4. ExitHonest'
      BY <1>1 DEF SpawnPoll, TypeOK, ExitHonest, Alive
    <2> QED  BY <2>2, <2>3, <2>4
  <1>2. ASSUME StopSees PROVE IInv'
    <2>1. ControlKept
      BY <1>2 DEF StopSees, ControlKept, TypeOK, PidsPast
    <2>2. TypeOK' /\ PidsPast'
      BY <1>2, <2>1 DEF StopSees, TypeOK, PidsPast, ControlKept
    <2>3. InStep' /\ Serving' /\ Stopping' /\ Returned' /\ StoreOutlivesUsers'
      BY <1>2 DEF StopSees, InStep, Serving, Stopping, Returned, StoreOutlivesUsers, Alive
    <2>4. ExitHonest'
      BY <1>2 DEF StopSees, TypeOK, ExitHonest, Alive
    <2> QED  BY <2>2, <2>3, <2>4
  <1>3. ASSUME SpawnTimeout PROVE IInv'
    <2>1. Die("killed") /\ pidFile' = pidFile
      BY <1>3 DEF SpawnTimeout, Kill
    <2>2. ControlKept
      BY <1>3 DEF SpawnTimeout, Kill, ControlKept, TypeOK, PidsPast
    <2> QED  BY <2>1, <2>2, Dying
  <1>4. ASSUME StopKills PROVE IInv'
    <2>1. Die("killed") /\ pidFile' = pidFile
      BY <1>4 DEF StopKills, Kill
    <2>2. ControlKept
      BY <1>4 DEF StopKills, Kill, ControlKept, TypeOK, PidsPast
    <2> QED  BY <2>1, <2>2, Dying
  <1>5. ASSUME BootFails PROVE IInv'
    <2>1. Die("fault") /\ pidFile' = pidFile /\ pidFile = 0
      BY <1>5 DEF BootFails, PidsPast
    <2>2. ControlKept
      BY <1>5, FaultType DEF BootFails, ControlKept, TypeOK, PidsPast
    <2> QED  BY <2>1, <2>2, Dying
  <1>6. ASSUME Signal PROVE IInv'
    <2>1. signals' \in 0..MaxSignals
      BY <1>6, BoundsAssumption DEF Signal, TypeOK
    <2>2. ControlKept
      BY <1>6, <2>1 DEF Signal, ControlKept, TypeOK, PidsPast
    <2> QED  BY <1>6, <2>2, DeliverKeeps DEF Signal
  <1>7. ASSUME StopCmd PROVE IInv'
    <2>1. ControlKept /\ cli'.pc = "waiting"
      BY <1>7 DEF StopCmd, ControlKept, TypeOK, PidsPast
    <2> QED  BY <1>7, <2>1, DeliverKeeps DEF StopCmd
  <1>8. ASSUME NEW daemon \in BOOLEAN, StartCmd(daemon) PROVE IInv'
    <2>1. run' = run + 1 /\ run' \in 0..MaxRuns /\ pidFile' = 0
      BY <1>8, BoundsAssumption DEF StartCmd, RemovePIDFile, TypeOK
    <2>2. /\ parent' \in [pc : {"none", "waiting", "started", "failed", "unread"}, child : 0..MaxRuns]
          /\ parent'.child <= run' /\ parent'.pc = "failed" => parent'.child < run'
      BY <1>8, <2>1 DEF StartCmd, TypeOK, PidsPast
    <2>3. handlers = 0
      BY <1>8 DEF StartCmd, Alive, Serving, TypeOK
    <2>4. TypeOK'
      <3>1. /\ ctxDone' \in BOOLEAN /\ srv' \in BOOLEAN /\ sig' \in BOOLEAN
            /\ signaled' \in BOOLEAN /\ succeeded' \in BOOLEAN /\ done' \in BOOLEAN
        BY <1>8 DEF StartCmd
      <3>2. /\ main' = "boot" /\ startErr' = "none" /\ end' = "none"
            /\ life' = "notStarted" /\ grpc' = "none" /\ bg' = 0 /\ store' = "closed"
            /\ term' = "none" /\ stop' = "none"
            /\ UNCHANGED <<handlers, cli, signals, faults>>
        BY <1>8 DEF StartCmd
      <3>3. run' \in 0..MaxRuns /\ pidFile' \in 0..MaxRuns
        BY <2>1, BoundsAssumption
      <3> QED  BY <2>2, <3>1, <3>2, <3>3 DEF TypeOK
    <2>5. InStep' /\ Serving' /\ Stopping' /\ Returned' /\ StoreOutlivesUsers'
      BY <1>8, <2>3 DEF StartCmd, InStep, Serving, Stopping, Returned, StoreOutlivesUsers, Alive
    <2>6. PidsPast' /\ ExitHonest'
      BY <1>8, <2>1, <2>2 DEF StartCmd, TypeOK, PidsPast, ExitHonest, Alive
    <2> QED  BY <2>4, <2>5, <2>6
  <1> QED  BY <1>1, <1>2, <1>3, <1>4, <1>5, <1>6, <1>7, <1>8 DEF Control

-----------------------------------------------------------------------------
(* The theorems.                                                           *)

\* The invariant holds before the first start.
LEMMA InitIInv == Init => IInv
  <1> SUFFICES ASSUME Init PROVE IInv
    OBVIOUS
  <1> USE DEF Init
  <1>1. /\ ctxDone \in BOOLEAN /\ srv \in BOOLEAN /\ sig \in BOOLEAN
        /\ signaled \in BOOLEAN /\ succeeded \in BOOLEAN /\ done \in BOOLEAN
    OBVIOUS
  <1>2. TypeOK
    BY <1>1, BoundsAssumption DEF TypeOK
  <1>3. InStep /\ Serving /\ Stopping /\ Returned /\ StoreOutlivesUsers
    BY DEF InStep, Serving, Stopping, Returned, StoreOutlivesUsers, Alive
  <1>4. PidsPast /\ ExitHonest
    BY DEF PidsPast, ExitHonest, Alive
  <1> QED  BY <1>2, <1>3, <1>4 DEF IInv

\* Every step, and stuttering, keeps it.
LEMMA NextIInv == IInv /\ [Next]_vars => IInv'
  <1> SUFFICES ASSUME IInv, [Next]_vars PROVE IInv'
    OBVIOUS
  <1>1. CASE Next
    BY <1>1, MainKeeps, TermKeeps, StopKeeps, ServerKeeps, ControlKeeps DEF Next
  <1>2. CASE UNCHANGED vars
    BY <1>2 DEF vars, hubVars, termVars, stopVars, procVars, ctlVars, IInv, TypeOK,
       InStep, Serving, Stopping, Returned, PidsPast, StoreOutlivesUsers, ExitHonest, Alive
  <1> QED  BY <1>1, <1>2

\* The strengthening is an invariant of the process.
THEOREM Inductive == Spec => []IInv
  BY InitIInv, NextIInv, PTL DEF Spec

\* Every variable of the process and of the commands around it has its type.
THEOREM HubTyped == Spec => []TypeOK
  <1>1. IInv => TypeOK
    BY DEF IInv
  <1> QED  BY <1>1, Inductive, PTL

\* Stop closes the store under no handler and no background goroutine, and none
\* appears afterwards, however Start, Stop and the forced stop interleave.
THEOREM StoreIsClosedLast == Spec => []StoreOutlivesUsers
  <1>1. IInv => StoreOutlivesUsers
    BY DEF IInv
  <1> QED  BY <1>1, Inductive, PTL

\* Exit status 0 means that Stop ran to its end, a run that ends by itself leaves
\* no PID file, and the commands report truly that the process is gone.
THEOREM ReportsAreHonest == Spec => []ExitHonest
  <1>1. IInv => ExitHonest
    BY DEF IInv
  <1> QED  BY <1>1, Inductive, PTL

=============================================================================
