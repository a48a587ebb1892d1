------------------------------ MODULE Lifecycle ------------------------------
(***************************************************************************)
(* The plugin's process from main to its exit (src/cmd/do-csi-plugin,      *)
(* src/driver/driver.go), with the two servers it runs and the handlers    *)
(* that depend on its state: Probe (src/driver/identity.go) and the HTTP   *)
(* health check (src/driver/health.go).                                    *)
(*                                                                         *)
(* Run starts up to four goroutines in an errgroup without a context, and  *)
(* a fifth one outside of the group that stops the gRPC server.  They      *)
(* meet in readyMu, in GracefulStop and in the context of the signal.      *)
(***************************************************************************)
EXTENDS Integers, FiniteSets

CONSTANTS
    Rpcs,        \* slots for RPCs in flight
    Healths,     \* slots for HTTP health requests in flight
    Checks,      \* the HealthChecker's checks; NewDriver configures one
    None         \* nobody holds the mutex

ASSUME LifecycleAssumption ==
    /\ Rpcs \intersect {None, "Run", "stopper"} = {}
    /\ None \notin {"Run", "stopper"}

VARIABLES
    flags,       \* version, token, region and debug-addr: whether they are given
    droplet,     \* whether the process runs on a droplet
    pc,          \* where main and Run are
    exit,        \* how the process ended
    ctxDone,     \* whether a signal has cancelled the context
    ready, readyMu,
    stopper,     \* the goroutine that calls GracefulStop
    serve,       \* the goroutine in grpc.Server.Serve
    httpDown,    \* the goroutine in http.Server.Shutdown
    httpServe,   \* the goroutine in http.Server.ListenAndServe
    rpc,         \* what each RPC is doing
    pending,     \* checks a health request waits for
    health       \* state of a health request

mainVars == <<flags, droplet, pc, exit>>
readyVars == <<ready, readyMu>>
httpVars == <<httpDown, httpServe>>
healthVars == <<pending, health>>
vars == <<mainVars, ctxDone, readyVars, stopper, serve, httpVars, rpc, healthVars>>

-----------------------------------------------------------------------------
Running == exit = "none"
Main == {"flags", "newDriver"}
Startup == {"listen", "accountGet", "listVolumes", "start"}

TypeOK ==
    /\ flags \in [version : BOOLEAN, token : BOOLEAN, region : BOOLEAN, debug : BOOLEAN]
    /\ droplet \in BOOLEAN
    /\ pc \in Main \union Startup \union {"wait", "exited"}
    /\ exit \in {"none", "ok", "error", "killed"}
    /\ ctxDone \in BOOLEAN
    /\ ready \in BOOLEAN
    /\ readyMu \in Rpcs \union {None, "Run", "stopper"}
    /\ stopper \in {"none", "waiting", "locked", "released", "stopping", "done"}
    /\ serve \in {"none", "starting", "serving", "ok", "error"}
    /\ httpDown \in {"none", "waiting", "shutting", "ok", "error"}
    /\ httpServe \in {"none", "starting", "serving", "ok", "error"}
    /\ rpc \in [Rpcs -> {"idle", "probe", "probeReady", "probeNotReady", "other"}]
    /\ pending \in [Healths -> SUBSET Checks]
    /\ health \in [Healths -> {"idle", "checking"}]

Init ==
    /\ flags \in [version : BOOLEAN, token : BOOLEAN, region : BOOLEAN, debug : BOOLEAN]
    /\ droplet \in BOOLEAN
    /\ pc = "flags" /\ exit = "none" /\ ctxDone = FALSE
    /\ ready = FALSE /\ readyMu = None
    /\ stopper = "none" /\ serve = "none" /\ httpDown = "none" /\ httpServe = "none"
    /\ rpc = [r \in Rpcs |-> "idle"]
    /\ pending = [h \in Healths |-> {}] /\ health = [h \in Healths |-> "idle"]

-----------------------------------------------------------------------------
(* main, NewDriver and Run *)

Exit(how) ==
    /\ pc' = "exited" /\ exit' = how
    /\ UNCHANGED <<flags, droplet>>

Goto(label) ==
    /\ pc' = label
    /\ UNCHANGED <<flags, droplet, exit>>

LeavesServers == UNCHANGED <<ctxDone, stopper, serve, httpVars, rpc, healthVars>>

\* --version, and --region without --token.
ParseFlags ==
    /\ pc = "flags"
    /\ \/ flags.version /\ Exit("ok")
       \/ ~flags.version /\ ~flags.token /\ flags.region /\ Exit("error")
       \/ ~flags.version /\ (flags.token \/ ~flags.region) /\ Goto("newDriver")
    /\ UNCHANGED readyVars /\ LeavesServers

\* The metadata service answers on a droplet only; it is asked for the region
\* unless there is a flag, and for the droplet's ID always.
NewDriver ==
    /\ pc = "newDriver"
    /\ Exit("error") \/ (droplet /\ Goto("listen"))
    /\ UNCHANGED readyVars /\ LeavesServers

\* The endpoint is parsed, a socket left behind is removed, and the new one
\* is bound; each may fail.
Listen ==
    /\ pc = "listen"
    /\ \/ Exit("error") /\ UNCHANGED readyVars
       \/ flags.token /\ Goto("accountGet") /\ readyMu' = "Run" /\ UNCHANGED ready
       \/ ~flags.token /\ Goto("start") /\ UNCHANGED readyVars
    /\ LeavesServers

\* checkLimit, under readyMu and without a deadline; an account that is at its
\* limit is logged.  An administrative account has no limit.
CheckLimit ==
    /\ \/ pc = "accountGet" /\ (Goto("listVolumes") \/ Goto("start") \/ Exit("error"))
       \/ pc = "listVolumes" /\ (Goto("start") \/ Exit("error"))
    /\ readyMu' = IF pc' = "listVolumes" THEN "Run" ELSE None
    /\ UNCHANGED ready /\ LeavesServers

\* Mutant: a failed gRPC server is waited for together with its stopper.
MembersStopper == {httpDown, httpServe, serve} \union (IF stopper = "done" THEN {} ELSE {"waiting"})

\* What the goroutines of the errgroup are doing; the stopper is not one.
Members == {httpDown, httpServe, serve}

Start ==
    /\ pc = "start"
    /\ ready' = TRUE
    /\ LET http == flags.token /\ flags.debug IN
        /\ httpDown' = IF http THEN "waiting" ELSE "none"
        /\ httpServe' = IF http THEN "starting" ELSE "none"
    /\ stopper' = "waiting"
    /\ serve' = "starting"
    /\ Goto("wait")
    /\ UNCHANGED <<readyMu, ctxDone, rpc, healthVars>>

\* eg.Wait returns when every member has; the process ends with Run.
Wait ==
    /\ pc = "wait"
    /\ Members \subseteq {"none", "ok", "error"}
    /\ Exit(IF "error" \in Members THEN "error" ELSE "ok")
    /\ UNCHANGED readyVars /\ LeavesServers

\* A signal ends the process at once before main asks to be notified.
Signal ==
    /\ Running
    /\ \/ pc \in Main /\ Exit("killed") /\ UNCHANGED ctxDone
       \/ pc \notin Main /\ ~ctxDone /\ ctxDone' = TRUE /\ UNCHANGED mainVars
    /\ UNCHANGED <<readyVars, stopper, serve, httpVars, rpc, healthVars>>

-----------------------------------------------------------------------------
(* The gRPC server and the goroutine that stops it *)

LeavesMain == UNCHANGED <<mainVars, ctxDone, httpVars, healthVars>>
InFlight == {r \in Rpcs : rpc[r] # "idle"}
Quitting == stopper \in {"stopping", "done"}

\* Mutant: the mutex is not taken.
StopperLockNone ==
    /\ Running /\ stopper = "waiting" /\ ctxDone
    /\ stopper' = "locked"
    /\ UNCHANGED <<readyVars, serve, rpc>> /\ LeavesMain

StopperLock ==
    /\ Running /\ stopper = "waiting" /\ ctxDone /\ readyMu = None
    /\ stopper' = "locked" /\ readyMu' = "stopper"
    /\ UNCHANGED <<ready, serve, rpc>> /\ LeavesMain

\* Mutant: the mutex is released when the goroutine ends.
StopperReleasesDeferred ==
    /\ Running /\ stopper = "locked"
    /\ ready' = FALSE /\ UNCHANGED readyMu
    /\ stopper' = "released"
    /\ UNCHANGED <<serve, rpc>> /\ LeavesMain

\* d.ready = false; d.readyMu.Unlock()
StopperReleases ==
    /\ Running /\ stopper = "locked"
    /\ ready' = FALSE /\ readyMu' = None
    /\ stopper' = "released"
    /\ UNCHANGED <<serve, rpc>> /\ LeavesMain

\* GracefulStop begins: no new connection and no new RPC.
StopperStops ==
    /\ Running /\ stopper = "released"
    /\ stopper' = "stopping"
    /\ UNCHANGED <<readyVars, serve, rpc>> /\ LeavesMain

\* Mutant: Stop instead of GracefulStop.
DrainedAtOnce == TRUE

\* GracefulStop waits for every handler, without a limit.
Drained == InFlight = {}

StopperDone ==
    /\ Running /\ stopper = "stopping" /\ Drained
    /\ stopper' = "done"
    /\ UNCHANGED <<readyVars, serve, rpc>> /\ LeavesMain

\* Serve begins, unless GracefulStop has taken the server's listeners away (an
\* error), which it does early on; it returns once GracefulStop is through.
Serve ==
    /\ Running
    /\ \/ serve = "starting" /\ stopper # "done" /\ serve' = "serving"
       \/ serve = "starting" /\ Quitting /\ serve' = "error"
       \/ serve = "serving" /\ stopper = "done" /\ serve' = "ok"
    /\ UNCHANGED <<readyVars, stopper, rpc>> /\ LeavesMain

ServeFails ==
    /\ Running /\ serve = "serving" /\ ~Quitting
    /\ serve' = "error"
    /\ UNCHANGED <<readyVars, stopper, rpc>> /\ LeavesMain

\* An RPC arrives; a failed Serve leaves the connections it has accepted alone.
Arrive(r) ==
    /\ Running /\ serve \in {"serving", "error"} /\ ~Quitting /\ rpc[r] = "idle"
    /\ \E kind \in {"probe", "other"} : rpc' = [rpc EXCEPT ![r] = kind]
    /\ UNCHANGED <<readyVars, stopper, serve>> /\ LeavesMain

\* Probe locks readyMu, reads ready into its answer and unlocks; the server
\* sends it.  Other handlers end without the mutex.
RpcStep(r) ==
    /\ Running
    /\ \/ /\ rpc[r] = "probe" /\ readyMu = None
          /\ readyMu' = r
          /\ rpc' = [rpc EXCEPT ![r] = IF ready THEN "probeReady" ELSE "probeNotReady"]
       \/ /\ rpc[r] \in {"probeReady", "probeNotReady"}
          /\ readyMu' = None
          /\ rpc' = [rpc EXCEPT ![r] = "other"]
       \/ /\ rpc[r] = "other"
          /\ rpc' = [rpc EXCEPT ![r] = "idle"]
          /\ UNCHANGED readyMu
    /\ UNCHANGED <<ready, stopper, serve>> /\ LeavesMain

-----------------------------------------------------------------------------
(* The HTTP server and its health check *)

LeavesGrpc == UNCHANGED <<mainVars, ctxDone, readyVars, stopper, serve, rpc>>
Checking == {h \in Healths : health[h] = "checking"}

\* Mutant: the error of Shutdown is dropped.
ShutdownResultIgnored(left) == "ok"

\* Shutdown reports that it could not wait for the requests that are left.
ShutdownResult(left) == IF left = {} THEN "ok" ELSE "error"

\* Shutdown closes the listener and waits for the requests under way, for ten
\* seconds at most; a check has fifteen.
HttpShutdown ==
    /\ Running
    /\ \/ httpDown = "waiting" /\ ctxDone /\ httpDown' = "shutting"
       \/ httpDown = "shutting" /\ httpDown' = ShutdownResult(Checking)
    /\ UNCHANGED <<httpServe, healthVars>> /\ LeavesGrpc

\* http.ErrServerClosed is no error.
HttpResult(err) == IF err = "ErrServerClosed" THEN "ok" ELSE "error"

\* ListenAndServe: the address may be in use.
HttpServe ==
    /\ Running
    /\ \/ httpServe = "starting" /\ httpServe' \in {"serving", HttpResult("in use")}
       \/ /\ httpServe \in {"starting", "serving"} /\ httpDown # "waiting"
          /\ httpServe' = HttpResult("ErrServerClosed")
    /\ UNCHANGED <<httpDown, healthVars>> /\ LeavesGrpc

HttpServeFails ==
    /\ Running /\ httpServe = "serving" /\ httpDown = "waiting"
    /\ httpServe' = HttpResult("accept")
    /\ UNCHANGED <<httpDown, healthVars>> /\ LeavesGrpc

HealthBegin(h) ==
    /\ Running /\ httpServe = "serving" /\ httpDown = "waiting"
    /\ health[h] = "idle"
    /\ health' = [health EXCEPT ![h] = "checking"]
    /\ pending' = [pending EXCEPT ![h] = Checks]
    /\ UNCHANGED httpVars /\ LeavesGrpc

\* The goroutine of check k ends, with account.Get's answer or with an error.
HealthCheckEnds(h, k) ==
    /\ Running /\ health[h] = "checking" /\ k \in pending[h]
    /\ pending' = [pending EXCEPT ![h] = @ \ {k}]
    /\ UNCHANGED <<health, httpVars>> /\ LeavesGrpc

\* eg.Wait returned, and the request is answered with 200 or 500.
HealthAnswer(h) ==
    /\ Running /\ health[h] = "checking" /\ pending[h] = {}
    /\ health' = [health EXCEPT ![h] = "idle"]
    /\ UNCHANGED <<pending, httpVars>> /\ LeavesGrpc

-----------------------------------------------------------------------------
Exited == ~Running /\ UNCHANGED vars

Next ==
    \/ ParseFlags \/ NewDriver \/ Listen \/ CheckLimit \/ Start \/ Wait \/ Signal
    \/ StopperLock \/ StopperReleases \/ StopperStops \/ StopperDone \/ Serve \/ ServeFails
    \/ \E r \in Rpcs : Arrive(r) \/ RpcStep(r)
    \/ HttpShutdown \/ HttpServe \/ HttpServeFails
    \/ \E h \in Healths :
        HealthBegin(h) \/ HealthAnswer(h) \/ \E k \in Checks : HealthCheckEnds(h, k)
    \/ Exited

\* Goroutines run, Go's mutex does not starve a waiter, and handlers end: a
\* controller's at its deadline, a health check after fifteen seconds, a node's
\* with its command.  Nothing makes the API answer checkLimit.
Fairness ==
    /\ WF_vars(ParseFlags) /\ WF_vars(NewDriver) /\ WF_vars(Listen)
    /\ WF_vars(Start) /\ WF_vars(Wait)
    /\ SF_vars(StopperLock) /\ WF_vars(StopperReleases)
    /\ WF_vars(StopperStops) /\ WF_vars(StopperDone)
    /\ WF_vars(Serve) /\ WF_vars(HttpShutdown) /\ WF_vars(HttpServe)
    /\ \A r \in Rpcs : SF_vars(RpcStep(r))
    /\ \A h \in Healths :
        WF_vars(HealthAnswer(h)) /\ \A k \in Checks : WF_vars(HealthCheckEnds(h, k))

Spec == Init /\ [][Next]_vars /\ Fairness

-----------------------------------------------------------------------------
(* Properties *)

\* After a signal the process ends, whatever RPCs, probes and health checks are
\* under way and wherever Run is, unless the startup check of the account's
\* limit hangs in the API: that one has no deadline and is not told.
ShutdownCompletes ==
    ctxDone ~> (exit # "none" \/ pc \in {"accountGet", "listVolumes"})

\* A process that exits with success has cut off no RPC and no health check.
CleanExitCutsNothing ==
    exit = "ok" => InFlight = {} /\ Checking = {}

\* The mutex puts Probe's answer and the shutdown in order: once the stopper has
\* let go of it, and from then on through the drain, no Probe is about to
\* answer that the plugin is ready, although Probes go on arriving until
\* GracefulStop begins and are served while it waits.
NoReadyProbeInDrain ==
    stopper \in {"released", "stopping", "done"} => \A r \in Rpcs : rpc[r] # "probeReady"

\* When the gRPC server fails and there is no HTTP server, the process ends and
\* can be restarted.  With an HTTP server only a signal ends it.
ServeErrorEndsRun ==
    serve = "error" /\ httpDown = "none" ~> exit # "none"

-----------------------------------------------------------------------------
(* The inductive invariant of module LifecycleProofs *)

\* Run has started nothing before it waits, and waits for a server it started.
StartInv ==
    /\ exit = "none" <=> pc # "exited"
    /\ pc \in Main \union Startup =>
        stopper = "none" /\ serve = "none" /\ httpDown = "none" /\ httpServe = "none"
    /\ pc = "wait" => serve # "none"
    /\ exit = "ok" => Members \subseteq {"none", "ok"}

\* Who may still have requests under way: Serve returns without an error only
\* after the stopper, which waits for the RPCs, and Shutdown returns without an
\* error only when no health request is left.
DrainInv ==
    /\ serve = "ok" => stopper = "done"
    /\ serve = "none" \/ stopper = "done" => InFlight = {}
    /\ httpDown \in {"none", "ok"} => Checking = {}

\* Who holds the mutex, and what has been written under it.
MutexInv ==
    /\ stopper = "locked" => readyMu = "stopper"
    /\ \A r \in Rpcs :
        /\ rpc[r] \in {"probeReady", "probeNotReady"} => readyMu = r
        /\ rpc[r] = "probeReady" => ready
    /\ stopper \in {"released", "stopping", "done"} => ~ready

Inv == TypeOK /\ StartInv /\ DrainInv /\ MutexInv

=============================================================================
