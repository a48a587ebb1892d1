-------------------------- MODULE LifecycleProofs --------------------------
(***************************************************************************)
(* Proofs about Lifecycle for any number of RPCs, health requests and      *)
(* checks.  Inv is inductive; actions are grouped by the goroutine that    *)
(* takes them, and each group leaves the other groups' variables alone.    *)
(***************************************************************************)
EXTENDS Lifecycle, TLAPS

USE DEF Running, Main, Startup, Quitting, InFlight, Checking

\* Inv, apart from types.
ServerInv == StartInv /\ DrainInv /\ MutexInv

-----------------------------------------------------------------------------
(* main, NewDriver and Run *)

LEMMA MainType ==
    ASSUME TypeOK, ParseFlags \/ NewDriver \/ Listen \/ CheckLimit \/ Start \/ Wait \/ Signal
    PROVE  TypeOK'
<1> USE DEF TypeOK, Exit, Goto, LeavesServers, mainVars, readyVars, httpVars, healthVars
<1>1. CASE ParseFlags \/ NewDriver \/ Wait
    BY <1>1 DEF ParseFlags, NewDriver, Wait
<1>2. CASE Listen \/ CheckLimit
    BY <1>2 DEF Listen, CheckLimit
<1>3. CASE Start
    BY <1>3 DEF Start
<1>4. CASE Signal
  <2>1. ctxDone' \in BOOLEAN
    BY <1>4, Zenon DEF Signal
  <2>2. QED
    BY <1>4, <2>1 DEF Signal
<1>5. QED
    BY <1>1, <1>2, <1>3, <1>4

LEMMA MainServer ==
    ASSUME TypeOK, ServerInv,
           ParseFlags \/ NewDriver \/ Listen \/ CheckLimit \/ Start \/ Wait \/ Signal
    PROVE  ServerInv'
<1> USE DEF ServerInv, StartInv, DrainInv, MutexInv, Members,
            Exit, Goto, LeavesServers, mainVars, readyVars, httpVars, healthVars
<1>1. CASE ParseFlags \/ NewDriver
    BY <1>1 DEF ParseFlags, NewDriver
<1>2. CASE Listen \/ CheckLimit
    BY <1>2 DEF Listen, CheckLimit
<1>3. CASE Start
    BY <1>3 DEF Start
<1>4. CASE Wait
    BY <1>4 DEF Wait
<1>5. CASE Signal
    BY <1>5 DEF Signal
<1>6. QED
    BY <1>1, <1>2, <1>3, <1>4, <1>5

-----------------------------------------------------------------------------
(* The gRPC server, the goroutine that stops it, and RPCs *)

GrpcStep ==
    \/ StopperLock \/ StopperReleases \/ StopperStops \/ StopperDone \/ Serve \/ ServeFails
    \/ \E r \in Rpcs : Arrive(r) \/ RpcStep(r)

LEMMA GrpcType ==
    ASSUME TypeOK, GrpcStep
    PROVE  TypeOK'
<1> USE DEF TypeOK, LeavesMain, mainVars, readyVars, httpVars, healthVars
<1>1. CASE StopperLock \/ StopperReleases \/ StopperStops \/ StopperDone
  <2>1. ready' \in BOOLEAN
    BY <1>1, Zenon DEF StopperLock, StopperStops, StopperReleases, StopperDone
  <2>2. QED
    BY <1>1, <2>1 DEF StopperLock, StopperStops, StopperReleases, StopperDone
<1>2. CASE Serve \/ ServeFails
    BY <1>2 DEF Serve, ServeFails
<1>3. ASSUME NEW r \in Rpcs, Arrive(r)
      PROVE  TypeOK'
    BY <1>3 DEF Arrive
<1>4. ASSUME NEW r \in Rpcs, RpcStep(r)
      PROVE  TypeOK'
    BY <1>4 DEF RpcStep
<1>5. QED
    BY <1>1, <1>2, <1>3, <1>4 DEF GrpcStep

LEMMA GrpcServer ==
    ASSUME TypeOK, ServerInv, GrpcStep
    PROVE  ServerInv'
<1> USE DEF ServerInv, StartInv, DrainInv, MutexInv, Members,
            LeavesMain, mainVars, readyVars, httpVars, healthVars
<1>1. CASE StopperLock \/ StopperReleases \/ StopperStops
    BY <1>1, LifecycleAssumption DEF StopperLock, StopperStops, StopperReleases
<1>2. CASE StopperDone
    BY <1>2 DEF StopperDone, Drained
<1>3. CASE Serve \/ ServeFails
    BY <1>3 DEF Serve, ServeFails
<1>4. ASSUME NEW r \in Rpcs, Arrive(r)
      PROVE  ServerInv'
    BY <1>4 DEF Arrive, TypeOK
<1>5. ASSUME NEW r \in Rpcs, RpcStep(r)
      PROVE  ServerInv'
  <2>1. /\ rpc[r] # "idle" /\ UNCHANGED <<mainVars, ctxDone, ready, stopper, serve, httpVars, healthVars>>
        /\ rpc' \in [Rpcs -> {"idle", "probe", "probeReady", "probeNotReady", "other"}]
        /\ \A q \in Rpcs \ {r} : rpc'[q] = rpc[q]
    BY <1>5 DEF RpcStep, TypeOK
  <2>2. StartInv' /\ DrainInv'
    BY <2>1
  <2>3. MutexInv'
    BY <1>5, <2>1, LifecycleAssumption DEF RpcStep, TypeOK
  <2>4. QED
    BY <2>2, <2>3
<1>6. QED
    BY <1>1, <1>2, <1>3, <1>4, <1>5 DEF GrpcStep

-----------------------------------------------------------------------------
(* The HTTP server and its health check *)

HttpStep == HttpShutdown \/ HttpServe \/ HttpServeFails
HealthStep(h) ==
    HealthBegin(h) \/ HealthAnswer(h) \/ \E k \in Checks : HealthCheckEnds(h, k)

LEMMA HttpType ==
    ASSUME TypeOK, HttpStep \/ \E h \in Healths : HealthStep(h)
    PROVE  TypeOK'
<1> USE DEF TypeOK, LeavesGrpc, mainVars, readyVars, httpVars, healthVars
<1>1. CASE HttpStep
    BY <1>1 DEF HttpStep, HttpShutdown, HttpServe, HttpServeFails, HttpResult, ShutdownResult
<1>2. ASSUME NEW h \in Healths, HealthBegin(h) \/ HealthAnswer(h)
      PROVE  TypeOK'
    BY <1>2 DEF HealthBegin, HealthAnswer
<1>3. ASSUME NEW h \in Healths, NEW k \in Checks, HealthCheckEnds(h, k)
      PROVE  TypeOK'
    BY <1>3 DEF HealthCheckEnds
<1>4. QED
    BY <1>1, <1>2, <1>3 DEF HealthStep

LEMMA HttpServer ==
    ASSUME TypeOK, ServerInv, HttpStep \/ \E h \in Healths : HealthStep(h)
    PROVE  ServerInv'
<1> USE DEF ServerInv, StartInv, DrainInv, MutexInv, Members,
            LeavesGrpc, mainVars, readyVars, httpVars, healthVars
<1>1. CASE HttpStep
    BY <1>1 DEF HttpStep, HttpShutdown, HttpServe, HttpServeFails, HttpResult, ShutdownResult
<1>2. ASSUME NEW h \in Healths, HealthBegin(h) \/ HealthAnswer(h)
      PROVE  ServerInv'
    BY <1>2 DEF HealthBegin, HealthAnswer, TypeOK
<1>3. ASSUME NEW h \in Healths, NEW k \in Checks, HealthCheckEnds(h, k)
      PROVE  ServerInv'
    BY <1>3 DEF HealthCheckEnds
<1>4. QED
    BY <1>1, <1>2, <1>3 DEF HealthStep

-----------------------------------------------------------------------------
(* Inv is inductive *)

LEMMA InitInv == Init => Inv
BY LifecycleAssumption DEF Init, Inv, TypeOK, StartInv, DrainInv, MutexInv, Members

LEMMA NextInv == Inv /\ [Next]_vars => Inv'
<1> SUFFICES ASSUME Inv, [Next]_vars
             PROVE  Inv'
    OBVIOUS
<1>1. TypeOK /\ ServerInv
    BY DEF Inv, ServerInv
<1>2. CASE ParseFlags \/ NewDriver \/ Listen \/ CheckLimit \/ Start \/ Wait \/ Signal
    BY <1>1, <1>2, MainType, MainServer DEF Inv, ServerInv
<1>3. CASE GrpcStep
    BY <1>1, <1>3, GrpcType, GrpcServer DEF Inv, ServerInv
<1>4. CASE HttpStep \/ \E h \in Healths : HealthStep(h)
    BY <1>1, <1>4, HttpType, HttpServer DEF Inv, ServerInv
<1>5. CASE UNCHANGED vars
    BY <1>5 DEF vars, mainVars, readyVars, httpVars, healthVars, Inv, TypeOK, StartInv,
        DrainInv, MutexInv, Members
<1>6. QED
    BY <1>2, <1>3, <1>4, <1>5 DEF Next, Exited, GrpcStep, HttpStep, HealthStep

\* Inv holds in every state of the process, for any number of RPCs, health
\* requests and checks.
THEOREM LifecycleInv == Spec => []Inv
BY InitInv, NextInv, PTL DEF Spec

\* In particular every variable keeps its type.
THEOREM LifecycleTypes == Spec => []TypeOK
<1>1. Inv => TypeOK
    BY DEF Inv
<1>2. QED
    BY <1>1, LifecycleInv, PTL

\* Run does not return nil while an RPC or a health check is under way: the
\* gRPC server returns after GracefulStop has waited, the HTTP server's Shutdown
\* reports what it could not wait for.
THEOREM CleanExit == Spec => []CleanExitCutsNothing
<1>1. Inv => CleanExitCutsNothing
    BY DEF Inv, StartInv, DrainInv, Members, CleanExitCutsNothing
<1>2. QED
    BY <1>1, LifecycleInv, PTL

\* The stopper holds the mutex when it resets ready, so no Probe has read it and
\* not yet let go; a Probe that takes the mutex later, in the drain, finds the
\* plugin not ready.
THEOREM ProbeAndDrainOrdered == Spec => []NoReadyProbeInDrain
<1>1. Inv => NoReadyProbeInDrain
    BY DEF Inv, MutexInv, NoReadyProbeInDrain
<1>2. QED
    BY <1>1, LifecycleInv, PTL

=============================================================================
