---------------------------- MODULE BridgeProofs ----------------------------
(***************************************************************************)
(* Proofs about the two ends of the bridge.  The service: DMBridgeService  *)
(* and, on top of it, DMBridgeDeployment, for any number of processes,     *)
(* clients and interfaces and both readings of autoListen.  The client:    *)
(* BridgeClient and the Telemetry API behind it, for any apps, bindings    *)
(* and levels, and a DWORD of any width.                                   *)
(***************************************************************************)
EXTENDS DMBridgeDeployment, BridgeClient, TLAPS

-----------------------------------------------------------------------------
(* The service.                                                            *)

LEMMA InitTyping == Init => TypeOK
BY DEF Init, TypeOK, ServiceState, Mode, StartStep, StopStep, WorkerStep

\* The death of a process, from whatever state, keeps every variable in its type.
LEMMA DieTyping ==
  ASSUME TypeOK, NEW p \in Process, Die(p), UNCHANGED autoListen
  PROVE  TypeOK'
BY DEF TypeOK, Die, ServiceState, Mode, StartStep, StopStep, WorkerStep

LEMMA StepTyping == TypeOK /\ [Next]_vars => TypeOK'
<1> SUFFICES ASSUME TypeOK, [Next]_vars PROVE TypeOK'
  OBVIOUS
<1> USE DEF TypeOK, ServiceState, Mode, StartStep, StopStep, WorkerStep
<1>0. autoListen' = autoListen
  BY DEF Next, vars
<1> USE <1>0
<1>1. ASSUME NEW p \in Process, StartService(p) PROVE TypeOK'
  BY <1>1 DEF StartService, statusVars
<1>2. ASSUME NEW p \in Process, StartConsole(p) PROVE TypeOK'
  BY <1>2 DEF StartConsole, scmVars, statusVars
<1>3. ASSUME NEW p \in Process, StopControl(p) PROVE TypeOK'
  BY <1>3 DEF StopControl, scmVars, statusVars, rpcVars
<1>4. ASSUME NEW p \in Process, StartThread(p) PROVE TypeOK'
  <2>1. CASE Start(p)
    BY <2>1 DEF Start, SetServiceStatus, rpcVars
  <2>2. CASE OnStart(p)
    BY <2>2 DEF OnStart, scmVars, statusVars, rpcVars
  <2>3. CASE OnStartFails(p)
    BY <2>3, DieTyping DEF OnStartFails
  <2>4. CASE Started(p)
    BY <2>4 DEF Started, SetServiceStatus, rpcVars
  <2>5. QED BY <1>4, <2>1, <2>2, <2>3, <2>4 DEF StartThread
<1>5. ASSUME NEW p \in Process, WorkerThread(p) PROVE TypeOK'
  <2>1. CASE Setup(p)
    BY <2>1 DEF Setup, scmVars, statusVars
  <2>2. CASE \/ GenerateSecurityDescriptorFails(p) \/ SetupFails(p)
             \/ RegisterInterfaceFails(p) \/ ListenFails(p)
    BY <2>2, DieTyping DEF GenerateSecurityDescriptorFails, SetupFails,
          RegisterInterfaceFails, ListenFails
  <2>3. CASE RegisterInterface(p)
    BY <2>3 DEF RegisterInterface, scmVars, statusVars
  <2>4. CASE InterfacesRegistered(p) \/ Listen(p) \/ ListenReturns(p)
    BY <2>4 DEF InterfacesRegistered, Listen, ListenReturns, scmVars, statusVars, rpcVars
  <2>5. QED BY <1>5, <2>1, <2>2, <2>3, <2>4 DEF WorkerThread
<1>6. ASSUME NEW p \in Process, HandlerThread(p) PROVE TypeOK'
  <2>1. CASE Stop(p)
    BY <2>1 DEF Stop, SetServiceStatus, rpcVars
  <2>2. CASE OnStop(p) \/ OnStopFails(p)
    BY <2>2 DEF OnStop, OnStopFails, scmVars, statusVars, rpcVars
  <2>3. CASE Stopped(p)
    BY <2>3 DEF Stopped, SetServiceStatus, rpcVars
  <2>4. CASE StopFailed(p)
    BY <2>4 DEF StopFailed, SetServiceStatus, rpcVars
  <2>5. QED BY <1>6, <2>1, <2>2, <2>3, <2>4 DEF HandlerThread
<1>7. ASSUME NEW p \in Process, Exit(p) \/ Kill(p) PROVE TypeOK'
  BY <1>7, DieTyping DEF Exit, Kill
<1>8. ASSUME NEW c \in Client, Call(c) \/ Return(c) PROVE TypeOK'
  BY <1>8 DEF Call, Return, scmVars, statusVars, rpcVars
<1>9. CASE UNCHANGED vars
  BY <1>9 DEF vars
<1>10. QED
  BY <1>1, <1>2, <1>3, <1>4, <1>5, <1>6, <1>7, <1>8, <1>9 DEF Next

\* Every variable keeps its type.
THEOREM Typing == Spec => []TypeOK
<1>1. QED BY InitTyping, StepTyping, PTL DEF Spec

-----------------------------------------------------------------------------
(* The lifecycle: where each process is, by what the SCM has been told.    *)

LEMMA InitLifecycle == Init => Lifecycle
BY NoProcessAssumption
   DEF Init, Lifecycle, Unhosted

\* A death takes the process out of the lifecycle and disturbs no other.
LEMMA DieLifecycle ==
  ASSUME TypeOK, Lifecycle, NEW p \in Process, Die(p)
  PROVE  Lifecycle'
<1> USE NoProcessAssumption DEF TypeOK, ServiceState, Mode, StartStep, StopStep, WorkerStep
<1>1. ASSUME NEW q \in Process, q # p
      PROVE  /\ owner' = q <=> owner = q
             /\ mode'[q] = mode[q] /\ main'[q] = main[q] /\ handler'[q] = handler[q]
             /\ worker'[q] = worker[q] /\ status'[q] = status[q]
             /\ original'[q] = original[q] /\ stopListening'[q] = stopListening[q]
             /\ owner = q => scm' = scm
  BY <1>1 DEF Die
<1>2. Unhosted(p)' /\ mode'[p] # "service" /\ owner' # p
  BY DEF Die, Unhosted
<1>3. ASSUME NEW q \in Process
      PROVE  /\ Unhosted(q)'
             /\ mode'[q] = "service" =>
                  (Starting(q) \/ Running(q) \/ Stopping(q) \/ Draining(q))'
             /\ owner' = q => scm' = status'[q]
  BY <1>1, <1>2 DEF Lifecycle, Unhosted, Starting, Running, Stopping, Draining
<1>4. owner' = NoProcess <=> scm' = "STOPPED"
  BY DEF Die, Lifecycle
<1>5. QED BY <1>3, <1>4 DEF Lifecycle

LEMMA StepLifecycle == TypeOK /\ Lifecycle /\ [Next]_vars => Lifecycle'
<1> SUFFICES ASSUME TypeOK, Lifecycle, [Next]_vars PROVE Lifecycle'
  OBVIOUS
<1> USE NoProcessAssumption
    DEF TypeOK, ServiceState, Mode, StartStep, StopStep, WorkerStep
<1>1. ASSUME NEW p \in Process, StartService(p) PROVE Lifecycle'
  BY <1>1 DEF StartService, statusVars, Lifecycle, Unhosted, Starting, Running, Stopping, Draining
<1>2. ASSUME NEW p \in Process, StartConsole(p) PROVE Lifecycle'
  BY <1>2 DEF StartConsole, scmVars, statusVars, Lifecycle, Unhosted, Starting, Running, Stopping, Draining
<1>3. ASSUME NEW p \in Process, StopControl(p) PROVE Lifecycle'
  BY <1>3 DEF StopControl, scmVars, statusVars, rpcVars, Lifecycle, Unhosted, Starting, Running, Stopping, Draining
<1>4. ASSUME NEW p \in Process, StartThread(p) PROVE Lifecycle'
  <2>1. CASE Start(p)
    BY <2>1 DEF Start, SetServiceStatus, rpcVars, Lifecycle, Unhosted, Starting, Running, Stopping, Draining
  <2>2. CASE OnStart(p)
    BY <2>2 DEF OnStart, scmVars, statusVars, rpcVars, Lifecycle, Unhosted, Starting, Running, Stopping, Draining
  <2>3. CASE OnStartFails(p)
    BY <2>3, DieLifecycle DEF OnStartFails
  <2>4. CASE Started(p)
    BY <2>4 DEF Started, SetServiceStatus, rpcVars, Lifecycle, Unhosted, Starting, Running, Stopping, Draining
  <2>5. QED BY <1>4, <2>1, <2>2, <2>3, <2>4 DEF StartThread
<1>5. ASSUME NEW p \in Process, WorkerThread(p) PROVE Lifecycle'
  <2>1. CASE \/ GenerateSecurityDescriptorFails(p) \/ SetupFails(p)
             \/ RegisterInterfaceFails(p) \/ ListenFails(p)
    BY <2>1, DieLifecycle DEF GenerateSecurityDescriptorFails, SetupFails,
          RegisterInterfaceFails, ListenFails
  <2>2. CASE \/ Setup(p) \/ RegisterInterface(p) \/ InterfacesRegistered(p)
             \/ Listen(p) \/ ListenReturns(p)
    <3>1. /\ UNCHANGED <<scm, owner, mode, status, original, main, handler, stopListening>>
          /\ worker[p] # "none"
          /\ \A q \in Process : q # p => worker'[q] = worker[q]
      BY <2>2 DEF Setup, RegisterInterface, InterfacesRegistered, Listen, ListenReturns,
                  scmVars, statusVars, rpcVars
    <3>2. QED BY <3>1 DEF Lifecycle, Unhosted, Starting, Running, Stopping, Draining
  <2>3. QED BY <1>5, <2>1, <2>2 DEF WorkerThread
<1>6. ASSUME NEW p \in Process, HandlerThread(p) PROVE Lifecycle'
  <2>1. CASE Stop(p)
    BY <2>1 DEF Stop, SetServiceStatus, rpcVars, Lifecycle, Unhosted, Starting, Running, Stopping, Draining
  <2>2. CASE OnStop(p)
    BY <2>2 DEF OnStop, scmVars, statusVars, Lifecycle, Unhosted, Starting, Running, Stopping, Draining
  <2>3. CASE OnStopFails(p)
    BY <2>3 DEF OnStopFails, scmVars, statusVars, rpcVars, Lifecycle, Unhosted, Starting, Running, Stopping, Draining
  <2>4. CASE Stopped(p)
    BY <2>4 DEF Stopped, SetServiceStatus, rpcVars, Lifecycle, Unhosted, Starting, Running, Stopping, Draining
  <2>5. CASE StopFailed(p)
    BY <2>5 DEF StopFailed, SetServiceStatus, rpcVars, Lifecycle, Unhosted, Starting, Running, Stopping, Draining
  <2>6. QED BY <1>6, <2>1, <2>2, <2>3, <2>4, <2>5 DEF HandlerThread
<1>7. ASSUME NEW p \in Process, Exit(p) \/ Kill(p) PROVE Lifecycle'
  BY <1>7, DieLifecycle DEF Exit, Kill
<1>8. ASSUME NEW c \in Client, Call(c) \/ Return(c) PROVE Lifecycle'
  BY <1>8 DEF Call, Return, scmVars, statusVars, rpcVars,
     Lifecycle, Unhosted, Starting, Running, Stopping, Draining
<1>9. CASE UNCHANGED vars
  BY <1>9 DEF vars, Lifecycle, Unhosted, Starting, Running, Stopping, Draining
<1>10. QED
  BY <1>1, <1>2, <1>3, <1>4, <1>5, <1>6, <1>7, <1>8, <1>9 DEF Next

\* In every process the state reported to the SCM, the program counters of
\* Start() and Stop(), and the listening agree.
THEOREM LifecycleInvariant == Spec => []Lifecycle
<1>1. QED BY InitTyping, StepTyping, InitLifecycle, StepLifecycle, PTL DEF Spec

\* A service shown as RUNNING has not been told to stop listening.
THEOREM RunningIsNotStoppingAlways == Spec => []RunningIsNotStopping
<1>1. TypeOK /\ Lifecycle => RunningIsNotStopping
  BY NoProcessAssumption
     DEF TypeOK, ServiceState, Mode, Lifecycle, RunningIsNotStopping,
         Unhosted, Starting, Running, Stopping, Draining
<1>2. QED BY <1>1, Typing, LifecycleInvariant, PTL

\* A process that has reported STOPPED has stopped its listening.
THEOREM StoppedHasStoppedAlways == Spec => []StoppedHasStopped
<1>1. Lifecycle => StoppedHasStopped
  BY DEF Lifecycle, StoppedHasStopped, Unhosted, Starting, Running, Stopping, Draining
<1>2. QED BY <1>1, LifecycleInvariant, PTL

\* Start() and Stop() do not race on _status, and Stop() saves RUNNING only.
THEOREM NoStatusRaceAlways == Spec => []NoStatusRace
<1>1. TypeOK /\ Lifecycle => NoStatusRace
  BY DEF TypeOK, StopStep, Lifecycle, NoStatusRace, Unhosted, Starting, Running, Stopping, Draining
<1>2. QED BY <1>1, Typing, LifecycleInvariant, PTL

\* The SCM is told the states of the service in the order of its protocol.
THEOREM StatusProtocolAlways == Spec => StatusProtocol
<1> DEFINE Protocol ==
      \/ scm' = "STOPPED"
      \/ scm = "STOPPED" /\ scm' = "START_PENDING"
      \/ scm = "START_PENDING" /\ scm' = "RUNNING"
      \/ scm = "RUNNING" /\ scm' = "STOP_PENDING"
      \/ scm = "STOP_PENDING" /\ scm' = "RUNNING"
<1>1. TypeOK /\ Lifecycle /\ [Next]_vars => [Protocol]_scm
  <2> SUFFICES ASSUME TypeOK, Lifecycle, [Next]_vars, scm' # scm PROVE Protocol
    OBVIOUS
  <2>1. ASSUME NEW p \in Process, StartService(p) PROVE Protocol
    BY <2>1 DEF StartService
  <2>2. ASSUME NEW p \in Process, Die(p) PROVE Protocol
    BY <2>2 DEF Die
  <2>3. ASSUME NEW p \in Process, StartThread(p) PROVE Protocol
    BY <2>2, <2>3 DEF StartThread, Start, OnStart, OnStartFails, Started, SetServiceStatus,
       scmVars, TypeOK, Lifecycle, Unhosted, Starting, Running, Stopping, Draining
  <2>4. ASSUME NEW p \in Process, HandlerThread(p) PROVE Protocol
    BY <2>4 DEF HandlerThread, Stop, OnStop, OnStopFails, Stopped, StopFailed, SetServiceStatus,
       scmVars, TypeOK, Lifecycle, Unhosted, Starting, Running, Stopping, Draining
  <2>5. ASSUME NEW p \in Process, WorkerThread(p) PROVE Protocol
    BY <2>2, <2>5 DEF WorkerThread, Setup, GenerateSecurityDescriptorFails, SetupFails, RegisterInterface, RegisterInterfaceFails,
       InterfacesRegistered, Listen, ListenFails, ListenReturns, scmVars
  <2>6. ASSUME NEW p \in Process, StartConsole(p) \/ StopControl(p) PROVE Protocol
    BY <2>6 DEF StartConsole, StopControl, scmVars
  <2>7. ASSUME NEW c \in Client, Call(c) \/ Return(c) PROVE Protocol
    BY <2>7 DEF Call, Return, scmVars
  <2>8. QED
    BY <2>1, <2>2, <2>3, <2>4, <2>5, <2>6, <2>7 DEF Next, vars, Exit, Kill
<1>2. QED BY <1>1, Typing, LifecycleInvariant, PTL DEF Spec, StatusProtocol

-----------------------------------------------------------------------------
(* The endpoint.                                                           *)

\* A worker that goes on past Setup owns the endpoint, until its process is gone.
THEOREM ListenerOwnsEndpointAlways == Spec => []ListenerOwnsEndpoint
<1>1. Init => ListenerOwnsEndpoint
  BY DEF Init, ListenerOwnsEndpoint
<1>2. TypeOK /\ Lifecycle /\ ListenerOwnsEndpoint /\ [Next]_vars => ListenerOwnsEndpoint'
  <2> SUFFICES ASSUME TypeOK, Lifecycle, ListenerOwnsEndpoint, [Next]_vars
               PROVE  ListenerOwnsEndpoint'
    OBVIOUS
  <2> USE NoProcessAssumption DEF TypeOK, ListenerOwnsEndpoint
  <2>1. ASSUME NEW p \in Process, StartService(p) \/ StartConsole(p) PROVE ListenerOwnsEndpoint'
    BY <2>1 DEF StartService, StartConsole, Lifecycle, Unhosted
  <2>2. ASSUME NEW p \in Process, Die(p) PROVE ListenerOwnsEndpoint'
    BY <2>2 DEF Die
  <2>3. ASSUME NEW p \in Process, Setup(p) PROVE ListenerOwnsEndpoint'
    BY <2>3 DEF Setup
  <2>4. ASSUME NEW p \in Process, WorkerThread(p) PROVE ListenerOwnsEndpoint'
    BY <2>2, <2>3, <2>4 DEF WorkerThread, GenerateSecurityDescriptorFails, SetupFails,
       RegisterInterface, RegisterInterfaceFails, InterfacesRegistered, Listen, ListenFails,
       ListenReturns, rpcVars
  <2>5. ASSUME NEW p \in Process, StartThread(p) \/ HandlerThread(p) \/ StopControl(p)
        PROVE ListenerOwnsEndpoint'
    BY <2>2, <2>5 DEF StartThread, Start, OnStart, OnStartFails, Started, StopControl,
       HandlerThread, Stop, OnStop, OnStopFails, Stopped, StopFailed, rpcVars
  <2>6. ASSUME NEW c \in Client, Call(c) \/ Return(c) PROVE ListenerOwnsEndpoint'
    BY <2>6 DEF Call, Return, rpcVars
  <2>7. CASE UNCHANGED vars
    BY <2>7 DEF vars
  <2>8. QED
    BY <2>1, <2>2, <2>4, <2>5, <2>6, <2>7 DEF Next, Exit, Kill
<1>3. QED BY <1>1, <1>2, Typing, LifecycleInvariant, PTL DEF Spec

-----------------------------------------------------------------------------
(* What is served.                                                         *)

\* A server listens only with all the interfaces of its configuration.
THEOREM ListeningIsCompleteAlways == Spec => []ListeningIsComplete
<1>1. Init => ListeningIsComplete
  BY DEF Init, ListeningIsComplete
<1>2. TypeOK /\ Lifecycle /\ ListeningIsComplete /\ [Next]_vars => ListeningIsComplete'
  <2> SUFFICES ASSUME TypeOK, Lifecycle, ListeningIsComplete, [Next]_vars
               PROVE  ListeningIsComplete'
    OBVIOUS
  <2> USE DEF TypeOK, ListeningIsComplete
  <2>1. ASSUME NEW p \in Process, StartService(p) \/ StartConsole(p) PROVE ListeningIsComplete'
    BY <2>1 DEF StartService, StartConsole, Lifecycle, Unhosted
  <2>2. ASSUME NEW p \in Process, Die(p) PROVE ListeningIsComplete'
    BY <2>2 DEF Die
  <2>3. ASSUME NEW p \in Process, WorkerThread(p) PROVE ListeningIsComplete'
    BY <2>2, <2>3 DEF WorkerThread, Setup, GenerateSecurityDescriptorFails, SetupFails, RegisterInterface,
       RegisterInterfaceFails, InterfacesRegistered, Listen, ListenFails, ListenReturns, rpcVars
  <2>4. ASSUME NEW p \in Process, StartThread(p) \/ HandlerThread(p) \/ StopControl(p)
        PROVE ListeningIsComplete'
    BY <2>2, <2>4 DEF StartThread, Start, OnStart, OnStartFails, Started, StopControl,
       HandlerThread, Stop, OnStop, OnStopFails, Stopped, StopFailed, rpcVars
  <2>5. ASSUME NEW c \in Client, Call(c) \/ Return(c) PROVE ListeningIsComplete'
    BY <2>5 DEF Call, Return, rpcVars
  <2>6. CASE UNCHANGED vars
    BY <2>6 DEF vars
  <2>7. QED
    BY <2>1, <2>2, <2>3, <2>4, <2>5, <2>6 DEF Next, Exit, Kill
<1>3. QED BY <1>1, <1>2, Typing, LifecycleInvariant, PTL DEF Spec

-----------------------------------------------------------------------------
(* Deployment.                                                             *)

\* Installing and uninstalling is nothing but hosting to the processes: every
\* property of Spec is one of DeploySpec.
LEMMA StepHosting == [DeployNext]_allVars => [Next]_vars
<1> SUFFICES ASSUME [DeployNext]_allVars PROVE [Next]_vars
  OBVIOUS
<1>1. ASSUME Install \/ Uninstall \/ RemoveEntry PROVE UNCHANGED vars
  BY <1>1 DEF Install, Uninstall, RemoveEntry
<1>2. ASSUME Uninstaller PROVE [Next]_vars
  BY <1>2 DEF Uninstaller, ControlService, ControlServiceFails, QueryServiceStatus,
              StopIsPending, QueryServiceStatusFails, LoopEnds, DeleteService, Next
<1>3. CASE Hosting
  BY <1>3 DEF Hosting
<1>4. CASE UNCHANGED allVars
  BY <1>4 DEF allVars
<1>5. QED BY <1>1, <1>2, <1>3, <1>4 DEF DeployNext

\* A service that is installed and uninstalled at any time is a hosting like
\* any other.
THEOREM DeploymentIsHosting == DeploySpec => Spec
<1>1. DeployInit => Init
  BY DEF DeployInit
<1>2. QED BY <1>1, StepHosting, PTL DEF DeploySpec, Spec

\* Every variable of the deployment keeps its type.
THEOREM DeployTyping == DeploySpec => []DeployTypeOK
<1>1. DeployInit => DeployTypeOK
  BY InitTyping DEF DeployInit, DeployTypeOK, UninstallStep
<1>2. DeployTypeOK /\ [DeployNext]_allVars => DeployTypeOK'
  <2> SUFFICES ASSUME DeployTypeOK, [DeployNext]_allVars PROVE DeployTypeOK'
    OBVIOUS
  <2>1. TypeOK'
    BY StepHosting, StepTyping DEF DeployTypeOK
  <2>0. scm \in ServiceState /\ scm' \in ServiceState
    BY <2>1 DEF DeployTypeOK, TypeOK
  <2>2. /\ entry' \in BOOLEAN /\ deletePending' \in BOOLEAN
        /\ uninstall' \in UninstallStep
        /\ ssSvcStatus' \in ServiceState \cup {"none"}
        /\ told' \in {"none", "Stopped", "Failed"}
        /\ target' \in Process \cup {NoProcess}
    <3> USE <2>0 DEF DeployTypeOK, UninstallStep
    <3>1. CASE Install \/ Uninstall \/ RemoveEntry
      BY <3>1 DEF Install, Uninstall, RemoveEntry
    <3>2. CASE Uninstaller
      BY <3>2 DEF Uninstaller, ControlService, ControlServiceFails, QueryServiceStatus,
                  StopIsPending, QueryServiceStatusFails, LoopEnds, DeleteService
    <3>3. CASE Hosting
      BY <3>3 DEF Hosting, Beside
    <3>4. CASE UNCHANGED allVars
      BY <3>4 DEF allVars, deployVars
    <3>5. QED BY <3>1, <3>2, <3>3, <3>4 DEF DeployNext
  <2>3. QED BY <2>1, <2>2 DEF DeployTypeOK
<1>3. QED BY <1>1, <1>2, PTL DEF DeploySpec

\* A process that has reported STOPPED does nothing more but exit: it stays what
\* it is until it is gone.
LEMMA DrainingStays ==
  ASSUME TypeOK, Lifecycle, [Next]_vars, NEW p \in Process, Draining(p), mode'[p] # "none"
  PROVE  Draining(p)'
<1> USE NoProcessAssumption DEF Draining
<1>0. mode[p] = "service"
  BY DEF Lifecycle, Unhosted, TypeOK, Mode
<1>1. ASSUME NEW q \in Process, StartService(q) \/ StartConsole(q) PROVE Draining(p)'
  BY <1>0, <1>1 DEF StartService, StartConsole, statusVars, scmVars, TypeOK
<1>2. ASSUME NEW q \in Process, StopControl(q) PROVE Draining(p)'
  BY <1>2 DEF StopControl, scmVars, statusVars, rpcVars, TypeOK
<1>3. ASSUME NEW q \in Process, Die(q) PROVE Draining(p)'
  BY <1>3 DEF Die, TypeOK
<1>4. ASSUME NEW q \in Process, StartThread(q) PROVE Draining(p)'
  BY <1>3, <1>4 DEF StartThread, Start, OnStart, OnStartFails, Started, SetServiceStatus,
     scmVars, statusVars, rpcVars, TypeOK
<1>5. ASSUME NEW q \in Process, WorkerThread(q) PROVE Draining(p)'
  BY <1>3, <1>5 DEF WorkerThread, Setup, GenerateSecurityDescriptorFails, SetupFails,
     RegisterInterface, RegisterInterfaceFails, InterfacesRegistered, Listen, ListenFails,
     ListenReturns, scmVars, statusVars, rpcVars
<1>6. ASSUME NEW q \in Process, HandlerThread(q) PROVE Draining(p)'
  BY <1>6 DEF HandlerThread, Stop, OnStop, OnStopFails, Stopped, StopFailed, SetServiceStatus,
     scmVars, statusVars, rpcVars, TypeOK
<1>7. ASSUME NEW c \in Client, Call(c) \/ Return(c) PROVE Draining(p)'
  BY <1>7 DEF Call, Return, scmVars, statusVars, rpcVars
<1>8. CASE UNCHANGED vars
  BY <1>8 DEF vars
<1>9. QED
  BY <1>1, <1>2, <1>3, <1>4, <1>5, <1>6, <1>7, <1>8 DEF Next, Exit, Kill

\* While the uninstaller polls, its target has no life but that of a service which
\* has started, so that it is Gone whenever the SCM shows STOPPED.
TargetStarted ==
  target # NoProcess => mode[target] = "service" /\ main[target] = "done"

LEMMA StoppedIsGone ==
  DeployTypeOK /\ Lifecycle /\ TargetStarted => (scm = "STOPPED" => Gone)
<1> SUFFICES ASSUME DeployTypeOK, Lifecycle, TargetStarted, scm = "STOPPED"
             PROVE  Gone
  OBVIOUS
<1>1. CASE target = NoProcess
  BY <1>1 DEF Gone
<1>2. CASE target # NoProcess
  <2>1. target \in Process /\ owner = NoProcess /\ owner # target /\ mode[target] = "service"
    BY <1>2 DEF DeployTypeOK, Lifecycle, TargetStarted
  <2>2. QED BY <2>1 DEF Gone, Lifecycle, Starting, Running, Stopping
<1>3. QED BY <1>1, <1>2

\* Once the target has started it has started for good, until it is gone.
LEMMA StartedStays ==
  ASSUME TypeOK, [Next]_vars, NEW p \in Process, mode[p] = "service", main[p] = "done",
         mode'[p] # "none"
  PROVE  mode'[p] = "service" /\ main'[p] = "done"
<1> DEFINE Goal == mode'[p] = "service" /\ main'[p] = "done"
<1>1. ASSUME NEW q \in Process, StartService(q) \/ StartConsole(q) \/ StopControl(q) PROVE Goal
  BY <1>1 DEF StartService, StartConsole, StopControl, TypeOK
<1>2. ASSUME NEW q \in Process, Die(q) PROVE Goal
  BY <1>2 DEF Die, TypeOK
<1>3. ASSUME NEW q \in Process, StartThread(q) PROVE Goal
  BY <1>2, <1>3 DEF StartThread, Start, OnStart, OnStartFails, Started, TypeOK
<1>4. ASSUME NEW q \in Process, WorkerThread(q) PROVE Goal
  BY <1>2, <1>4 DEF WorkerThread, Setup, GenerateSecurityDescriptorFails, SetupFails,
     RegisterInterface, RegisterInterfaceFails, InterfacesRegistered, Listen, ListenFails,
     ListenReturns
<1>5. ASSUME NEW q \in Process, HandlerThread(q) PROVE Goal
  BY <1>5 DEF HandlerThread, Stop, OnStop, OnStopFails, Stopped, StopFailed
<1>6. ASSUME NEW c \in Client, Call(c) \/ Return(c) PROVE Goal
  BY <1>6 DEF Call, Return
<1>7. CASE UNCHANGED vars
  BY <1>7 DEF vars
<1>8. QED
  BY <1>1, <1>2, <1>3, <1>4, <1>5, <1>6, <1>7 DEF Next, Exit, Kill

\* The uninstaller's local agrees with what became of its target.
LEMMA CopiedStatusAlways == DeploySpec => [](TargetStarted /\ CopiedStatus)
<1>1. DeployInit => TargetStarted /\ CopiedStatus
  BY DEF DeployInit, TargetStarted, CopiedStatus
<1>0. (DeployTypeOK /\ Lifecycle /\ TargetStarted => (scm = "STOPPED" => Gone))'
  BY StoppedIsGone, PTL
<1>2. /\ DeployTypeOK /\ DeployTypeOK' /\ Lifecycle /\ Lifecycle'
      /\ TargetStarted /\ CopiedStatus /\ [DeployNext]_allVars
      => TargetStarted' /\ CopiedStatus'
  <2> SUFFICES ASSUME DeployTypeOK, DeployTypeOK', Lifecycle, Lifecycle',
                      TargetStarted, CopiedStatus, [DeployNext]_allVars
               PROVE  TargetStarted' /\ CopiedStatus'
    OBVIOUS
  <2> USE NoProcessAssumption
  <2>0. target \in Process \cup {NoProcess} /\ TypeOK
    BY DEF DeployTypeOK
  <2>1. CASE Hosting
    <3>1. /\ target' = IF target # NoProcess /\ mode'[target] = "none" THEN NoProcess ELSE target
          /\ told' = told /\ [Next]_vars
          /\ ssSvcStatus' = ssSvcStatus \/ ssSvcStatus' = scm'
          /\ \/ uninstall' = "Query"
             \/ UNCHANGED <<uninstall, ssSvcStatus>>
      BY <2>1 DEF Hosting, Beside
    <3>2. TargetStarted'
      <4>1. CASE target' = NoProcess
        BY <4>1 DEF TargetStarted
      <4>2. CASE target' # NoProcess
        <5>1. target' = target /\ target \in Process /\ mode'[target] # "none"
          BY <2>0, <3>1, <4>2
        <5>2. mode[target] = "service" /\ main[target] = "done"
          BY <5>1 DEF TargetStarted
        <5>3. mode'[target] = "service" /\ main'[target] = "done"
          BY <2>0, <3>1, <5>1, <5>2, StartedStays
        <5>4. QED BY <5>1, <5>3 DEF TargetStarted
      <4>3. QED BY <4>1, <4>2
    <3>3. scm' = "STOPPED" => Gone'
      BY <1>0, <3>2
    <3>4. Gone => Gone'
      <4> SUFFICES ASSUME Gone, target' # NoProcess PROVE Draining(target)'
        BY DEF Gone
      <4>1. target' = target /\ target \in Process /\ mode'[target] # "none" /\ Draining(target)
        BY <2>0, <3>1 DEF Gone
      <4>2. \A p \in Process : Draining(p) /\ mode'[p] # "none" =>
              /\ main'[p] = "done" /\ handler'[p] = "idle"
              /\ status'[p] = "STOPPED" /\ owner' # p /\ stopListening'[p]
        BY <2>0, <3>1, DrainingStays DEF Draining
      <4>3. QED BY <4>1, <4>2 DEF Draining
    <3>5. QED BY <3>1, <3>2, <3>3, <3>4 DEF CopiedStatus
  <2>2. CASE ControlService
    <3>1. PICK p \in Process : StopControl(p) /\ target' = p
      BY <2>2 DEF ControlService
    <3>2. /\ owner = p /\ scm = "RUNNING" /\ UNCHANGED <<mode, main, ssSvcStatus, told>>
          /\ uninstall = "ControlService"
      BY <2>2, <3>1 DEF ControlService, StopControl
    <3>3. mode[p] = "service" /\ main[p] = "done"
      BY <3>2 DEF Lifecycle, Unhosted, Starting, Running, Stopping, Draining, DeployTypeOK, TypeOK, Mode
    <3>4. QED BY <3>1, <3>2, <3>3 DEF TargetStarted, CopiedStatus
  <2>3. CASE /\ UNCHANGED <<vars, target>>
             /\ ssSvcStatus' = "STOPPED" \/ told' = "Stopped" => Gone
             /\ uninstall' \in {"none", "ControlService", "Waiting"}
                  => ssSvcStatus' = "none" /\ told' = "none"
    <3>1. Gone' <=> Gone
      BY <2>3 DEF vars, Gone, Draining
    <3>2. QED BY <2>3, <3>1 DEF vars, TargetStarted, CopiedStatus
  <2>4. CASE Install \/ Uninstall \/ RemoveEntry \/ ControlServiceFails \/ UNCHANGED allVars
    BY <2>3, <2>4 DEF Install, Uninstall, RemoveEntry, ControlServiceFails, allVars, deployVars,
       CopiedStatus
  <2>5. CASE QueryServiceStatus \/ StopIsPending \/ QueryServiceStatusFails
    BY <2>3, <2>5, StoppedIsGone DEF QueryServiceStatus, StopIsPending,
       QueryServiceStatusFails, LoopEnds, CopiedStatus
  <2>6. CASE DeleteService
    BY <2>6 DEF DeleteService, TargetStarted, CopiedStatus
  <2>7. QED BY <2>1, <2>2, <2>4, <2>5, <2>6 DEF DeployNext, Uninstaller
<1>3. QED
  BY <1>1, <1>2, DeployTyping, DeploymentIsHosting, LifecycleInvariant, PTL DEF DeploySpec

\* When the administrator reads "Stopped.", the process that got the STOP is gone,
\* or its listening has been stopped and the SCM has forgotten it.
THEOREM ToldStoppedIsStoppedAlways == DeploySpec => []ToldStoppedIsStopped
<1>1. CopiedStatus => ToldStoppedIsStopped
  BY DEF CopiedStatus, Gone, Draining, ToldStoppedIsStopped
<1>2. QED BY <1>1, CopiedStatusAlways, PTL

-----------------------------------------------------------------------------
(* The client.                                                             *)

\* What a status and a level say of the call that c is in, or has just left.
Told(c, hr, v) ==
  /\ call[c] = "SetLevel" /\ hr = "S_OK" =>
       wrote[c] = v /\ v \in MinTelemetryLevel .. MaxTelemetryLevel
  /\ call[c] = "SetLevel" /\ hr \in ServerError => wrote[c] = Missing
  /\ call[c] = "GetLevel" /\ hr = "S_OK" => \E d \in during[c] : v = LevelOf(d)

\* The thread of the service that executes the call of c, and what c will be
\* told of it.
CallInv(c) ==
  /\ call[c] = "none" => at[c] = "none" /\ outcome[c] = "none" /\ wrote[c] = Missing
  /\ outcome[c] # "none" => at[c] = "none"
  /\ at[c] \in {"Set", "Lock", "Write"} =>
       call[c] = "SetLevel" /\ level[c] = value[c] /\ wrote[c] = Missing
  /\ at[c] \in {"Lock", "Write"} => level[c] \in MinTelemetryLevel .. MaxTelemetryLevel
  /\ at[c] \in {"Size", "Data"} => call[c] = "GetLevel" /\ level[c] = 0 /\ registry \in during[c]
  /\ at[c] = "Other" => call[c] \notin {"SetLevel", "GetLevel"}
  /\ at[c] = "Answered" =>
       /\ Told(c, answer[c], level[c])
       /\ call[c] = "SetLevel" => level[c] = value[c]
  /\ outcome[c] # "none" => Told(c, outcome[c], value[c])

\* Only an object has a binding.
Bound == \A c \in Caller : object[c] = "none" => rpcBinding[c] = nullptr

ClientInv == BridgeTypeOK /\ HandlesAreOwned /\ Bound /\ \A c \in Caller : CallInv(c)

-----------------------------------------------------------------------------
LEMMA Dword ==
  /\ 0 \in INT32 /\ INT32 \subseteq Int
  /\ \A v \in MinTelemetryLevel .. MaxTelemetryLevel : v \in Stored
  /\ \A d \in Stored \ {Missing} : Cast(d) \in INT32
  /\ OtherLevel \cup {Missing} \subseteq Stored
  /\ Missing \notin INT32
<1>1. PICK h \in Nat : Dwords = 2 * h /\ Dwords \div 2 = h /\ h > 3
  <2>1. Dwords \div 2 \in Nat /\ Dwords = 2 * (Dwords \div 2) /\ Dwords \div 2 > 3
    BY DwordsAssumption DEF MaxTelemetryLevel
  <2>2. QED BY <2>1
<1>2. Dwords \in Nat
  BY DwordsAssumption
<1>3. INT32 = (-h) .. (h - 1)
  BY <1>1 DEF INT32
<1>4. ASSUME NEW d \in Stored \ {Missing} PROVE Cast(d) \in INT32
  <2>1. d \in 0 .. (2 * h - 1)
    BY <1>1, <1>4 DEF Stored
  <2>2. Cast(d) = IF d < h THEN d ELSE d - 2 * h
    BY <1>1 DEF Cast
  <2>3. QED BY <1>1, <1>3, <2>1, <2>2
<1>5. \A v \in MinTelemetryLevel .. MaxTelemetryLevel : v \in Stored
  BY <1>1 DEF Stored, MinTelemetryLevel, MaxTelemetryLevel
<1>6. OtherLevel \cup {Missing} \subseteq Stored
  BY ValueAssumption DEF Stored
<1>7. 0 \in INT32 /\ INT32 \subseteq Int /\ Missing \notin INT32
  BY <1>1, <1>3, ValueAssumption
<1>8. QED
  BY <1>4, <1>5, <1>6, <1>7

LEMMA InitClientInv == BridgeInit => ClientInv
<1> SUFFICES ASSUME BridgeInit PROVE ClientInv
  OBVIOUS
<1> USE Dword, ValueAssumption, HandleAssumption DEF BridgeInit, TelemetryInit
<1>1. BridgeTypeOK
  <2> HIDE DEF INT32, Stored
  <2>1. QED BY DEF BridgeTypeOK, TelemetryTypeOK, Step
<1>2. HandlesAreOwned /\ Bound
  BY DEF HandlesAreOwned, Bound
<1>3. \A c \in Caller : CallInv(c)
  BY DEF CallInv
<1>4. QED BY <1>1, <1>2, <1>3 DEF ClientInv

-----------------------------------------------------------------------------
\* The threads of the service, and the registry under them.
LEMMA TelemetryTypes ==
  ASSUME ClientInv, TelemetryTypeOK,
         OtherWrites \/ ThreadsAreLost
           \/ \E c \in Caller : TelemetryThread(c) \/ (at[c] = "Other" /\ \E hr \in {"S_OK", "ERROR"} :
                Answer(c, hr) /\ UNCHANGED <<registry, setLevelMutex, level, during, wrote>>)
  PROVE  TelemetryTypeOK'
<1> USE Dword DEF TelemetryTypeOK, Moves, Answer, Step
<1>0. \A v \in Stored : Store(v) => registry' \in Stored /\ during' \in [Caller -> SUBSET Stored]
  BY DEF Store
<1>1. CASE OtherWrites
  <2>1. \E v \in Stored : Store(v)
    BY <1>1 DEF OtherWrites
  <2>2. QED BY <1>0, <1>1, <2>1 DEF OtherWrites
<1>2. CASE ThreadsAreLost
  BY <1>2 DEF ThreadsAreLost
<1>3. ASSUME NEW c \in Caller, TelemetryThread(c) PROVE TelemetryTypeOK'
  <2>1. CASE CheckLevel(c) BY <2>1 DEF CheckLevel
  <2>2. CASE InvalidLevel(c) BY <2>2 DEF InvalidLevel
  <2>3. CASE LockLevel(c) BY <2>3 DEF LockLevel
  <2>4. CASE WriteLevel(c)
    <3>1. level[c] \in Stored
      BY <2>4 DEF WriteLevel, ClientInv, CallInv
    <3>2. registry' \in Stored /\ during' \in [Caller -> SUBSET Stored]
      BY <1>0, <2>4, <3>1 DEF WriteLevel
    <3>3. QED BY <2>4, <3>1, <3>2 DEF WriteLevel
  <2>5. CASE WriteLevelFails(c) BY <2>5 DEF WriteLevelFails
  <2>6. CASE ReadSize(c) BY <2>6 DEF ReadSize
  <2>7. CASE ReadLevel(c)
    <3>1. level' \in [Caller -> INT32]
      BY <2>7 DEF ReadLevel
    <3>2. QED BY <2>7, <3>1 DEF ReadLevel
  <2>8. CASE ReadFails(c) BY <2>8 DEF ReadFails, Stored
  <2>9. QED BY <1>3, <2>1, <2>2, <2>3, <2>4, <2>5, <2>6, <2>7, <2>8 DEF TelemetryThread
<1>4. ASSUME NEW c \in Caller, NEW hr \in {"S_OK", "ERROR"},
             Answer(c, hr), UNCHANGED <<registry, setLevelMutex, level, during, wrote>>
      PROVE  TelemetryTypeOK'
  BY <1>4
<1>5. QED BY <1>1, <1>2, <1>3, <1>4

LEMMA StepTypes == ASSUME ClientInv, [BridgeNext]_bridgeVars PROVE BridgeTypeOK'
<1> USE DEF BridgeTypeOK
<1>0. BridgeTypeOK /\ TelemetryTypeOK
  BY DEF ClientInv
<1> USE <1>0
<1>1. CASE UNCHANGED bridgeVars
  BY <1>1 DEF bridgeVars, telemetryVars, clientVars, TelemetryTypeOK
<1>2. CASE Listens
  BY <1>2 DEF Listens, telemetryVars, TelemetryTypeOK
<1>3. CASE Crashes
  BY <1>3, TelemetryTypes DEF Crashes
<1>4. CASE Policy
  BY <1>4, TelemetryTypes DEF Policy, clientVars
<1>5. ASSUME NEW c \in Caller, Serves(c) PROVE BridgeTypeOK'
  BY <1>5, TelemetryTypes DEF Serves, OtherProcedure, clientVars
<1>6. ASSUME NEW c \in Caller, App(c) PROVE BridgeTypeOK'
  <2> USE Dword, HandleAssumption, ValueAssumption
  <2>1. CASE Construct(c)
    BY <2>1 DEF Construct, telemetryVars, TelemetryTypeOK
  <2>2. CASE Close(c)
    BY <2>2 DEF Close, RpcCloseBinding, telemetryVars, TelemetryTypeOK
  <2>3. CASE Release(c)
    BY <2>3 DEF Release, telemetryVars, TelemetryTypeOK
  <2>4. ASSUME NEW m \in Methods, NEW v \in Parameter(m), Enters(c, m, v)
        PROVE  /\ call' \in [Caller -> Methods \cup {"none"}] /\ value' \in [Caller -> INT32]
               /\ v \in INT32
               /\ UNCHANGED <<listening, object, rpcBinding, handles, leaked>>
    <3>1. v \in INT32
      BY DEF Parameter
    <3>2. QED BY <2>4, <3>1 DEF Enters
  <2>5. CASE CallIsTaken(c)
    <3>0. PICK m \in Methods : \E v \in Parameter(m) : Enters(c, m, v) /\ Dispatch(c, EntryStep(m), v)
      BY <2>5 DEF CallIsTaken
    <3>1. PICK v \in Parameter(m) : Enters(c, m, v) /\ Dispatch(c, EntryStep(m), v)
      BY <3>0
    <3>2. EntryStep(m) \in Step
      BY DEF EntryStep, Step
    <3>3. TelemetryTypeOK'
      BY <2>4, <3>1, <3>2 DEF Dispatch, Moves, TelemetryTypeOK
    <3>4. QED BY <2>4, <2>5, <3>1, <3>3 DEF CallIsTaken
  <2>6. CASE CallIsRefused(c)
    <3>0. PICK m \in Methods : \E v \in Parameter(m) : Enters(c, m, v)
      BY <2>6 DEF CallIsRefused
    <3>1. PICK v \in Parameter(m) : Enters(c, m, v)
      BY <3>0
    <3>2. outcome' \in [Caller -> {"none", "S_OK", "RPC_ERROR"} \cup ServerError]
      BY <2>6 DEF CallIsRefused, RpcNormalize
    <3>3. QED BY <2>4, <2>6, <3>1, <3>2 DEF CallIsRefused, telemetryVars, TelemetryTypeOK
  <2>7. CASE Reply(c)
    <3>1. outcome' \in [Caller -> {"none", "S_OK", "RPC_ERROR"} \cup ServerError]
      BY <2>7 DEF Reply, RpcNormalize, ServerError, TelemetryTypeOK
    <3>2. value' \in [Caller -> INT32]
      BY <2>7 DEF Reply, TelemetryTypeOK
    <3>3. TelemetryTypeOK'
      BY <2>7 DEF Reply, Dismiss, Moves, TelemetryTypeOK, Step
    <3>4. QED BY <2>7, <3>1, <3>2, <3>3 DEF Reply
  <2>8. CASE ConnectionBreaks(c)
    <3>1. outcome' \in [Caller -> {"none", "S_OK", "RPC_ERROR"} \cup ServerError]
      BY <2>8 DEF ConnectionBreaks, RpcNormalize
    <3>2. QED BY <2>8, <3>1 DEF ConnectionBreaks, telemetryVars, TelemetryTypeOK
  <2>9. CASE Continue(c)
    <3>1. Missing \in Stored
      BY DEF Stored
    <3>2. TelemetryTypeOK'
      BY <2>9, <3>1 DEF Continue, Forget, TelemetryTypeOK
    <3>3. QED BY <2>9, <3>2 DEF Continue
  <2>10. QED
    BY <1>6, <2>1, <2>2, <2>3, <2>5, <2>6, <2>7, <2>8, <2>9 DEF App
<1>7. QED BY <1>1, <1>2, <1>3, <1>4, <1>5, <1>6 DEF BridgeNext

LEMMA StepHandles == ASSUME ClientInv, [BridgeNext]_bridgeVars PROVE HandlesAreOwned' /\ Bound'
<1>0. HandlesAreOwned /\ BridgeTypeOK /\ Bound
  BY DEF ClientInv
<1> USE <1>0, HandleAssumption DEF BridgeTypeOK, HandlesAreOwned, Bound
<1>1. ASSUME UNCHANGED <<object, rpcBinding, handles, leaked>> PROVE HandlesAreOwned' /\ Bound'
  BY <1>1
<1>2. ASSUME NEW c \in Caller, Construct(c) PROVE HandlesAreOwned' /\ Bound'
  <2>1. PICK h \in Handle \ handles :
          handles' = handles \cup {h} /\ rpcBinding' = [rpcBinding EXCEPT ![c] = h]
    BY <1>2 DEF Construct
  <2>2. leaked' = leaked /\ rpcBinding[c] = nullptr
    BY <1>2 DEF Construct
  <2>3. \A d \in Caller : rpcBinding'[d] = (IF d = c THEN h ELSE rpcBinding[d])
    BY <2>1
  <2>4. {rpcBinding'[d] : d \in Caller} \ {nullptr} = ({rpcBinding[d] : d \in Caller} \ {nullptr}) \cup {h}
    BY <2>1, <2>2, <2>3
  <2>5. \A d \in Caller : rpcBinding[d] # h /\ h \notin leaked
    BY <2>1
  <2>6. Bound'
    BY <1>2, <2>3, ClassAssumption DEF Construct, Bridge
  <2>7. QED BY <2>1, <2>2, <2>3, <2>4, <2>5, <2>6
<1>3. ASSUME NEW c \in Caller, Close(c) PROVE HandlesAreOwned' /\ Bound'
  <2>1. /\ handles' = handles \ {rpcBinding[c]}
        /\ leaked' = leaked /\ object' = object
        /\ \A d \in Caller : rpcBinding'[d] = (IF d = c THEN nullptr ELSE rpcBinding[d])
    BY <1>3 DEF Close, RpcCloseBinding
  <2>2. {rpcBinding'[d] : d \in Caller} \ {nullptr}
          = ({rpcBinding[d] : d \in Caller} \ {nullptr}) \ {rpcBinding[c]}
    BY <2>1
  <2>3. QED BY <2>1, <2>2
<1>4. ASSUME NEW c \in Caller, Release(c) PROVE HandlesAreOwned' /\ Bound'
  <2>1. /\ handles' = handles /\ leaked' = leaked \cup ({rpcBinding[c]} \ {nullptr})
        /\ object' = [object EXCEPT ![c] = "none"]
        /\ \A d \in Caller : rpcBinding'[d] = (IF d = c THEN nullptr ELSE rpcBinding[d])
    BY <1>4 DEF Release
  <2>2. {rpcBinding'[d] : d \in Caller} \ {nullptr}
          = ({rpcBinding[d] : d \in Caller} \ {nullptr}) \ {rpcBinding[c]}
    BY <2>1
  <2>3. QED BY <2>1, <2>2
<1>5. UNCHANGED <<object, rpcBinding, handles, leaked>>
        \/ \E c \in Caller : Construct(c) \/ Close(c) \/ Release(c)
  BY DEF BridgeNext, bridgeVars, clientVars, Listens, Crashes, Policy, Serves, App, CallIsTaken, CallIsRefused, Enters,
         Reply, ConnectionBreaks, Continue
<1>6. QED BY <1>1, <1>2, <1>3, <1>4, <1>5

-----------------------------------------------------------------------------
\* What a step of c, or of another, leaves alone of the call of d.
Unmoved(d) ==
  /\ at'[d] = at[d] /\ level'[d] = level[d] /\ answer'[d] = answer[d] /\ wrote'[d] = wrote[d]
  /\ call'[d] = call[d] /\ value'[d] = value[d] /\ outcome'[d] = outcome[d]
  /\ during[d] \subseteq during'[d]
  /\ at[d] \in {"Size", "Data"} => registry' \in during'[d]

LEMMA Unmoving ==
  ASSUME NEW d \in Caller, CallInv(d), Unmoved(d)
  PROVE  CallInv(d)'
<1>1. ASSUME NEW hr, NEW v, Told(d, hr, v)
      PROVE  /\ call'[d] = "SetLevel" /\ hr = "S_OK" =>
                  wrote'[d] = v /\ v \in MinTelemetryLevel .. MaxTelemetryLevel
             /\ call'[d] = "SetLevel" /\ hr \in ServerError => wrote'[d] = Missing
             /\ call'[d] = "GetLevel" /\ hr = "S_OK" => \E x \in during'[d] : v = LevelOf(x)
  BY <1>1 DEF Told, Unmoved
<1>2. at'[d] = "Answered" => Told(d, answer[d], level[d])'
  BY <1>1 DEF CallInv, Unmoved, Told
<1>3. outcome'[d] # "none" => Told(d, outcome[d], value[d])'
  BY <1>1 DEF CallInv, Unmoved, Told
<1>4. QED BY <1>2, <1>3 DEF CallInv, Unmoved

LEMMA StoreUnmoves ==
  ASSUME ClientInv, NEW d \in Caller, NEW v, Store(v)
  PROVE  /\ during[d] \subseteq during'[d]
         /\ at[d] \in {"Size", "Data"} => registry' \in during'[d]
BY DEF Store, ClientInv, BridgeTypeOK, TelemetryTypeOK

\* A thread of the service.
LEMMA ServesCall ==
  ASSUME ClientInv, NEW c \in Caller, Serves(c)
  PROVE  CallInv(c)' /\ \A d \in Caller \ {c} : Unmoved(d)
<1>0. CallInv(c) /\ BridgeTypeOK /\ TelemetryTypeOK /\ \A d \in Caller : CallInv(d)
  BY DEF ClientInv, BridgeTypeOK
<1>00. UNCHANGED <<call, value, outcome>>
  BY DEF Serves, clientVars
<1>1. CASE WriteLevel(c)
  <2>1. \A d \in Caller \ {c} : Unmoved(d)
    BY <1>0, <1>00, <1>1, StoreUnmoves DEF WriteLevel, Answer, Unmoved, TelemetryTypeOK
  <2>2. /\ at[c] = "Write" /\ at'[c] = "Answered" /\ answer'[c] = "S_OK" /\ wrote'[c] = level[c]
        /\ level' = level
    BY <1>0, <1>1 DEF WriteLevel, Answer, TelemetryTypeOK
  <2>3. QED BY <1>0, <1>00, <2>1, <2>2 DEF CallInv, Told, ServerError
<1>2. CASE ReadLevel(c)
  <2>1. \A d \in Caller \ {c} : Unmoved(d)
    BY <1>0, <1>00, <1>2 DEF ReadLevel, Answer, Unmoved, TelemetryTypeOK, CallInv
  <2>2. /\ at[c] = "Data" /\ at'[c] = "Answered" /\ answer'[c] = "S_OK"
        /\ registry # Missing /\ level'[c] = Cast(registry) /\ UNCHANGED <<during, wrote>>
    BY <1>0, <1>2 DEF ReadLevel, Answer, TelemetryTypeOK
  <2>3. QED BY <1>0, <1>00, <2>1, <2>2 DEF CallInv, Told, LevelOf
<1>3. CASE ReadFails(c)
  <2>1. \A d \in Caller \ {c} : Unmoved(d)
    BY <1>0, <1>00, <1>3 DEF ReadFails, Answer, Unmoved, TelemetryTypeOK, CallInv
  <2>2. /\ at[c] \in {"Size", "Data"} /\ at'[c] = "Answered" /\ answer'[c] = "S_OK"
        /\ level'[c] = level[c] /\ wrote' = wrote /\ Missing \in during'[c]
    BY <1>0, <1>3 DEF ReadFails, Answer, TelemetryTypeOK
  <2>3. QED BY <1>0, <1>00, <2>1, <2>2 DEF CallInv, Told, LevelOf
<1>4. CASE UNCHANGED <<registry, level, during, wrote>>
             /\ \/ CheckLevel(c) \/ InvalidLevel(c) \/ LockLevel(c) \/ WriteLevelFails(c)
                \/ ReadSize(c) \/ OtherProcedure(c)
  <2> USE <1>0, <1>00, <1>4 DEF TelemetryTypeOK, Moves, Answer
  <2>1. \A d \in Caller \ {c} : Unmoved(d)
    BY DEF Unmoved, CallInv, CheckLevel, InvalidLevel, LockLevel, WriteLevelFails, ReadSize,
           OtherProcedure
  <2>2. CASE CheckLevel(c)
    BY <2>1, <2>2 DEF CheckLevel, CallInv
  <2>3. CASE InvalidLevel(c)
    BY <2>1, <2>3 DEF InvalidLevel, CallInv, Told, ServerError
  <2>4. CASE LockLevel(c)
    BY <2>1, <2>4 DEF LockLevel, CallInv
  <2>5. CASE WriteLevelFails(c)
    BY <2>1, <2>5 DEF WriteLevelFails, CallInv, Told, ServerError
  <2>6. CASE ReadSize(c)
    BY <2>1, <2>6 DEF ReadSize, CallInv
  <2>7. CASE OtherProcedure(c)
    BY <2>1, <2>7 DEF OtherProcedure, CallInv, Told
  <2>8. QED BY <2>2, <2>3, <2>4, <2>5, <2>6, <2>7
<1>5. QED
  BY <1>1, <1>2, <1>4, <1>3 DEF Serves, TelemetryThread, CheckLevel, InvalidLevel, LockLevel,
     WriteLevelFails, ReadSize, OtherProcedure

\* An app: only CallIsTaken and Reply meet the service.
LEMMA AppCall ==
  ASSUME ClientInv, NEW c \in Caller, App(c)
  PROVE  CallInv(c)' /\ \A d \in Caller \ {c} : Unmoved(d)
<1>0. CallInv(c) /\ BridgeTypeOK /\ TelemetryTypeOK /\ \A d \in Caller : CallInv(d)
  BY DEF ClientInv, BridgeTypeOK
<1> USE <1>0 DEF BridgeTypeOK, TelemetryTypeOK
<1>1. CASE UNCHANGED <<telemetryVars, call, value, outcome>>
  <2>1. \A d \in Caller : Unmoved(d)
    BY <1>1 DEF Unmoved, telemetryVars, CallInv
  <2>2. QED BY <2>1, Unmoving
<1>2. CASE CallIsTaken(c)
  <2>0. PICK m \in Methods : \E v \in Parameter(m) : Enters(c, m, v) /\ Dispatch(c, EntryStep(m), v)
    BY <1>2 DEF CallIsTaken
  <2>1. PICK v \in Parameter(m) : Enters(c, m, v) /\ Dispatch(c, EntryStep(m), v)
    BY <2>0
  <2>2. /\ call[c] = "none" /\ call'[c] = m /\ value'[c] = v /\ outcome'[c] = "none"
        /\ at'[c] = EntryStep(m) /\ level'[c] = v /\ wrote'[c] = Missing /\ registry' = registry
        /\ during'[c] = IF EntryStep(m) = "Size" THEN {registry} ELSE {}
    BY <1>2, <2>1 DEF CallIsTaken, Enters, Idle, Dispatch, Moves, CallInv
  <2>3. \A d \in Caller \ {c} : Unmoved(d)
    BY <1>2, <2>1 DEF CallIsTaken, Enters, Dispatch, Moves, Unmoved, CallInv
  <2>4. m # "none"
    BY DEF Methods, Bridge, NTServiceBridge, ComputerNameBridge, TelemetryLevelBridge, TpmBridge,
           ShutdownMgmtBridge, UwpAppMgmtBridge
  <2>5. QED BY <2>2, <2>3, <2>4 DEF CallInv, EntryStep, Parameter
<1>3. CASE CallIsRefused(c)
  <2>0. PICK m \in Methods : \E v \in Parameter(m) : Enters(c, m, v)
    BY <1>3 DEF CallIsRefused
  <2>1. PICK v \in Parameter(m) : Enters(c, m, v)
    BY <2>0
  <2>2. /\ call[c] = "none" /\ call'[c] = m /\ outcome'[c] = "RPC_ERROR" /\ at'[c] = "none"
        /\ \A d \in Caller \ {c} : Unmoved(d)
    BY <1>3, <2>1 DEF CallIsRefused, Enters, Idle, RpcNormalize, telemetryVars, CallInv, Unmoved
  <2>3. m # "none"
    BY DEF Methods, Bridge, NTServiceBridge, ComputerNameBridge, TelemetryLevelBridge, TpmBridge,
           ShutdownMgmtBridge, UwpAppMgmtBridge
  <2>4. QED BY <2>2, <2>3 DEF CallInv, Told, ServerError
<1>4. CASE Reply(c)
  <2>1. /\ at[c] = "Answered" /\ at'[c] = "none" /\ call' = call /\ call[c] # "none"
        /\ outcome'[c] = RpcNormalize(answer[c])
        /\ value'[c] = IF call[c] = "GetLevel" THEN level[c] ELSE value[c]
        /\ UNCHANGED <<during, wrote>>
    BY <1>4 DEF Reply, InCall, Dismiss, Moves
  <2>2. \A d \in Caller \ {c} : Unmoved(d)
    BY <1>4 DEF Reply, Dismiss, Moves, Unmoved, CallInv
  <2>3. Told(c, outcome[c], value[c])'
    BY <2>1 DEF CallInv, Told, RpcNormalize, ServerError
  <2>4. QED BY <2>1, <2>2, <2>3 DEF CallInv
<1>5. CASE ConnectionBreaks(c)
  <2>1. /\ at'[c] = "none" /\ call' = call /\ call[c] # "none" /\ outcome'[c] = "RPC_ERROR"
        /\ \A d \in Caller \ {c} : Unmoved(d)
    BY <1>5 DEF ConnectionBreaks, InCall, RpcNormalize, telemetryVars, Unmoved, CallInv
  <2>2. QED BY <2>1 DEF CallInv, Told, ServerError
<1>6. CASE Continue(c)
  BY <1>6 DEF Continue, Forget, Unmoved, CallInv
<1>7. QED
  BY <1>1, <1>2, <1>3, <1>4, <1>5, <1>6 DEF App, Construct, Close, Release

LEMMA StepCalls == ASSUME ClientInv, [BridgeNext]_bridgeVars PROVE \A c \in Caller : CallInv(c)'
<1>0. BridgeTypeOK /\ TelemetryTypeOK /\ \A c \in Caller : CallInv(c)
  BY DEF ClientInv, BridgeTypeOK
<1>1. CASE UNCHANGED bridgeVars \/ Listens
  <2>1. \A d \in Caller : Unmoved(d)
    BY <1>0, <1>1 DEF bridgeVars, Listens, telemetryVars, clientVars, Unmoved, CallInv
  <2>2. QED BY <1>0, <2>1, Unmoving
<1>2. CASE Crashes
  BY <1>0, <1>2 DEF Crashes, ThreadsAreLost, CallInv, Told
<1>3. CASE Policy
  <2>1. PICK v : Store(v)
    BY <1>3 DEF Policy, OtherWrites
  <2>2. \A d \in Caller : Unmoved(d)
    BY <1>3, <2>1, StoreUnmoves DEF Policy, OtherWrites, clientVars, Unmoved
  <2>3. QED BY <1>0, <2>2, Unmoving
<1>4. ASSUME NEW c \in Caller, Serves(c) \/ App(c) PROVE \A d \in Caller : CallInv(d)'
  BY <1>0, <1>4, ServesCall, AppCall, Unmoving
<1>5. QED BY <1>1, <1>2, <1>3, <1>4 DEF BridgeNext

-----------------------------------------------------------------------------
\* The apps, their bindings and the threads of the service fit together.
THEOREM ClientInvariant == BridgeSpec => []ClientInv
<1>1. ClientInv /\ [BridgeNext]_bridgeVars => ClientInv'
  BY StepTypes, StepHandles, StepCalls DEF ClientInv
<1>2. QED BY <1>1, InitClientInv, PTL DEF BridgeSpec

\* The types of the variables: the cast of a DWORD is an INT32.
THEOREM ClientTypeCorrect == BridgeSpec => []BridgeTypeOK
<1>1. ClientInv => BridgeTypeOK
  BY DEF ClientInv
<1>2. QED BY <1>1, ClientInvariant, PTL

\* No object uses a freed binding, and no binding is lost but that of an object
\* released without a Close.
THEOREM HandlesAreOwnedAlways == BridgeSpec => []HandlesAreOwned
<1>1. ClientInv => HandlesAreOwned
  BY DEF ClientInv
<1>2. QED BY <1>1, ClientInvariant, PTL

\* What the app is told is what the service did, however the call ended.
THEOREM OutcomeTellsTheEffectAlways == BridgeSpec => []OutcomeTellsTheEffect
<1>1. ClientInv => OutcomeTellsTheEffect
  BY DEF ClientInv, CallInv, Told, OutcomeTellsTheEffect, ServerError
<1>2. QED BY <1>1, ClientInvariant, PTL

=============================================================================
