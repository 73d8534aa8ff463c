------------------------- MODULE DMBridgeService -------------------------
(***************************************************************************)
(* The hosting of the RPC server: the service control manager (SCM) starts *)
(* a process of DMBridge.exe, ServiceMain spawns a worker thread that      *)
(* sets the RPC server up and listens, the control dispatcher runs the     *)
(* stop handler, and clients call the APIs.  An administrator may also run *)
(* "DMBridge.exe -console", so that several processes compete for the one  *)
(* machine-wide RPC endpoint.                                              *)
(*                                                                         *)
(* Three threads of a process p appear as program counters: main[p] is the *)
(* thread in ServiceMain/Start, handler[p] the dispatcher thread in        *)
(* ServiceCtrlHandler/Stop, worker[p] the thread in ServiceWorkerThread    *)
(* (or, with -console, the main thread itself).  Process identifiers are   *)
(* reused: a process that has died can be launched again.                  *)
(*                                                                         *)
(* External, modelled from how the code uses it: the SCM (it passes STOP   *)
(* on only to a service it shows as RUNNING, one control at a time) and    *)
(* the RPC runtime (an endpoint has one owner).                            *)
(***************************************************************************)

CONSTANTS
  Process,      \* identities of DMBridge.exe processes
  Client,       \* client threads that call the APIs
  Interface,    \* the RPC interfaces a configuration can name
  NoProcess     \* "no process"

ASSUME NoProcessAssumption == NoProcess \notin Process

VARIABLES
  scm,            \* the state of the service as the SCM shows it
  owner,          \* the process that hosts the service
  mode,           \* how each process was launched
  status,         \* _status.dwCurrentState of each process
  original,       \* originalState, the local of Stop()
  main,           \* where Start() is
  handler,        \* where Stop() is
  worker,         \* where ServiceWorkerThread() is
  config,         \* the interfaces of _config, read by LoadConfiguration
  registered,     \* the interfaces registered with the runtime
  stopListening,  \* RpcMgmtStopServerListening has been accepted
  endpoint,       \* the process that owns RPC_ENDPOINT
  autoListen,     \* the runtime's reading of RPC_IF_AUTOLISTEN, which stays:
                  \* TRUE when such an interface is served from its registration
                  \* to the death of the process, and RpcServerListen does not
                  \* wait for its calls
  serving         \* the process that executes each client's call

scmVars == <<scm, owner>>
statusVars == <<status, original>>
rpcVars == <<config, registered, stopListening, endpoint>>
vars == <<scm, owner, mode, status, original, main, handler, worker,
          config, registered, stopListening, endpoint, autoListen, serving>>

ServiceState == {"STOPPED", "START_PENDING", "RUNNING", "STOP_PENDING"}
Mode == {"none", "service", "console"}
StartStep == {"none", "Start", "OnStart", "Running", "done"}
StopStep == {"idle", "Stop", "OnStop", "Stopped", "Failed"}
WorkerStep == {"none", "Setup", "RegisterInterfaces", "Listen", "Listening", "done"}

TypeOK ==
  /\ scm \in ServiceState
  /\ owner \in Process \cup {NoProcess}
  /\ mode \in [Process -> Mode]
  /\ status \in [Process -> ServiceState]
  /\ original \in [Process -> ServiceState]
  /\ main \in [Process -> StartStep]
  /\ handler \in [Process -> StopStep]
  /\ worker \in [Process -> WorkerStep]
  /\ config \in [Process -> SUBSET Interface]
  /\ registered \in [Process -> SUBSET Interface]
  /\ stopListening \in [Process -> BOOLEAN]
  /\ endpoint \in Process \cup {NoProcess}
  /\ autoListen \in BOOLEAN
  /\ serving \in [Client -> Process \cup {NoProcess}]

Init ==
  /\ scm = "STOPPED"
  /\ owner = NoProcess
  /\ mode = [p \in Process |-> "none"]
  /\ status = [p \in Process |-> "START_PENDING"]
  /\ original = [p \in Process |-> "START_PENDING"]
  /\ main = [p \in Process |-> "none"]
  /\ handler = [p \in Process |-> "idle"]
  /\ worker = [p \in Process |-> "none"]
  /\ config = [p \in Process |-> {}]
  /\ registered = [p \in Process |-> {}]
  /\ stopListening = [p \in Process |-> FALSE]
  /\ endpoint = NoProcess
  /\ autoListen \in BOOLEAN
  /\ serving = [c \in Client |-> NoProcess]

-----------------------------------------------------------------------------
(* The life of a process.                                                  *)

\* Calls in flight in p.
InFlight(p) == {c \in Client : serving[c] = p}

\* p is gone, for whatever reason: the system takes back its endpoint and
\* its interfaces, its calls fail at their clients, and the SCM shows the
\* service as stopped if p was hosting it.
Die(p) ==
  /\ scm' = IF owner = p THEN "STOPPED" ELSE scm
  /\ owner' = IF owner = p THEN NoProcess ELSE owner
  /\ mode' = [mode EXCEPT ![p] = "none"]
  /\ status' = [status EXCEPT ![p] = "START_PENDING"]
  /\ original' = [original EXCEPT ![p] = "START_PENDING"]
  /\ main' = [main EXCEPT ![p] = "none"]
  /\ handler' = [handler EXCEPT ![p] = "idle"]
  /\ worker' = [worker EXCEPT ![p] = "none"]
  /\ config' = [config EXCEPT ![p] = {}]
  /\ registered' = [registered EXCEPT ![p] = {}]
  /\ stopListening' = [stopListening EXCEPT ![p] = FALSE]
  /\ endpoint' = IF endpoint = p THEN NoProcess ELSE endpoint
  /\ serving' = [c \in Client |-> IF serving[c] = p THEN NoProcess ELSE serving[c]]

\* The process is killed, or the machine goes down.  SERVICE_CONTROL_SHUTDOWN
\* adds nothing to this: its handler is empty, so the process lives on until
\* the system kills it.
Kill(p) == mode[p] # "none" /\ Die(p)

\* The SCM launches the service.  wmain has read the configuration before
\* it calls Run, whatever the configuration holds.
StartService(p) ==
  /\ scm = "STOPPED"
  /\ mode[p] = "none"
  /\ scm' = "START_PENDING"
  /\ owner' = p
  /\ mode' = [mode EXCEPT ![p] = "service"]
  /\ main' = [main EXCEPT ![p] = "Start"]
  /\ \E apis \in SUBSET Interface : config' = [config EXCEPT ![p] = apis]
  /\ UNCHANGED <<statusVars, handler, worker, registered, stopListening,
                 endpoint, serving>>

\* DMBridge.exe -console: Setup and Listen on the main thread.
StartConsole(p) ==
  /\ mode[p] = "none"
  /\ mode' = [mode EXCEPT ![p] = "console"]
  /\ worker' = [worker EXCEPT ![p] = "Setup"]
  /\ \E apis \in SUBSET Interface : config' = [config EXCEPT ![p] = apis]
  /\ UNCHANGED <<scmVars, statusVars, main, handler, registered, stopListening,
                 endpoint, serving>>

\* The destructor of _workerThread joins the worker.
Joined(p) == worker[p] = "done"

\* Once the SCM shows STOPPED the dispatcher returns, Run returns, and wmain
\* with them, but not before the service object is destroyed.
Exit(p) ==
  /\ mode[p] = "service" /\ status[p] = "STOPPED"
  /\ main[p] = "done" /\ handler[p] = "idle"
  /\ Joined(p)
  /\ Die(p)

-----------------------------------------------------------------------------
(* ServiceMain -> Start().                                                 *)

\* SetServiceStatus(state): the process's record, then the SCM's.
SetServiceStatus(p, state) ==
  /\ status' = [status EXCEPT ![p] = state]
  /\ scm' = IF owner = p THEN state ELSE scm

\* Mutant: the service is reported as running before anything is started.
Start_RunningAtOnce(p) ==
  /\ main[p] = "Start"
  /\ SetServiceStatus(p, "RUNNING")
  /\ main' = [main EXCEPT ![p] = "OnStart"]
  /\ UNCHANGED <<owner, mode, original, handler, worker, rpcVars, serving>>

Start(p) ==
  /\ main[p] = "Start"
  /\ SetServiceStatus(p, "START_PENDING")
  /\ main' = [main EXCEPT ![p] = "OnStart"]
  /\ UNCHANGED <<owner, mode, original, handler, worker, rpcVars, serving>>

\* OnStart() only spawns the worker.
OnStart(p) ==
  /\ main[p] = "OnStart"
  /\ main' = [main EXCEPT ![p] = "Running"]
  /\ worker' = [worker EXCEPT ![p] = "Setup"]
  /\ UNCHANGED <<scmVars, mode, statusVars, handler, rpcVars, serving>>

\* The thread cannot be created: std::system_error passes the catch in
\* Start() and leaves ServiceMain.
OnStartFails(p) == main[p] = "OnStart" /\ Die(p)

Started(p) ==
  /\ main[p] = "Running"
  /\ SetServiceStatus(p, "RUNNING")
  /\ main' = [main EXCEPT ![p] = "done"]
  /\ UNCHANGED <<owner, mode, original, handler, worker, rpcVars, serving>>

-----------------------------------------------------------------------------
(* The worker: DMBridgeServer::Setup() and Listen().                       *)

\* Mutant: the status of RpcServerUseProtseqEp is not looked at.
Setup_IgnoresStatus(p) ==
  /\ worker[p] = "Setup"
  /\ endpoint' = IF endpoint = NoProcess THEN p ELSE endpoint
  /\ worker' = [worker EXCEPT ![p] = "RegisterInterfaces"]
  /\ UNCHANGED <<scmVars, mode, statusVars, main, handler, config, registered,
                 stopListening, serving>>

Setup(p) ==
  /\ worker[p] = "Setup"
  /\ endpoint = NoProcess
  /\ endpoint' = p
  /\ worker' = [worker EXCEPT ![p] = "RegisterInterfaces"]
  /\ UNCHANGED <<scmVars, mode, statusVars, main, handler, config, registered,
                 stopListening, serving>>

\* Any call that builds the descriptor of the endpoint fails, or the capability
\* has not exactly one SID: Setup rethrows before it has touched the runtime,
\* nothing on the worker's stack catches, and the process ends.
GenerateSecurityDescriptorFails(p) == worker[p] = "Setup" /\ Die(p)

\* RpcServerUseProtseqEp finds the endpoint taken, or fails otherwise.
SetupFails(p) == worker[p] = "Setup" /\ Die(p)

RegisterInterface(p) ==
  /\ worker[p] = "RegisterInterfaces"
  /\ \E i \in config[p] \ registered[p] :
       registered' = [registered EXCEPT ![p] = @ \cup {i}]
  /\ UNCHANGED <<scmVars, mode, statusVars, main, handler, worker, config,
                 stopListening, endpoint, serving>>

\* Mutant: the loop breaks off at a failure and Setup returns normally.
RegisterInterfaceFails_Goes(p) ==
  /\ worker[p] = "RegisterInterfaces"
  /\ config[p] # registered[p]
  /\ worker' = [worker EXCEPT ![p] = "Listen"]
  /\ UNCHANGED <<scmVars, mode, statusVars, main, handler, rpcVars, serving>>

RegisterInterfaceFails(p) ==
  /\ worker[p] = "RegisterInterfaces"
  /\ config[p] # registered[p]
  /\ Die(p)

\* Mutant: Setup comes back only when it has registered something.
InterfacesRegistered_NeedsOne(p) ==
  /\ worker[p] = "RegisterInterfaces"
  /\ config[p] = registered[p] /\ registered[p] # {}
  /\ worker' = [worker EXCEPT ![p] = "Listen"]
  /\ UNCHANGED <<scmVars, mode, statusVars, main, handler, rpcVars, serving>>

\* The loop is over, and Setup with it.
InterfacesRegistered(p) ==
  /\ worker[p] = "RegisterInterfaces"
  /\ config[p] = registered[p]
  /\ worker' = [worker EXCEPT ![p] = "Listen"]
  /\ UNCHANGED <<scmVars, mode, statusVars, main, handler, rpcVars, serving>>

\* RpcServerListen blocks until listening is stopped.
Listen(p) ==
  /\ worker[p] = "Listen"
  /\ worker' = [worker EXCEPT ![p] = "Listening"]
  /\ UNCHANGED <<scmVars, mode, statusVars, main, handler, rpcVars, serving>>

ListenFails(p) == worker[p] = "Listen" /\ Die(p)

\* Mutant: the wait for the end of listening includes the registered interfaces.
ListenReturns_WaitsForInterfaces(p) ==
  /\ worker[p] = "Listening"
  /\ stopListening[p] /\ registered[p] = {}
  /\ worker' = [worker EXCEPT ![p] = "done"]
  /\ UNCHANGED <<scmVars, mode, statusVars, main, handler, rpcVars, serving>>

ListenReturns(p) ==
  /\ worker[p] = "Listening"
  /\ stopListening[p]
  /\ autoListen \/ InFlight(p) = {}
  /\ worker' = [worker EXCEPT ![p] = "done"]
  /\ UNCHANGED <<scmVars, mode, statusVars, main, handler, rpcVars, serving>>

-----------------------------------------------------------------------------
(* ServiceCtrlHandler -> Stop().                                           *)

\* ControlService(SERVICE_CONTROL_STOP), from any administrator.
StopControl(p) ==
  /\ scm = "RUNNING" /\ owner = p
  /\ handler[p] = "idle"
  /\ handler' = [handler EXCEPT ![p] = "Stop"]
  /\ UNCHANGED <<scmVars, mode, statusVars, main, worker, rpcVars, serving>>

\* Mutant: the listening is stopped before STOP_PENDING is reported.
Stop_ListeningFirst(p) ==
  /\ handler[p] = "Stop"
  /\ original' = [original EXCEPT ![p] = status[p]]
  /\ stopListening' = [stopListening EXCEPT ![p] = worker[p] = "Listening"]
  /\ handler' = [handler EXCEPT ![p] = "OnStop"]
  /\ UNCHANGED <<scmVars, mode, status, main, worker, config, registered,
                 endpoint, serving>>

Stop(p) ==
  /\ handler[p] = "Stop"
  /\ original' = [original EXCEPT ![p] = status[p]]
  /\ SetServiceStatus(p, "STOP_PENDING")
  /\ handler' = [handler EXCEPT ![p] = "OnStop"]
  /\ UNCHANGED <<owner, mode, main, worker, rpcVars, serving>>

OnStop(p) ==
  /\ handler[p] = "OnStop"
  /\ worker[p] = "Listening"
  /\ stopListening' = [stopListening EXCEPT ![p] = TRUE]
  /\ handler' = [handler EXCEPT ![p] = "Stopped"]
  /\ UNCHANGED <<scmVars, mode, statusVars, main, worker, config, registered,
                 endpoint, serving>>

\* Mutant: the status of RpcMgmtStopServerListening is not looked at.
OnStopFails_Unseen(p) ==
  /\ handler[p] = "OnStop"
  /\ worker[p] # "Listening"
  /\ handler' = [handler EXCEPT ![p] = "Stopped"]
  /\ UNCHANGED <<scmVars, mode, statusVars, main, worker, rpcVars, serving>>

\* RpcMgmtStopServerListening fails while the server does not listen yet, and
\* StopListening throws.
OnStopFails(p) ==
  /\ handler[p] = "OnStop"
  /\ worker[p] # "Listening"
  /\ handler' = [handler EXCEPT ![p] = "Failed"]
  /\ UNCHANGED <<scmVars, mode, statusVars, main, worker, rpcVars, serving>>

\* The SCM forgets the process with its STOPPED.
Stopped(p) ==
  /\ handler[p] = "Stopped"
  /\ SetServiceStatus(p, "STOPPED")
  /\ owner' = IF owner = p THEN NoProcess ELSE owner
  /\ handler' = [handler EXCEPT ![p] = "idle"]
  /\ UNCHANGED <<mode, original, main, worker, rpcVars, serving>>

\* Mutant: the catch only logs.
StopFailed_OnlyLogs(p) ==
  /\ handler[p] = "Failed"
  /\ handler' = [handler EXCEPT ![p] = "idle"]
  /\ UNCHANGED <<scmVars, mode, statusVars, main, worker, rpcVars, serving>>

\* Mutant: the state restored is the one the process was built with.
StopFailed_InitialState(p) ==
  /\ handler[p] = "Failed"
  /\ SetServiceStatus(p, "START_PENDING")
  /\ handler' = [handler EXCEPT ![p] = "idle"]
  /\ UNCHANGED <<owner, mode, original, main, worker, rpcVars, serving>>

StopFailed(p) ==
  /\ handler[p] = "Failed"
  /\ SetServiceStatus(p, original[p])
  /\ handler' = [handler EXCEPT ![p] = "idle"]
  /\ UNCHANGED <<owner, mode, original, main, worker, rpcVars, serving>>

-----------------------------------------------------------------------------
(* The calls.                                                              *)

\* The runtime dispatches calls of p: with autoListen as soon as an interface
\* is registered, otherwise while the server listens.
Accepts(p) ==
  /\ registered[p] # {}
  /\ autoListen \/ (worker[p] = "Listening" /\ ~stopListening[p])

Call(c) ==
  /\ serving[c] = NoProcess
  /\ endpoint # NoProcess
  /\ Accepts(endpoint)
  /\ serving' = [serving EXCEPT ![c] = endpoint]
  /\ UNCHANGED <<scmVars, mode, statusVars, main, handler, worker, rpcVars>>

Return(c) ==
  /\ serving[c] # NoProcess
  /\ serving' = [serving EXCEPT ![c] = NoProcess]
  /\ UNCHANGED <<scmVars, mode, statusVars, main, handler, worker, rpcVars>>

-----------------------------------------------------------------------------
StartThread(p) == Start(p) \/ OnStart(p) \/ OnStartFails(p) \/ Started(p)

WorkerThread(p) ==
  \/ Setup(p) \/ GenerateSecurityDescriptorFails(p) \/ SetupFails(p)
  \/ RegisterInterface(p) \/ RegisterInterfaceFails(p) \/ InterfacesRegistered(p)
  \/ Listen(p) \/ ListenFails(p) \/ ListenReturns(p)

HandlerThread(p) ==
  Stop(p) \/ OnStop(p) \/ OnStopFails(p) \/ Stopped(p) \/ StopFailed(p)

Next ==
  /\ \/ \E p \in Process :
          \/ StartService(p) \/ StartConsole(p) \/ StopControl(p)
          \/ StartThread(p) \/ WorkerThread(p) \/ HandlerThread(p)
          \/ Exit(p) \/ Kill(p)
     \/ \E c \in Client : Call(c) \/ Return(c)
  /\ UNCHANGED autoListen

Spec == Init /\ [][Next]_vars

-----------------------------------------------------------------------------
(* What the hosting promises.                                              *)

\* A process goes on past Setup only as the owner of the endpoint, so that of
\* several that overlap (a console beside the service, an old process that
\* drains while its successor starts) one at most comes to listen, and a
\* RUNNING service never listens where no client can reach it.
ListenerOwnsEndpoint ==
  \A p \in Process :
    worker[p] \in {"RegisterInterfaces", "Listen", "Listening", "done"} => endpoint = p

\* A service that the SCM shows as RUNNING has not been told to stop
\* listening: Stop() restores the old state only when StopListening threw, so
\* a failed stop leaves a server that still serves.
RunningIsNotStopping ==
  scm = "RUNNING" => owner # NoProcess /\ ~stopListening[owner]

\* A process that has reported STOPPED has had its listening stopped, so that
\* the join before its exit cannot wait for a listener nobody will stop.
StoppedHasStopped ==
  \A p \in Process : status[p] = "STOPPED" => stopListening[p] /\ handler[p] = "idle"

\* Start() and Stop() write _status without a lock.  They never run at the
\* same time in a process, and a stop never saves a state other than RUNNING.
NoStatusRace ==
  \A p \in Process :
    handler[p] # "idle" =>
      /\ main[p] = "done"
      /\ handler[p] # "Stop" => original[p] = "RUNNING"

\* A server that listens serves exactly the interfaces of its configuration:
\* a registration that fails never leaves a server running with a part of them.
ListeningIsComplete ==
  \A p \in Process :
    worker[p] \in {"Listen", "Listening", "done"} => registered[p] = config[p]

\* The SCM sees the states in the order its protocol asks for, except that the
\* death of the process shows as STOPPED from every state.
StatusProtocol ==
  [][ \/ scm' = "STOPPED"
      \/ scm = "STOPPED" /\ scm' = "START_PENDING"
      \/ scm = "START_PENDING" /\ scm' = "RUNNING"
      \/ scm = "RUNNING" /\ scm' = "STOP_PENDING"
      \/ scm = "STOP_PENDING" /\ scm' = "RUNNING" ]_scm

\* RUNNING is reported before the worker has set anything up, yet a RUNNING
\* service does come to listen, or ceases to be shown as RUNNING.
RunningLeadsToListening ==
  scm = "RUNNING" ~> (scm # "RUNNING" \/ worker[owner] = "Listening")

\* A process whose listening has been stopped goes away: its worker returns,
\* and the join in the destructor does not keep it for ever.
StoppedProcessExits ==
  \A p \in Process : stopListening[p] ~> mode[p] = "none"

-----------------------------------------------------------------------------
(* The inductive invariant behind the safety properties.                   *)

\* A process that is not (or no longer) a service hosts nothing, and nothing
\* runs in a process that has not been launched.
Unhosted(p) ==
  mode[p] # "service" =>
    /\ main[p] = "none" /\ handler[p] = "idle"
    /\ status[p] = "START_PENDING"
    /\ ~stopListening[p]
    /\ owner # p
    /\ mode[p] = "none" => worker[p] = "none"

Starting(p) ==
  /\ main[p] \in {"Start", "OnStart", "Running"} /\ handler[p] = "idle"
  /\ status[p] = "START_PENDING" /\ owner = p /\ ~stopListening[p]

Running(p) ==
  /\ main[p] = "done" /\ handler[p] \in {"idle", "Stop"}
  /\ status[p] = "RUNNING" /\ owner = p /\ ~stopListening[p]

Stopping(p) ==
  /\ main[p] = "done" /\ handler[p] \in {"OnStop", "Failed", "Stopped"}
  /\ status[p] = "STOP_PENDING" /\ original[p] = "RUNNING" /\ owner = p
  /\ stopListening[p] <=> handler[p] = "Stopped"

\* STOPPED has been reported; the worker may still have to return.
Draining(p) ==
  /\ main[p] = "done" /\ handler[p] = "idle"
  /\ status[p] = "STOPPED" /\ owner # p /\ stopListening[p]

Lifecycle ==
  /\ \A p \in Process :
       /\ Unhosted(p)
       /\ mode[p] = "service" =>
            Starting(p) \/ Running(p) \/ Stopping(p) \/ Draining(p)
       /\ owner = p => scm = status[p]
  /\ owner = NoProcess <=> scm = "STOPPED"

=============================================================================
