----------------------- MODULE DMBridgeDeployment ------------------------
(***************************************************************************)
(* DMBridge.exe -install and -uninstall beside the running service: the    *)
(* SCM's database entry, the binary it names, and the uninstaller, which   *)
(* sends STOP, polls, and deletes.                                         *)
(***************************************************************************)
EXTENDS DMBridgeService

VARIABLES
  entry,          \* the service is in the database
  deletePending,  \* the entry is marked for deletion
  uninstall,      \* where Uninstall() is
  ssSvcStatus,    \* its local: the state that was copied to it last
  told,           \* "Stopped." or "Error: Failed to stop."
  target          \* the living process its STOP was sent to

deployVars == <<entry, deletePending, uninstall, ssSvcStatus, told, target>>
allVars == <<vars, deployVars>>

UninstallStep == {"none", "ControlService", "Waiting", "Query", "DeleteService"}

DeployTypeOK ==
  /\ TypeOK
  /\ entry \in BOOLEAN
  /\ deletePending \in BOOLEAN
  /\ uninstall \in UninstallStep
  /\ ssSvcStatus \in ServiceState \cup {"none"}
  /\ told \in {"none", "Stopped", "Failed"}
  /\ target \in Process \cup {NoProcess}

DeployInit ==
  /\ Init
  /\ entry = FALSE
  /\ deletePending = FALSE
  /\ uninstall = "none"
  /\ ssSvcStatus = "none"
  /\ told = "none"
  /\ target = NoProcess

-----------------------------------------------------------------------------
\* CreateService; it fails when the service exists, marked or not, so that the
\* entry keeps naming the binary it was made for.
Install ==
  /\ entry' = TRUE
  /\ UNCHANGED <<vars, deletePending, uninstall, ssSvcStatus, told, target>>

\* OpenService.
Uninstall ==
  /\ uninstall = "none"
  /\ entry /\ ~deletePending
  /\ uninstall' = "ControlService"
  /\ UNCHANGED <<vars, entry, deletePending, ssSvcStatus, told, target>>

\* The call comes back when the handler does (see Beside).
ControlService ==
  /\ uninstall = "ControlService"
  /\ \E p \in Process : StopControl(p) /\ target' = p
  /\ uninstall' = "Waiting"
  /\ UNCHANGED <<autoListen, entry, deletePending, ssSvcStatus, told>>

\* The SCM refuses the control to a service that is not RUNNING, and the call
\* may fail for any other reason or time out; Uninstall goes on.
ControlServiceFails ==
  /\ uninstall \in {"ControlService", "Waiting"}
  /\ uninstall' = "DeleteService"
  /\ UNCHANGED <<vars, entry, deletePending, ssSvcStatus, told, target>>

\* The loop is over, and the administrator reads what became of the stop.
LoopEnds(state) ==
  /\ told' = IF state = "STOPPED" THEN "Stopped" ELSE "Failed"
  /\ uninstall' = "DeleteService"
  /\ UNCHANGED <<vars, entry, deletePending, target>>

\* Mutant: whatever ends the loop is taken for the end of the service.
QueryServiceStatus_AnyIsStopped ==
  /\ uninstall = "Query"
  /\ scm # "STOP_PENDING"
  /\ ssSvcStatus' = scm
  /\ LoopEnds("STOPPED")

\* A query that shows anything but STOP_PENDING ends the loop.
QueryServiceStatus ==
  /\ uninstall = "Query"
  /\ scm # "STOP_PENDING"
  /\ ssSvcStatus' = scm
  /\ LoopEnds(scm)

StopIsPending ==
  /\ uninstall = "Query"
  /\ scm = "STOP_PENDING"
  /\ ssSvcStatus' = scm
  /\ UNCHANGED <<vars, entry, deletePending, uninstall, told, target>>

\* So does a query that fails, and the state copied last is the one told.
QueryServiceStatusFails ==
  /\ uninstall = "Query"
  /\ LoopEnds(ssSvcStatus)
  /\ UNCHANGED ssSvcStatus

\* Whether or not it succeeds, this is the end of the command.
DeleteService ==
  /\ uninstall = "DeleteService"
  /\ deletePending' \in {deletePending, TRUE}
  /\ uninstall' = "none"
  /\ ssSvcStatus' = "none"
  /\ told' = "none"
  /\ target' = NoProcess
  /\ UNCHANGED <<vars, entry>>

\* The SCM drops a marked entry once the service is stopped.
RemoveEntry ==
  /\ deletePending /\ scm = "STOPPED"
  /\ entry' = FALSE
  /\ deletePending' = FALSE
  /\ UNCHANGED <<vars, uninstall, ssSvcStatus, told, target>>

\* ControlService returns, with the state the service has then, when the handler
\* does or the process is gone.
ControlServiceReturns == uninstall = "Waiting" /\ handler'[target] = "idle"

\* What a step of the hosting means to the deployment: only an installed service
\* can be started, and a process that was sent a STOP may be gone.
Beside ==
  /\ scm = "STOPPED" /\ scm' = "START_PENDING" => entry /\ ~deletePending
  /\ target' = IF target # NoProcess /\ mode'[target] = "none" THEN NoProcess ELSE target
  /\ IF ControlServiceReturns
     THEN uninstall' = "Query" /\ ssSvcStatus' = scm'
     ELSE UNCHANGED <<uninstall, ssSvcStatus>>
  /\ UNCHANGED <<autoListen, entry, deletePending, told>>

Hosting == Next /\ Beside

Uninstaller ==
  \/ ControlService \/ ControlServiceFails
  \/ QueryServiceStatus \/ StopIsPending \/ QueryServiceStatusFails
  \/ DeleteService

DeployNext ==
  \/ Install \/ Uninstall \/ Uninstaller \/ RemoveEntry
  \/ Hosting

DeploySpec == DeployInit /\ [][DeployNext]_allVars

\* Threads run and calls return.  The uninstaller runs too; its queries show what
\* the service is when they are made, and nothing obliges them, or ControlService,
\* to fail, but that a service which cannot be stopped refuses the control.
DeployFairSpec ==
  /\ DeploySpec
  /\ \A p \in Process :
       /\ WF_allVars(StartThread(p) /\ Beside)
       /\ WF_allVars(WorkerThread(p) /\ Beside)
       /\ WF_allVars(HandlerThread(p) /\ Beside)
       /\ WF_allVars(Exit(p) /\ Beside)
  /\ \A c \in Client : WF_allVars(Return(c) /\ Beside)
  /\ WF_allVars(uninstall = "ControlService" /\ (ControlService \/ ControlServiceFails))
  /\ WF_allVars(QueryServiceStatus)
  /\ WF_allVars(DeleteService)

-----------------------------------------------------------------------------
\* docs/dm-deployment.md of -uninstall: "This command will also stop the
\* service, if it is running, before removing it."  The process that ran when
\* the STOP was sent does not host the service any more when the loop ends.
UninstallStopsFirst ==
  [][uninstall = "Query" /\ uninstall' = "DeleteService"
       => target = NoProcess \/ owner # target]_allVars

\* The process that was sent the STOP is gone, or it has reported STOPPED.
Gone == target = NoProcess \/ Draining(target)

\* "Stopped." is true of the process that was sent the STOP: it is gone, or its
\* listening has ended and only its exit is left.  This holds although the state
\* told may be an old one, a stop may fail, and others start and stop the service
\* between the queries.
ToldStoppedIsStopped ==
  told = "Stopped" => target = NoProcess \/ (stopListening[target] /\ owner # target)

\* Nothing is copied before ControlService has returned, and what was copied last is
\* STOPPED only if that process was gone then.
CopiedStatus ==
  /\ ssSvcStatus = "STOPPED" \/ told = "Stopped" => Gone
  /\ uninstall \in {"none", "ControlService", "Waiting"} => ssSvcStatus = "none" /\ told = "none"

\* An uninstall ends, unless others bring the service to STOP_PENDING and out of it
\* again for ever: the loop does not wait for a service that stays in STOP_PENDING,
\* because a failed stop restores the old state and a crash shows as STOPPED.
UninstallEnds ==
  \/ []<>(uninstall = "none")
  \/ ([]<>(scm = "STOP_PENDING") /\ []<>(scm # "STOP_PENDING"))

=============================================================================
