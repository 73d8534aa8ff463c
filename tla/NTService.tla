---------------------------- MODULE NTService ----------------------------
(***************************************************************************)
(* The ServiceManager API (class NTService) over ServiceManager and the    *)
(* service control manager: Start, Stop, Query and SetStartMode, called by *)
(* several clients at once while the services change state.  Start and     *)
(* Stop query the state, decide on what they saw, and only then act.       *)
(*                                                                         *)
(* A name is a record: its length, the classes of its characters, and the  *)
(* service it means, names being compared without case.                    *)
(***************************************************************************)
EXTENDS Naturals

CONSTANTS
  Client,     \* threads that execute a client's call
  Service,    \* the services of the machine
  Name,       \* the names clients pass
  NoName,     \* no call
  StartType,  \* the start types a service can have
  Whitelist   \* NTServiceConfig::_whitelist, folded; {} if there is no config

MaxServiceNameLength == 256
CharClass == {"control", "slash", "other"}

ASSUME NoNameAssumption == NoName \notin Name
ASSUME NameAssumption == \A n \in Name : n.length \in Nat /\ n.chars \subseteq CharClass

ServiceState == {"STOPPED", "START_PENDING", "RUNNING", "PAUSED", "STOP_PENDING"}
Op == {"Start", "Stop", "Query", "SetStartMode"}

VARIABLES
  state,      \* SCM: the state of each service
  startType,  \* SCM: its start type
  pc,         \* where each call is
  op,         \* what it was asked to do
  name,       \* serviceName
  seen,       \* serviceStatus.dwCurrentState
  result      \* what the call is about to return

scm == <<state, startType>>
args == <<op, name>>
vars == <<state, startType, pc, op, name, seen, result>>

Step == {"idle", "Open", "QueryStatus", "Decide", "StartService", "ControlService", "ChangeConfig", "Return"}
Result == {"pending", "S_OK", "ERROR", "INVALID_NAME", "ACCESS_DENIED"} \cup ServiceState

TypeOK ==
  /\ state \in [Service -> ServiceState]
  /\ startType \in [Service -> StartType]
  /\ pc \in [Client -> Step]
  /\ op \in [Client -> Op]
  /\ name \in [Client -> Name \cup {NoName}]
  /\ seen \in [Client -> ServiceState]
  /\ result \in [Client -> Result]

Init ==
  /\ state \in [Service -> ServiceState]
  /\ startType \in [Service -> StartType]
  /\ pc = [c \in Client |-> "idle"]
  /\ op = [c \in Client |-> "Query"]
  /\ name = [c \in Client |-> NoName]
  /\ seen = [c \in Client |-> "STOPPED"]
  /\ result = [c \in Client |-> "pending"]

IsValidName(n) == n.chars = {"other"}
IsWhitelisted(n) == n.service \in Whitelist

\* Mutant: Stop is validated like Query.
ValidateNameArgument_StopFree(n, o) ==
  IF n.length = 0 \/ n.length > MaxServiceNameLength \/ ~IsValidName(n) THEN "INVALID_NAME"
  ELSE IF o = "Start" /\ ~IsWhitelisted(n) THEN "ACCESS_DENIED"
  ELSE "S_OK"

\* The whitelist is enforced for Start and Stop.
ValidateNameArgument(n, o) ==
  IF n.length = 0 \/ n.length > MaxServiceNameLength \/ ~IsValidName(n) THEN "INVALID_NAME"
  ELSE IF o \in {"Start", "Stop"} /\ ~IsWhitelisted(n) THEN "ACCESS_DENIED"
  ELSE "S_OK"

Goto(c, step) == pc' = [pc EXCEPT ![c] = step]
At(c, step) == pc[c] = step
Target(c) == name[c].service

\* The call is about to return r.
Finish(c, r) ==
  /\ Goto(c, "Return")
  /\ result' = [result EXCEPT ![c] = r]

-----------------------------------------------------------------------------
Request(c) ==
  /\ At(c, "idle")
  /\ \E o \in Op, n \in Name :
       /\ ValidateNameArgument(n, o) = "S_OK"
       /\ op' = [op EXCEPT ![c] = o]
       /\ name' = [name EXCEPT ![c] = n]
  /\ Goto(c, "Open")
  /\ UNCHANGED <<scm, seen, result>>

Refuse(c) ==
  /\ At(c, "idle")
  /\ \E o \in Op, n \in Name :
       /\ ValidateNameArgument(n, o) # "S_OK"
       /\ Finish(c, ValidateNameArgument(n, o))
  /\ UNCHANGED <<scm, args, seen>>

\* OpenSCManager and OpenService.
Open(c) ==
  /\ At(c, "Open")
  /\ Target(c) \in Service
  /\ Goto(c, IF op[c] = "SetStartMode" THEN "ChangeConfig" ELSE "QueryStatus")
  /\ UNCHANGED <<scm, args, seen, result>>

\* Mutant: the code of the exception is returned as it is, and may be 0.
Throws_ZeroIsSuccess(c) ==
  /\ pc[c] \in {"Open", "QueryStatus", "StartService", "ControlService", "ChangeConfig"}
  /\ Finish(c, "S_OK")
  /\ UNCHANGED <<scm, args, seen>>

\* Any call of the SCM may fail: the exception becomes an error code.
Throws(c) ==
  /\ pc[c] \in {"Open", "QueryStatus", "StartService", "ControlService", "ChangeConfig"}
  /\ Finish(c, "ERROR")
  /\ UNCHANGED <<scm, args, seen>>

QueryServiceStatus(c) ==
  /\ At(c, "QueryStatus")
  /\ seen' = [seen EXCEPT ![c] = state[Target(c)]]
  /\ Goto(c, "Decide")
  /\ UNCHANGED <<scm, args, result>>

\* What was seen is used once.
Forget(c) == seen' = [seen EXCEPT ![c] = "STOPPED"]

GetStatus(c) ==
  /\ At(c, "Decide") /\ op[c] = "Query"
  /\ Finish(c, seen[c])
  /\ Forget(c)
  /\ UNCHANGED <<scm, args>>

DecideStart(c) ==
  /\ At(c, "Decide") /\ op[c] = "Start"
  /\ IF seen[c] = "RUNNING"
     THEN Finish(c, "S_OK")
     ELSE Goto(c, "StartService") /\ UNCHANGED result
  /\ Forget(c)
  /\ UNCHANGED <<scm, args>>

DecideStop(c) ==
  /\ At(c, "Decide") /\ op[c] = "Stop"
  /\ IF seen[c] # "RUNNING"
     THEN Finish(c, "S_OK")
     ELSE Goto(c, "ControlService") /\ UNCHANGED result
  /\ Forget(c)
  /\ UNCHANGED <<scm, args>>

\* The SCM starts a stopped service that is not disabled; otherwise Throws.
StartService(c) ==
  /\ At(c, "StartService")
  /\ state[Target(c)] = "STOPPED" /\ startType[Target(c)] # "DISABLED"
  /\ state' = [state EXCEPT ![Target(c)] = "START_PENDING"]
  /\ Finish(c, "S_OK")
  /\ UNCHANGED <<startType, args, seen>>

\* The SCM stops a running or paused service; otherwise Throws.
ControlService(c) ==
  /\ At(c, "ControlService")
  /\ state[Target(c)] \in {"RUNNING", "PAUSED"}
  /\ state' = [state EXCEPT ![Target(c)] = "STOP_PENDING"]
  /\ Finish(c, "S_OK")
  /\ UNCHANGED <<startType, args, seen>>

\* The mode is an INT32 that goes to the SCM as it is: the SCM takes a start
\* type, leaves it alone for SERVICE_NO_CHANGE, and refuses the rest (Throws).
ChangeServiceConfig(c) ==
  /\ At(c, "ChangeConfig")
  /\ \/ \E mode \in StartType : startType' = [startType EXCEPT ![Target(c)] = mode]
     \/ UNCHANGED startType
  /\ Finish(c, "S_OK")
  /\ UNCHANGED <<state, args, seen>>

Return(c) ==
  /\ At(c, "Return")
  /\ Goto(c, "idle")
  /\ op' = [op EXCEPT ![c] = "Query"]
  /\ name' = [name EXCEPT ![c] = NoName]
  /\ result' = [result EXCEPT ![c] = "pending"]
  /\ UNCHANGED <<scm, seen>>

-----------------------------------------------------------------------------
\* The services come up, go down, pause, resume and fail by themselves.
Move ==
  {<<"START_PENDING", "RUNNING">>, <<"START_PENDING", "STOPPED">>, <<"RUNNING", "PAUSED">>,
   <<"PAUSED", "RUNNING">>, <<"RUNNING", "STOPPED">>, <<"STOP_PENDING", "STOPPED">>}

ServiceMoves(s) ==
  /\ \E to \in ServiceState :
       /\ <<state[s], to>> \in Move
       /\ state' = [state EXCEPT ![s] = to]
  /\ UNCHANGED <<startType, pc, args, seen, result>>

Next ==
  \/ \E c \in Client :
       \/ Request(c) \/ Refuse(c) \/ Open(c) \/ Throws(c) \/ QueryServiceStatus(c)
       \/ GetStatus(c) \/ DecideStart(c) \/ DecideStop(c)
       \/ StartService(c) \/ ControlService(c) \/ ChangeServiceConfig(c) \/ Return(c)
  \/ \E s \in Service : ServiceMoves(s)

Spec == Init /\ [][Next]_vars

-----------------------------------------------------------------------------
\* What a call that has decided on what it saw will answer.
Outcome(c) ==
  CASE At(c, "Decide") /\ op[c] = "Query" -> seen[c]
    [] At(c, "Decide") /\ op[c] = "Start" /\ seen[c] = "RUNNING" -> "S_OK"
    [] At(c, "Decide") /\ op[c] = "Stop" /\ seen[c] # "RUNNING" -> "S_OK"
    [] OTHER -> result[c]

\* A call on a name that means no service, or a refused one, is not a request.
AbstractCall(c) ==
  IF name[c] = NoName \/ Target(c) \notin Service
  THEN [op |-> "none"]
  ELSE [op |-> op[c], service |-> Target(c), result |-> Outcome(c)]

\* Every call takes effect at one instant: when it sees that there is nothing
\* to do, or when the SCM acts.  What it saw and what it does never mix.
Atomic == INSTANCE ServiceControl WITH call <- [c \in Client |-> AbstractCall(c)]
AtomicSpec == Atomic!Spec

\* No call changes the state of a service that is not on the whitelist, however
\* the names are written and the calls interleave; nor of two services at once.
OnlyWhitelistedAreDriven ==
  [][\A c \in Client : pc'[c] # pc[c] =>
       \A s \in Service : state'[s] # state[s] => s \in Whitelist /\ s = Target(c)]_vars

=============================================================================
