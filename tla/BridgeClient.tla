--------------------------- MODULE BridgeClient ---------------------------
(***************************************************************************)
(* The client side of an API: UWP apps with a bridge object of             *)
(* DMBridgeComponent each, the RPC bindings these objects own, and their   *)
(* calls through the RPC runtime to the service, which may crash and come  *)
(* back at any time.  The server side of TelemetryLevelBridge is the       *)
(* module TelemetryLevel; a procedure of another API answers as it will,   *)
(* its own module says what it does.                                       *)
(*                                                                         *)
(* An app uses its object from one thread at a time: the component takes   *)
(* no lock that would let Close run beside a call.                         *)
(***************************************************************************)
EXTENDS TelemetryLevel, Interfaces

CONSTANTS
  Class,             \* the bridge classes that the apps use
  Handle, nullptr    \* the RPC bindings of the apps' runtimes, and none

ASSUME ClassAssumption == Class \subseteq DOMAIN Bridge
ASSUME HandleAssumption == nullptr \notin Handle

VARIABLES
  listening,      \* the service takes calls
  object,         \* the class of each app's bridge object, "none" without one
  rpcBinding,     \* the binding their objects hold
  handles,        \* the bindings that are allocated
  leaked,         \* history: the bindings whose object is gone
  call,           \* the method each app is in, or has just left
  value,          \* its argument, or what it returned
  outcome         \* the HRESULT it ended with, "none" while it runs

clientVars == <<listening, object, rpcBinding, handles, leaked, call, value, outcome>>
bridgeVars == <<telemetryVars, clientVars>>

ServerError == {"ERROR_BAD_ARGUMENTS", "ERROR"}

BridgeTypeOK ==
  /\ TelemetryTypeOK
  /\ listening \in BOOLEAN
  /\ object \in [Caller -> Class \cup {"none"}]
  /\ rpcBinding \in [Caller -> Handle \cup {nullptr}]
  /\ handles \in SUBSET Handle
  /\ leaked \in SUBSET Handle
  /\ call \in [Caller -> Methods \cup {"none"}]
  /\ value \in [Caller -> INT32]
  /\ outcome \in [Caller -> {"none", "S_OK", "RPC_ERROR"} \cup ServerError]

BridgeInit ==
  /\ TelemetryInit
  /\ listening = FALSE
  /\ object = [c \in Caller |-> "none"]
  /\ rpcBinding = [c \in Caller |-> nullptr]
  /\ handles = {}
  /\ leaked = {}
  /\ call = [c \in Caller |-> "none"]
  /\ value = [c \in Caller |-> 0]
  /\ outcome = [c \in Caller |-> "none"]

-----------------------------------------------------------------------------
(* The service, and those who write its registry value.                    *)

Listens ==
  /\ ~listening
  /\ listening' = TRUE
  /\ UNCHANGED <<telemetryVars, object, rpcBinding, handles, leaked, call, value, outcome>>

Crashes ==
  /\ listening
  /\ listening' = FALSE
  /\ ThreadsAreLost
  /\ UNCHANGED <<object, rpcBinding, handles, leaked, call, value, outcome>>

OtherProcedure(c) ==
  /\ at[c] = "Other"
  /\ \E hr \in {"S_OK", "ERROR"} : Answer(c, hr)
  /\ UNCHANGED <<registry, setLevelMutex, level, during, wrote>>

Serves(c) == (TelemetryThread(c) \/ OtherProcedure(c)) /\ UNCHANGED clientVars

Policy == OtherWrites /\ UNCHANGED clientVars

-----------------------------------------------------------------------------
(* A bridge object: its constructor, Close, and the release of the last    *)
(* reference.  No class has a destructor, so the release frees nothing.    *)

Idle(c) == call[c] = "none"

\* RpcBind composes a string binding and makes a handle of it.
Construct(c) ==
  /\ Idle(c) /\ object[c] = "none"
  /\ \E h \in Handle \ handles :
       /\ handles' = handles \cup {h}
       /\ rpcBinding' = [rpcBinding EXCEPT ![c] = h]
  /\ \E class \in Class : object' = [object EXCEPT ![c] = class]
  /\ UNCHANGED <<telemetryVars, listening, leaked, call, value, outcome>>

\* Mutant: the handle is passed by value, and the object keeps it.
RpcCloseBinding_Copy(c) ==
  /\ handles' = handles \ {rpcBinding[c]}
  /\ UNCHANGED rpcBinding

\* RpcBindingFree frees the handle and clears the variable it is handed the
\* address of, which is the object's own; for a null handle it does nothing.
RpcCloseBinding(c) ==
  /\ handles' = handles \ {rpcBinding[c]}
  /\ rpcBinding' = [rpcBinding EXCEPT ![c] = nullptr]

\* A closed object may be closed again.
Close(c) ==
  /\ Idle(c) /\ object[c] # "none"
  /\ RpcCloseBinding(c)
  /\ UNCHANGED <<telemetryVars, listening, object, leaked, call, value, outcome>>

Release(c) ==
  /\ Idle(c) /\ object[c] # "none"
  /\ object' = [object EXCEPT ![c] = "none"]
  /\ rpcBinding' = [rpcBinding EXCEPT ![c] = nullptr]
  /\ leaked' = leaked \cup ({rpcBinding[c]} \ {nullptr})
  /\ UNCHANGED <<telemetryVars, listening, handles, call, value, outcome>>

-----------------------------------------------------------------------------
(* A call: check_hresult(RpcNormalize(f, rpcBinding, ...)).                *)

\* Mutant: the status of the exception is not made an HRESULT.
RpcNormalize_Swallows(hr) == IF hr = "exception" THEN "S_OK" ELSE hr

\* An exception of the RPC runtime becomes an HRESULT that is not a success.
RpcNormalize(hr) == IF hr = "exception" THEN "RPC_ERROR" ELSE hr

Enters(c, m, v) ==
  /\ Idle(c) /\ object[c] # "none" /\ m \in DOMAIN Bridge[object[c]]
  /\ call' = [call EXCEPT ![c] = m]
  /\ value' = [value EXCEPT ![c] = v]
  /\ UNCHANGED <<listening, object, rpcBinding, handles, leaked>>

Parameter(m) == IF m = "SetLevel" THEN Argument ELSE {0}

\* The procedure m calls, as a step of its thread.
EntryStep(m) == CASE m = "SetLevel" -> "Set" [] m = "GetLevel" -> "Size" [] OTHER -> "Other"

\* The binding is good, the service listens with the interface registered, and
\* the caller may call it.
CallIsTaken(c) ==
  /\ rpcBinding[c] # nullptr /\ listening
  /\ \E m \in Methods : \E v \in Parameter(m) : Enters(c, m, v) /\ Dispatch(c, EntryStep(m), v)
  /\ UNCHANGED outcome

\* The binding is null, no server is there, the API is not enabled, or it
\* refuses the caller.
CallIsRefused(c) ==
  /\ \E m \in Methods : \E v \in Parameter(m) : Enters(c, m, v)
  /\ outcome' = [outcome EXCEPT ![c] = RpcNormalize("exception")]
  /\ UNCHANGED telemetryVars

InCall(c) == call[c] # "none" /\ outcome[c] = "none"

\* The answer comes back; a level is copied out only with S_OK.
Reply(c) ==
  /\ InCall(c)
  /\ outcome' = [outcome EXCEPT ![c] = RpcNormalize(answer[c])]
  /\ value' = IF call[c] = "GetLevel" THEN [value EXCEPT ![c] = level[c]] ELSE value
  /\ Dismiss(c)
  /\ UNCHANGED <<listening, object, rpcBinding, handles, leaked, call>>

\* The server died under the call.
ConnectionBreaks(c) ==
  /\ InCall(c)
  /\ at[c] = "none"
  /\ outcome' = [outcome EXCEPT ![c] = RpcNormalize("exception")]
  /\ UNCHANGED <<telemetryVars, listening, object, rpcBinding, handles, leaked, call, value>>

\* The app has what it asked for, or catches the hresult_error.
Continue(c) ==
  /\ outcome[c] # "none"
  /\ call' = [call EXCEPT ![c] = "none"]
  /\ value' = [value EXCEPT ![c] = 0]
  /\ outcome' = [outcome EXCEPT ![c] = "none"]
  /\ Forget(c)
  /\ UNCHANGED <<listening, object, rpcBinding, handles, leaked>>

-----------------------------------------------------------------------------
App(c) ==
  \/ Construct(c) \/ Close(c) \/ Release(c)
  \/ CallIsTaken(c) \/ CallIsRefused(c)
  \/ Reply(c) \/ ConnectionBreaks(c) \/ Continue(c)

BridgeNext == Listens \/ Crashes \/ Policy \/ \E c \in Caller : Serves(c) \/ App(c)

BridgeSpec == BridgeInit /\ [][BridgeNext]_bridgeVars

\* A dispatched thread goes on, and gets a mutex that is free again and
\* again; the runtime delivers an answer, or notices that none will come.
Fairness == \A c \in Caller :
  /\ WF_bridgeVars(Serves(c))
  /\ SF_bridgeVars(LockLevel(c) /\ UNCHANGED clientVars)
  /\ WF_bridgeVars(Reply(c))
  /\ WF_bridgeVars(ConnectionBreaks(c))

FairSpec == BridgeSpec /\ Fairness

-----------------------------------------------------------------------------
\* The bindings that are allocated are those the objects hold, each its own,
\* and those of objects that were released without a Close: no object ever
\* uses a freed binding, however often it is closed, and a refused call after
\* Close is an error and not an access to freed memory.
HandlesAreOwned ==
  /\ handles = ({rpcBinding[c] : c \in Caller} \ {nullptr}) \cup leaked
  /\ \A c, d \in Caller : rpcBinding[c] = rpcBinding[d] => c = d \/ rpcBinding[c] = nullptr
  /\ \A c \in Caller : rpcBinding[c] \notin leaked

\* What a GetLevel that succeeds tells of a DWORD, and of one it could not read.
LevelOf(d) == IF d = Missing THEN 0 ELSE Cast(d)

\* What the app is told is what the service did, however the call ended: a
\* SetLevel that succeeds has written the level it was given, one that fails
\* with an error of the service has written nothing (with an error of the
\* runtime it may have); a GetLevel that succeeds gives what the registry held
\* during the call, and 0 for anything else only when a read of it failed.
\* This promises neither that the read succeeded nor one of the four levels of
\* the documentation: Get looks at neither.
OutcomeTellsTheEffect == \A c \in Caller :
  /\ call[c] = "SetLevel" /\ outcome[c] = "S_OK" =>
       /\ wrote[c] = value[c]
       /\ value[c] \in MinTelemetryLevel .. MaxTelemetryLevel
  /\ call[c] = "SetLevel" /\ outcome[c] \in ServerError => wrote[c] = Missing
  /\ call[c] = "GetLevel" /\ outcome[c] = "S_OK" =>
       \E d \in during[c] : value[c] = LevelOf(d)

\* Every call ends, with an answer or with an exception: no failed write keeps
\* the mutex the other callers wait for, and no crash leaves an app waiting.
CallsReturn == \A c \in Caller : InCall(c) ~> outcome[c] # "none"

=============================================================================
