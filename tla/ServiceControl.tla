-------------------------- MODULE ServiceControl --------------------------
(***************************************************************************)
(* What the ServiceManager API promises: each call takes effect at one     *)
(* instant between its request and its answer.  A call that succeeds has   *)
(* found the service as asked for, or has brought it on its way, at that   *)
(* instant; a call that fails has changed nothing.                         *)
(***************************************************************************)
CONSTANTS
  Client,     \* callers
  Service,    \* the services of the machine
  StartType,  \* the start types a service can have
  Whitelist   \* those that may be started and stopped

ServiceState == {"STOPPED", "START_PENDING", "RUNNING", "PAUSED", "STOP_PENDING"}
Idle == [op |-> "none"]

VARIABLES
  state,      \* the state of each service
  startType,  \* and its start type
  call        \* per client: nothing, a pending call, or an answer not yet given

vars == <<state, startType, call>>

Pending(c, op) == call[c] # Idle /\ call[c].op = op /\ call[c].result = "pending"
Asked(c) == call[c].service
Done(c, result) == call' = [call EXCEPT ![c].result = result]

Init ==
  /\ state \in [Service -> ServiceState]
  /\ startType \in [Service -> StartType]
  /\ call = [c \in Client |-> Idle]

Request(c) ==
  /\ call[c] = Idle
  /\ \E op \in {"Start", "Stop", "Query", "SetStartMode"}, s \in Service :
       /\ op \in {"Start", "Stop"} => s \in Whitelist
       /\ call' = [call EXCEPT ![c] = [op |-> op, service |-> s, result |-> "pending"]]
  /\ UNCHANGED <<state, startType>>

Fail(c) ==
  /\ \E op \in {"Start", "Stop", "Query", "SetStartMode"} : Pending(c, op)
  /\ Done(c, "ERROR")
  /\ UNCHANGED <<state, startType>>

Start(c) ==
  /\ Pending(c, "Start")
  /\ \/ state[Asked(c)] = "RUNNING" /\ UNCHANGED state
     \/ /\ state[Asked(c)] = "STOPPED" /\ startType[Asked(c)] # "DISABLED"
        /\ state' = [state EXCEPT ![Asked(c)] = "START_PENDING"]
  /\ Done(c, "S_OK")
  /\ UNCHANGED startType

\* Stopping a service that is starting or paused succeeds and does nothing.
Stop(c) ==
  /\ Pending(c, "Stop")
  /\ \/ state[Asked(c)] # "RUNNING" /\ UNCHANGED state
     \/ /\ state[Asked(c)] \in {"RUNNING", "PAUSED"}
        /\ state' = [state EXCEPT ![Asked(c)] = "STOP_PENDING"]
  /\ Done(c, "S_OK")
  /\ UNCHANGED startType

Query(c) ==
  /\ Pending(c, "Query")
  /\ Done(c, state[Asked(c)])
  /\ UNCHANGED <<state, startType>>

SetStartMode(c) ==
  /\ Pending(c, "SetStartMode")
  /\ \/ UNCHANGED startType
     \/ \E t \in StartType : startType' = [startType EXCEPT ![Asked(c)] = t]
  /\ Done(c, "S_OK")
  /\ UNCHANGED state

Return(c) ==
  /\ call[c] # Idle /\ call[c].result # "pending"
  /\ call' = [call EXCEPT ![c] = Idle]
  /\ UNCHANGED <<state, startType>>

\* Services change their state by themselves; nothing starts one but a call.
Moves(s) ==
  /\ \E to \in ServiceState \ {"START_PENDING"} : state' = [state EXCEPT ![s] = to]
  /\ UNCHANGED <<startType, call>>

Next ==
  \/ \E c \in Client :
       Request(c) \/ Fail(c) \/ Start(c) \/ Stop(c) \/ Query(c) \/ SetStartMode(c) \/ Return(c)
  \/ \E s \in Service : Moves(s)

Spec == Init /\ [][Next]_vars
=============================================================================
