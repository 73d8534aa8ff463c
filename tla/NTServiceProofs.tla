-------------------------- MODULE NTServiceProofs --------------------------
(***************************************************************************)
(* Proofs about NTService, for any clients, services, names and start      *)
(* types and any whitelist: that it implements ServiceControl, and that it *)
(* drives no service but those on the whitelist.                           *)
(***************************************************************************)
EXTENDS NTService, TLAPS

-----------------------------------------------------------------------------
Acting == {"QueryStatus", "Decide", "StartService", "ControlService", "ChangeConfig"}

\* A call that acts has been validated, and its service opened, for what it was
\* asked to do; only a call that returns has a result.
CallInv(c) ==
  /\ pc[c] \in Acting \cup {"Open"} =>
       /\ name[c] \in Name /\ result[c] = "pending"
       /\ op[c] \in {"Start", "Stop"} => Target(c) \in Whitelist
  /\ pc[c] \in Acting => Target(c) \in Service
  /\ pc[c] \in {"QueryStatus", "Decide"} => op[c] # "SetStartMode"
  /\ pc[c] = "StartService" => op[c] = "Start"
  /\ pc[c] = "ControlService" => op[c] = "Stop"
  /\ pc[c] = "ChangeConfig" => op[c] = "SetStartMode"
  /\ pc[c] = "idle" => name[c] = NoName /\ result[c] = "pending"
  /\ pc[c] = "Return" => result[c] # "pending"

IInv == TypeOK /\ \A c \in Client : CallInv(c)

LEMMA InitInv == Init => IInv
BY NoNameAssumption DEF Init, IInv, TypeOK, CallInv, Acting, Step, Op, Result, ServiceState

\* A name that passes the validation for o may be driven that way.
LEMMA Validated ==
  ASSUME NEW n \in Name, NEW o, ValidateNameArgument(n, o) = "S_OK", o \in {"Start", "Stop"}
  PROVE  n.service \in Whitelist
BY DEF ValidateNameArgument, IsWhitelisted

LEMMA StepInv == IInv /\ [Next]_vars => IInv'
<1> SUFFICES ASSUME IInv, [Next]_vars PROVE IInv'
  OBVIOUS
<1> USE NoNameAssumption
    DEF IInv, TypeOK, CallInv, Acting, Step, Op, Result, ServiceState, scm, args, Goto, At,
        Target, Finish, Forget
<1>1. ASSUME NEW c \in Client, Request(c) PROVE IInv'
  <2>1. PICK o \in Op, n \in Name : /\ ValidateNameArgument(n, o) = "S_OK"
                                    /\ op' = [op EXCEPT ![c] = o] /\ name' = [name EXCEPT ![c] = n]
    BY <1>1 DEF Request
  <2>2. o \in {"Start", "Stop"} => n.service \in Whitelist
    BY <2>1, Validated
  <2>3. TypeOK'
    BY <1>1, <2>1 DEF Request
  <2>4. \A d \in Client : CallInv(d)'
    BY <1>1, <2>1, <2>2 DEF Request
  <2>5. QED BY ONLY <2>3, <2>4 DEF IInv
<1>2. ASSUME NEW c \in Client, Refuse(c) PROVE IInv'
  <2>1. PICK o \in Op, n \in Name : /\ ValidateNameArgument(n, o) # "S_OK"
                                    /\ Finish(c, ValidateNameArgument(n, o))
    BY <1>2 DEF Refuse
  <2>2. ValidateNameArgument(n, o) \in {"INVALID_NAME", "ACCESS_DENIED"}
    BY <2>1 DEF ValidateNameArgument
  <2>3. QED BY <1>2, <2>1, <2>2 DEF Refuse
<1>3. ASSUME NEW c \in Client, Open(c) PROVE IInv'
  BY <1>3 DEF Open
<1>4. ASSUME NEW c \in Client, Throws(c) PROVE IInv'
  BY <1>4 DEF Throws
<1>5. ASSUME NEW c \in Client, QueryServiceStatus(c) PROVE IInv'
  BY <1>5 DEF QueryServiceStatus
<1>6. ASSUME NEW c \in Client, GetStatus(c) PROVE IInv'
  BY <1>6 DEF GetStatus
<1>7. ASSUME NEW c \in Client, DecideStart(c) PROVE IInv'
  BY <1>7 DEF DecideStart
<1>8. ASSUME NEW c \in Client, DecideStop(c) PROVE IInv'
  BY <1>8 DEF DecideStop
<1>9. ASSUME NEW c \in Client, StartService(c) PROVE IInv'
  BY <1>9 DEF StartService
<1>10. ASSUME NEW c \in Client, ControlService(c) PROVE IInv'
  BY <1>10 DEF ControlService
<1>11. ASSUME NEW c \in Client, ChangeServiceConfig(c) PROVE IInv'
  BY <1>11 DEF ChangeServiceConfig
<1>12. ASSUME NEW c \in Client, Return(c) PROVE IInv'
  BY <1>12 DEF Return
<1>13. ASSUME NEW s \in Service, ServiceMoves(s) PROVE IInv'
  BY <1>13 DEF ServiceMoves
<1>14. CASE UNCHANGED vars
  BY <1>14 DEF vars
<1>15. QED
  BY <1>1, <1>2, <1>3, <1>4, <1>5, <1>6, <1>7, <1>8, <1>9, <1>10, <1>11, <1>12, <1>13, <1>14
     DEF Next

\* Every call is where its request has brought it.
THEOREM Invariant == Spec => []IInv
<1>1. QED BY InitInv, StepInv, PTL DEF Spec

\* The types of the variables.
THEOREM TypeCorrect == Spec => []TypeOK
<1>1. IInv => TypeOK
  BY DEF IInv
<1>2. QED BY <1>1, Invariant, PTL

\* No call changes the state of a service that is not on the whitelist, or of
\* another than the one it was asked for.
THEOREM OnlyWhitelistedAreDrivenAlways == Spec => OnlyWhitelistedAreDriven
<1> DEFINE A == \A c \in Client : pc'[c] # pc[c] =>
                  \A s \in Service : state'[s] # state[s] => s \in Whitelist /\ s = Target(c)
<1>1. IInv /\ [Next]_vars => A
  <2> SUFFICES ASSUME IInv, [Next]_vars, NEW c \in Client, pc'[c] # pc[c],
                      NEW s \in Service, state'[s] # state[s]
               PROVE  s \in Whitelist /\ s = Target(c)
    OBVIOUS
  <2>1. PICK d \in Client : StartService(d) \/ ControlService(d)
    BY DEF Next, vars, scm, Request, Refuse, Open, Throws, QueryServiceStatus, GetStatus, DecideStart,
           DecideStop, ChangeServiceConfig, Return, ServiceMoves
  <2>2. c = d
    BY <2>1 DEF StartService, ControlService, Finish, Goto, IInv, TypeOK
  <2>3. s = Target(c)
    BY <2>1, <2>2 DEF StartService, ControlService, IInv, TypeOK
  <2>4. QED BY <2>1, <2>2, <2>3 DEF StartService, ControlService, At, IInv, CallInv, Acting
<1>2. QED BY <1>1, Invariant, PTL DEF Spec, OnlyWhitelistedAreDriven

-----------------------------------------------------------------------------
(* The refinement.                                                         *)

Calls == [c \in Client |-> AbstractCall(c)]

\* A step of c is no step of the call of d.
Unmoved(d) ==
  /\ pc'[d] = pc[d] /\ op'[d] = op[d] /\ name'[d] = name[d]
  /\ seen'[d] = seen[d] /\ result'[d] = result[d]

LEMMA Unmoving ==
  ASSUME NEW d \in Client, Unmoved(d)
  PROVE  AbstractCall(d)' = AbstractCall(d)
BY DEF Unmoved, AbstractCall, Target, Outcome, At

\* A call on a service is a request, with what it is about to answer.
LEMMA Asking ==
  ASSUME NEW c \in Client, name[c] # NoName, Target(c) \in Service
  PROVE  /\ AbstractCall(c) = [op |-> op[c], service |-> Target(c), result |-> Outcome(c)]
         /\ AbstractCall(c) # [op |-> "none"]
<1>1. AbstractCall(c) = [op |-> op[c], service |-> Target(c), result |-> Outcome(c)]
  BY DEF AbstractCall
<1>2. "service" \in DOMAIN AbstractCall(c) /\ "service" \notin DOMAIN [op |-> "none"]
  BY <1>1
<1>3. QED BY <1>1, <1>2

\* A step of c that changes nothing but what the call will answer, r, gives
\* the abstract call that answer.
LEMMA Answering ==
  ASSUME TypeOK, NEW c \in Client, name[c] # NoName, Target(c) \in Service,
         \A d \in Client \ {c} : Unmoved(d), name'[c] = name[c], op'[c] = op[c],
         NEW r, Outcome(c)' = r
  PROVE  /\ Calls' = [Calls EXCEPT ![c].result = r]
         /\ Calls[c] # [op |-> "none"] /\ Calls[c].op = op[c]
         /\ Calls[c].service = Target(c) /\ Calls[c].result = Outcome(c)
<1>1. /\ AbstractCall(c) = [op |-> op[c], service |-> Target(c), result |-> Outcome(c)]
      /\ AbstractCall(c) # [op |-> "none"]
  BY Asking
<1>2. AbstractCall(c)' = [op |-> op[c], service |-> Target(c), result |-> r]
  BY DEF AbstractCall, Target
<1>3. AbstractCall(c)' = [AbstractCall(c) EXCEPT !.result = r]
  BY <1>1, <1>2
<1>4. \A d \in Client \ {c} : AbstractCall(d)' = AbstractCall(d)
  BY Unmoving
<1>5. Calls' = [d \in Client |-> AbstractCall(d)']
  BY DEF Calls
<1> HIDE DEF AbstractCall
<1>6. Calls' = [Calls EXCEPT ![c].result = r]
  BY <1>3, <1>4, <1>5 DEF Calls
<1>7. Calls[c] = AbstractCall(c)
  BY DEF Calls
<1>8. QED BY <1>1, <1>6, <1>7

\* A step of c that leaves its answer alone is a stutter of the abstract calls.
LEMMA Stuttering ==
  ASSUME NEW c \in Client, \A d \in Client \ {c} : Unmoved(d),
         AbstractCall(c)' = AbstractCall(c)
  PROVE  Calls' = Calls
<1>1. \A d \in Client : AbstractCall(d)' = AbstractCall(d)
  BY Unmoving
<1>2. Calls' = [d \in Client |-> AbstractCall(d)']
  BY DEF Calls
<1> HIDE DEF AbstractCall
<1>3. QED BY <1>1, <1>2 DEF Calls

LEMMA StepAtomic ==
  ASSUME IInv, IInv', [Next]_vars
  PROVE  [Atomic!Next]_<<state, startType, Calls>>
<1> DEFINE Goal == [Atomic!Next]_<<state, startType, Calls>>
<1>0. TypeOK /\ \A c \in Client : CallInv(c)
  BY DEF IInv
<1>1. ASSUME NEW c \in Client, Request(c) PROVE Goal
  <2>1. PICK o \in Op, n \in Name : /\ ValidateNameArgument(n, o) = "S_OK"
                                    /\ op' = [op EXCEPT ![c] = o] /\ name' = [name EXCEPT ![c] = n]
    BY <1>1 DEF Request
  <2>2. /\ pc[c] = "idle" /\ pc'[c] = "Open" /\ name[c] = NoName /\ result'[c] = "pending"
        /\ op'[c] = o /\ name'[c] = n /\ n # NoName
        /\ UNCHANGED <<state, startType>> /\ \A d \in Client \ {c} : Unmoved(d)
    BY <1>0, <1>1, <2>1, NoNameAssumption DEF Request, At, Goto, scm, TypeOK, CallInv, Unmoved
  <2>3. AbstractCall(c) = [op |-> "none"]
    BY <2>2 DEF AbstractCall
  <2>4. CASE n.service \notin Service
    <3>1. AbstractCall(c)' = [op |-> "none"]
      BY <2>2, <2>4 DEF AbstractCall, Target
    <3>2. QED BY <2>2, <2>3, <3>1, Stuttering
  <2>5. CASE n.service \in Service
    <3>1. AbstractCall(c)' = [op |-> o, service |-> n.service, result |-> "pending"]
      BY <2>2, <2>5 DEF AbstractCall, Target, Outcome, At
    <3>2. \A d \in Client \ {c} : AbstractCall(d)' = AbstractCall(d)
      BY <2>2, Unmoving
    <3>3. Calls' = [Calls EXCEPT ![c] = [op |-> o, service |-> n.service, result |-> "pending"]]
      <4>1. Calls' = [d \in Client |-> AbstractCall(d)']
        BY DEF Calls
      <4> HIDE DEF AbstractCall
      <4>2. QED BY <3>1, <3>2, <4>1 DEF Calls
    <3>4. Calls[c] = [op |-> "none"]
      BY <2>3 DEF Calls
    <3>5. o \in {"Start", "Stop"} => n.service \in Whitelist
      BY <2>1, Validated
    <3>6. Atomic!Request(c)
      BY <2>2, <2>5, <3>3, <3>4, <3>5 DEF Atomic!Request, Atomic!Idle, Op, Calls
    <3>7. QED BY <3>6 DEF Atomic!Next
  <2>6. QED BY <2>4, <2>5
<1>2. ASSUME NEW c \in Client, Refuse(c) PROVE Goal
  <2>1. /\ UNCHANGED <<state, startType, name>> /\ name[c] = NoName
        /\ \A d \in Client \ {c} : Unmoved(d)
    BY <1>0, <1>2 DEF Refuse, Finish, At, Goto, scm, args, TypeOK, CallInv, Unmoved
  <2>2. AbstractCall(c)' = AbstractCall(c)
    BY <2>1 DEF AbstractCall
  <2>3. QED BY <2>1, <2>2, Stuttering
<1>3. ASSUME NEW c \in Client, Open(c) PROVE Goal
  <2>1. /\ UNCHANGED <<state, startType, op, name, result>>
        /\ pc[c] = "Open" /\ pc'[c] \in {"ChangeConfig", "QueryStatus"}
        /\ \A d \in Client \ {c} : Unmoved(d)
    BY <1>0, <1>3 DEF Open, At, Goto, scm, args, TypeOK, Unmoved
  <2>2. AbstractCall(c)' = AbstractCall(c)
    BY <2>1 DEF AbstractCall, Target, Outcome, At
  <2>3. QED BY <2>1, <2>2, Stuttering
<1>4. ASSUME NEW c \in Client, Throws(c) PROVE Goal
  <2>1. /\ UNCHANGED <<state, startType, op, name>>
        /\ pc[c] \in (Acting \ {"Decide"}) \cup {"Open"} /\ pc'[c] = "Return"
        /\ result[c] = "pending" /\ result'[c] = "ERROR" /\ op[c] \in Op
        /\ \A d \in Client \ {c} : Unmoved(d)
    BY <1>0, <1>4 DEF Throws, Finish, Goto, scm, args, TypeOK, CallInv, Acting, Unmoved
  <2>2. Outcome(c) = "pending" /\ Outcome(c)' = "ERROR"
    BY <2>1 DEF Outcome, At, Acting
  <2>3. CASE name[c] = NoName \/ Target(c) \notin Service
    <3>1. AbstractCall(c)' = AbstractCall(c)
      BY <2>1, <2>3 DEF AbstractCall, Target
    <3>2. QED BY <2>1, <3>1, Stuttering
  <2>4. CASE name[c] # NoName /\ Target(c) \in Service
    <3>1. /\ Calls' = [Calls EXCEPT ![c].result = "ERROR"]
          /\ Calls[c] # [op |-> "none"] /\ Calls[c].op = op[c] /\ Calls[c].result = "pending"
      BY <1>0, <2>1, <2>2, <2>4, Answering
    <3>2. Atomic!Fail(c)
      BY <2>1, <3>1 DEF Atomic!Fail, Atomic!Pending, Atomic!Done, Atomic!Idle, Op, Calls
    <3>3. QED BY <3>2 DEF Atomic!Next
  <2>5. QED BY <2>3, <2>4
<1>5. ASSUME NEW c \in Client, QueryServiceStatus(c) PROVE Goal
  <2>1. /\ UNCHANGED <<state, startType, op, name, result>>
        /\ pc[c] = "QueryStatus" /\ pc'[c] = "Decide" /\ seen'[c] = state[Target(c)]
        /\ op[c] \in {"Start", "Stop", "Query"} /\ result[c] = "pending"
        /\ name[c] # NoName /\ Target(c) \in Service
        /\ \A d \in Client \ {c} : Unmoved(d)
    BY <1>0, <1>5, NoNameAssumption
       DEF QueryServiceStatus, At, Goto, scm, args, TypeOK, CallInv, Acting, Op, Unmoved
  <2>2. Outcome(c) = "pending"
    BY <2>1 DEF Outcome, At
  <2>3. CASE op[c] = "Query"
    <3>1. Outcome(c)' = state[Target(c)]
      BY <2>1, <2>3 DEF Outcome, At
    <3>2. /\ Calls' = [Calls EXCEPT ![c].result = state[Target(c)]]
          /\ Calls[c] # [op |-> "none"] /\ Calls[c].op = "Query" /\ Calls[c].result = "pending"
          /\ Calls[c].service = Target(c)
      BY <1>0, <2>1, <2>2, <2>3, <3>1, Answering
    <3>3. Atomic!Query(c)
      BY <2>1, <3>2 DEF Atomic!Query, Atomic!Pending, Atomic!Done, Atomic!Asked, Atomic!Idle, Calls
    <3>4. QED BY <3>3 DEF Atomic!Next
  <2>4. CASE op[c] = "Start" /\ state[Target(c)] = "RUNNING"
    <3>1. Outcome(c)' = "S_OK"
      BY <2>1, <2>4 DEF Outcome, At
    <3>2. /\ Calls' = [Calls EXCEPT ![c].result = "S_OK"]
          /\ Calls[c] # [op |-> "none"] /\ Calls[c].op = "Start" /\ Calls[c].result = "pending"
          /\ Calls[c].service = Target(c)
      BY <1>0, <2>1, <2>2, <2>4, <3>1, Answering
    <3>3. Atomic!Start(c)
      BY <2>1, <2>4, <3>2 DEF Atomic!Start, Atomic!Pending, Atomic!Done, Atomic!Asked, Atomic!Idle, Calls
    <3>4. QED BY <3>3 DEF Atomic!Next
  <2>5. CASE op[c] = "Stop" /\ state[Target(c)] # "RUNNING"
    <3>1. Outcome(c)' = "S_OK"
      BY <2>1, <2>5 DEF Outcome, At
    <3>2. /\ Calls' = [Calls EXCEPT ![c].result = "S_OK"]
          /\ Calls[c] # [op |-> "none"] /\ Calls[c].op = "Stop" /\ Calls[c].result = "pending"
          /\ Calls[c].service = Target(c)
      BY <1>0, <2>1, <2>2, <2>5, <3>1, Answering
    <3>3. Atomic!Stop(c)
      BY <2>1, <2>5, <3>2 DEF Atomic!Stop, Atomic!Pending, Atomic!Done, Atomic!Asked, Atomic!Idle, Calls
    <3>4. QED BY <3>3 DEF Atomic!Next
  <2>6. CASE \/ op[c] = "Start" /\ state[Target(c)] # "RUNNING"
             \/ op[c] = "Stop" /\ state[Target(c)] = "RUNNING"
    <3>1. Outcome(c)' = "pending"
      BY <2>1, <2>6 DEF Outcome, At
    <3>2. AbstractCall(c)' = AbstractCall(c)
      BY <2>1, <2>2, <3>1 DEF AbstractCall, Target
    <3>3. QED BY <2>1, <3>2, Stuttering
  <2>7. QED BY <2>1, <2>3, <2>4, <2>5, <2>6
<1>6. ASSUME NEW c \in Client, GetStatus(c) \/ DecideStart(c) \/ DecideStop(c) PROVE Goal
  <2>1. /\ UNCHANGED <<state, startType, op, name>>
        /\ Outcome(c)' = Outcome(c)
        /\ \A d \in Client \ {c} : Unmoved(d)
    BY <1>0, <1>6 DEF GetStatus, DecideStart, DecideStop, At, Goto, Finish, Forget, scm, args, TypeOK,
                      CallInv, Acting, Unmoved, Outcome
  <2>2. AbstractCall(c)' = AbstractCall(c)
    BY <2>1 DEF AbstractCall, Target
  <2>3. QED BY <2>1, <2>2, Stuttering
<1>7. ASSUME NEW c \in Client, StartService(c) \/ ControlService(c) \/ ChangeServiceConfig(c) PROVE Goal
  <2>1. /\ UNCHANGED <<op, name>>
        /\ pc[c] \in {"StartService", "ControlService", "ChangeConfig"} /\ pc'[c] = "Return"
        /\ result[c] = "pending" /\ result'[c] = "S_OK"
        /\ name[c] # NoName /\ Target(c) \in Service
        /\ \A d \in Client \ {c} : Unmoved(d)
    BY <1>0, <1>7, NoNameAssumption DEF StartService, ControlService, ChangeServiceConfig, At, Goto, Finish,
       args, TypeOK, CallInv, Acting, Unmoved
  <2>2. Outcome(c) = "pending" /\ Outcome(c)' = "S_OK"
    BY <2>1 DEF Outcome, At
  <2>3. /\ Calls' = [Calls EXCEPT ![c].result = "S_OK"]
        /\ Calls[c] # [op |-> "none"] /\ Calls[c].op = op[c] /\ Calls[c].result = "pending"
        /\ Calls[c].service = Target(c)
    BY <1>0, <2>1, <2>2, Answering
  <2>4. CASE StartService(c)
    <3>1. op[c] = "Start"
      BY <1>0, <2>4 DEF StartService, At, CallInv
    <3>2. Atomic!Start(c)
      BY <2>3, <2>4, <3>1 DEF StartService, Atomic!Start, Atomic!Pending, Atomic!Done, Atomic!Asked,
                              Atomic!Idle, Calls
    <3>3. QED BY <3>2 DEF Atomic!Next
  <2>5. CASE ControlService(c)
    <3>1. op[c] = "Stop"
      BY <1>0, <2>5 DEF ControlService, At, CallInv
    <3>2. Atomic!Stop(c)
      BY <2>3, <2>5, <3>1 DEF ControlService, Atomic!Stop, Atomic!Pending, Atomic!Done, Atomic!Asked,
                              Atomic!Idle, Calls
    <3>3. QED BY <3>2 DEF Atomic!Next
  <2>6. CASE ChangeServiceConfig(c)
    <3>1. op[c] = "SetStartMode"
      BY <1>0, <2>6 DEF ChangeServiceConfig, At, CallInv
    <3>2. Atomic!SetStartMode(c)
      BY <2>3, <2>6, <3>1 DEF ChangeServiceConfig, Atomic!SetStartMode, Atomic!Pending, Atomic!Done,
                              Atomic!Asked, Atomic!Idle, Calls
    <3>3. QED BY <3>2 DEF Atomic!Next
  <2>7. QED BY <1>7, <2>4, <2>5, <2>6
<1>8. ASSUME NEW c \in Client, Return(c) PROVE Goal
  <2>1. /\ UNCHANGED <<state, startType>>
        /\ pc[c] = "Return" /\ result[c] # "pending" /\ name'[c] = NoName
        /\ \A d \in Client \ {c} : Unmoved(d)
    BY <1>0, <1>8 DEF Return, At, Goto, scm, TypeOK, CallInv, Unmoved
  <2>2. AbstractCall(c)' = [op |-> "none"]
    BY <2>1 DEF AbstractCall
  <2>3. CASE name[c] = NoName \/ Target(c) \notin Service
    <3>1. AbstractCall(c)' = AbstractCall(c)
      BY <2>2, <2>3 DEF AbstractCall
    <3>2. QED BY <2>1, <3>1, Stuttering
  <2>4. CASE name[c] # NoName /\ Target(c) \in Service
    <3>1. /\ AbstractCall(c) = [op |-> op[c], service |-> Target(c), result |-> Outcome(c)]
          /\ AbstractCall(c) # [op |-> "none"]
      BY <2>4, Asking
    <3>2. Outcome(c) = result[c]
      BY <2>1 DEF Outcome, At
    <3>3. \A d \in Client \ {c} : AbstractCall(d)' = AbstractCall(d)
      BY <2>1, Unmoving
    <3>4. Calls' = [d \in Client |-> AbstractCall(d)']
      BY DEF Calls
    <3>5. Calls' = [Calls EXCEPT ![c] = [op |-> "none"]]
      <4> HIDE DEF AbstractCall
      <4>1. QED BY <2>2, <3>3, <3>4 DEF Calls
    <3>6. Calls[c] # [op |-> "none"] /\ Calls[c].result # "pending"
      BY <2>1, <3>1, <3>2 DEF Calls
    <3>7. Atomic!Return(c)
      BY <2>1, <3>5, <3>6 DEF Atomic!Return, Atomic!Idle, Calls
    <3>8. QED BY <3>7 DEF Atomic!Next
  <2>5. QED BY <2>3, <2>4
<1>9. ASSUME NEW s \in Service, ServiceMoves(s) PROVE Goal
  <2>1. \A d \in Client : Unmoved(d)
    BY <1>9 DEF ServiceMoves, args, Unmoved
  <2>2. Calls' = Calls
    <3>1. \A d \in Client : AbstractCall(d)' = AbstractCall(d)
      BY <2>1, Unmoving
    <3>2. Calls' = [d \in Client |-> AbstractCall(d)']
      BY DEF Calls
    <3> HIDE DEF AbstractCall
    <3>3. QED BY <3>1, <3>2 DEF Calls
  <2>3. PICK to \in ServiceState : <<state[s], to>> \in Move /\ state' = [state EXCEPT ![s] = to]
    BY <1>9 DEF ServiceMoves
  <2>4. to # "START_PENDING"
    BY <2>3 DEF Move
  <2>5. Atomic!Moves(s)
    BY <1>9, <2>2, <2>3, <2>4 DEF ServiceMoves, Atomic!Moves, Atomic!ServiceState, ServiceState, Calls
  <2>6. QED BY <2>5 DEF Atomic!Next
<1>10. CASE UNCHANGED vars
  <2>1. \A d \in Client : Unmoved(d)
    BY <1>10 DEF vars, Unmoved
  <2>2. Calls' = Calls
    <3>1. \A d \in Client : AbstractCall(d)' = AbstractCall(d)
      BY <2>1, Unmoving
    <3>2. Calls' = [d \in Client |-> AbstractCall(d)']
      BY DEF Calls
    <3> HIDE DEF AbstractCall
    <3>3. QED BY <3>1, <3>2 DEF Calls
  <2>3. QED BY <1>10, <2>2 DEF vars
<1>11. QED
  BY <1>1, <1>2, <1>3, <1>4, <1>5, <1>6, <1>7, <1>8, <1>9, <1>10 DEF Next

\* Every call takes effect at one instant between its request and its answer.
THEOREM Linearizable == Spec => AtomicSpec
<1>1. Init => Atomic!Init
  BY DEF Init, AbstractCall, Atomic!Init, Atomic!Idle, Atomic!ServiceState, ServiceState
<1>2. IInv /\ IInv' /\ [Next]_vars => [Atomic!Next]_<<state, startType, Calls>>
  BY StepAtomic
<1>3. QED
  BY <1>1, <1>2, Invariant, PTL DEF Spec, AtomicSpec, Atomic!Spec, Atomic!vars, Calls
=============================================================================
