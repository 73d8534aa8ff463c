---------------------------- MODULE CommandApi ----------------------------
(***************************************************************************)
(* The RPC procedures that run a command: UwpAppMgmt (iotstartup.exe),     *)
(* ShutdownMgmt (shutdown.exe) and Tpm (limpet.exe), on top of             *)
(* Process::Launch.  Each call runs in an RPC thread of its own.           *)
(*                                                                         *)
(* A launch is used once, so Launch bounds the commands of a behaviour.    *)
(***************************************************************************)
EXTENDS ProcessLaunch

CONSTANTS
  Call,         \* RPC calls of the clients
  InvalidArg    \* the exit code E_INVALIDARG

ASSUME InvalidArgAssumption == InvalidArg \in ExitCode \ {0}

VARIABLES
  request,     \* what the call asks for
  runs,        \* the launches of the call, in order
  reply        \* the HRESULT, an exception out of the procedure, or NoReply

apiVars == <<request, runs, reply>>
vars == <<launchVars, apiVars>>

NoRequest == [api |-> "none", startupType |-> "none"]
StartupType == {"eNone", "eForeground", "eBackground", "eUndefined"}
Startup == [api : {"SetAppStartup"}, startupType : StartupType]
PlainRequest == [api : {"Shutdown", "TpmInfo", "GetConnectionString"}, startupType : {"none"}]
Request == Startup \cup PlainRequest

TypeOK ==
  /\ LaunchTypeOK
  /\ request \in [Call -> Request \cup {NoRequest}]
  /\ runs \in [Call -> Seq(Launch)]
  /\ \A a \in Call : Len(runs[a]) <= 2
  /\ reply \in [Call -> {"NoReply", "S_OK", "E_FAIL", "EXCEPTION"}]

Init ==
  /\ LaunchInit
  /\ request = [a \in Call |-> NoRequest]
  /\ runs = [a \in Call |-> <<>>]
  /\ reply = [a \in Call |-> "NoReply"]

Current(a) == runs[a][Len(runs[a])]
Waiting(a) == reply[a] = "NoReply" /\ runs[a] # <<>>

Reply(a, hr) ==
  /\ reply' = [reply EXCEPT ![a] = hr]
  /\ UNCHANGED <<request, runs>>

\* Process::Launch is entered for the call.
Run(a) ==
  \E c \in Launch :
    /\ Enter(c)
    /\ runs' = [runs EXCEPT ![a] = Append(@, c)]

-----------------------------------------------------------------------------
Asks(a, r) ==
  /\ request[a] = NoRequest
  /\ request' = [request EXCEPT ![a] = r]

\* SetAppStartup and Shutdown fail before they run anything when the path of
\* the command cannot be expanded, SetAppStartup on an unknown type as well.
Refuse(a) ==
  /\ \E r \in Startup \cup {[api |-> "Shutdown", startupType |-> "none"]} : Asks(a, r)
  /\ reply' = [reply EXCEPT ![a] = "E_FAIL"]
  /\ UNCHANGED <<launchVars, runs>>

SetAppStartup(a) ==
  /\ \E r \in Startup : r.startupType # "eUndefined" /\ Asks(a, r)
  /\ Run(a)
  /\ UNCHANGED reply

Shutdown(a) ==
  /\ Asks(a, [api |-> "Shutdown", startupType |-> "none"])
  /\ Run(a)
  /\ UNCHANGED reply

\* GetEndorsementKey and GetRegistrationId.
TpmInfo(a) ==
  /\ Asks(a, [api |-> "TpmInfo", startupType |-> "none"])
  /\ Run(a)
  /\ UNCHANGED reply

GetConnectionString(a) ==
  /\ Asks(a, [api |-> "GetConnectionString", startupType |-> "none"])
  /\ Run(a)
  /\ UNCHANGED reply

-----------------------------------------------------------------------------
\* Mutant: E_INVALIDARG is forgiven whatever the startup type.
SetAppStartupReturns_ForgivesAll(a) ==
  LET c == Current(a) IN
  /\ Waiting(a) /\ pc[c] = "returned"
  /\ request[a].api = "SetAppStartup"
  /\ Reply(a, IF returnCode[c] \in {0, InvalidArg} THEN "S_OK" ELSE "E_FAIL")
  /\ UNCHANGED launchVars

\* Removing an app that was not registered is fine.
SetAppStartupReturns(a) ==
  LET c == Current(a)
      fine == returnCode[c] = 0 \/ (request[a].startupType = "eNone" /\ returnCode[c] = InvalidArg)
  IN
  /\ Waiting(a) /\ pc[c] = "returned"
  /\ request[a].api = "SetAppStartup"
  /\ Reply(a, IF fine THEN "S_OK" ELSE "E_FAIL")
  /\ UNCHANGED launchVars

ShutdownReturns(a) ==
  /\ Waiting(a) /\ pc[Current(a)] = "returned"
  /\ request[a].api = "Shutdown"
  /\ Reply(a, IF returnCode[Current(a)] = 0 THEN "S_OK" ELSE "E_FAIL")
  /\ UNCHANGED launchVars

\* Something of what limpet printed was taken for a JSON document with the value
\* asked for, which the reader finds at the start of the output, whatever follows
\* it.  The exit code of limpet is not looked at.
TpmInfoReturns(a) ==
  LET c == Current(a) IN
  /\ Waiting(a) /\ pc[c] = "returned"
  /\ request[a].api = "TpmInfo"
  /\ \E hr \in {"S_OK", "E_FAIL"} :
       /\ hr = "S_OK" => output[c] # <<>>
       /\ Reply(a, hr)
  /\ UNCHANGED launchVars

\* GetHostNameAndDeviceId has run limpet, and its patterns match somewhere in the
\* output: go on to GetSASToken.
HostReturns(a) ==
  /\ Waiting(a) /\ pc[Current(a)] = "returned"
  /\ request[a].api = "GetConnectionString" /\ Len(runs[a]) = 1
  /\ output[Current(a)] # <<>>
  /\ Run(a)
  /\ UNCHANGED <<request, reply>>

\* Neither a service URL, nor one of two parts.
HostNotFound(a) ==
  /\ Waiting(a) /\ pc[Current(a)] = "returned"
  /\ request[a].api = "GetConnectionString" /\ Len(runs[a]) = 1
  /\ Reply(a, "E_FAIL")
  /\ UNCHANGED launchVars

\* The pattern of the token has no end: a part of the token satisfies it.
SASTokenReturns(a) ==
  LET c == Current(a) IN
  /\ Waiting(a) /\ pc[c] = "returned"
  /\ request[a].api = "GetConnectionString" /\ Len(runs[a]) = 2
  /\ \E hr \in {"S_OK", "E_FAIL"} :
       /\ hr = "S_OK" => output[c] # <<>>
       /\ Reply(a, hr)
  /\ UNCHANGED launchVars

\* No procedure catches what Launch throws.
LaunchThrew(a) ==
  /\ Waiting(a) /\ pc[Current(a)] = "thrown"
  /\ Reply(a, "EXCEPTION")
  /\ UNCHANGED launchVars

-----------------------------------------------------------------------------
LaunchMoves ==
  /\ \E c \in Launch : Parent(c) \/ ChildPrints(c) \/ ChildExits(c)
  /\ UNCHANGED apiVars

Next ==
  \/ LaunchMoves
  \/ \E a \in Call :
       \/ Refuse(a) \/ SetAppStartup(a) \/ Shutdown(a) \/ TpmInfo(a) \/ GetConnectionString(a)
       \/ SetAppStartupReturns(a) \/ ShutdownReturns(a) \/ TpmInfoReturns(a)
       \/ HostReturns(a) \/ HostNotFound(a) \/ SASTokenReturns(a) \/ LaunchThrew(a)

Spec == Init /\ [][Next]_vars

-----------------------------------------------------------------------------
\* The command of the call ended with success or, for a removal, because there
\* was nothing to remove.
Succeeded(a) ==
  \/ exitCode[Current(a)] = 0
  \/ request[a].startupType = "eNone" /\ exitCode[Current(a)] = InvalidArg

\* A call that reports success has run its command to its end, and the command
\* succeeded, unless a Windows call failed under it.  A call that reports failure
\* after it has run its command did not fail without reason: the command has
\* failed, whatever else did.
SuccessMeansCommandSucceeded ==
  \A a \in Call :
    request[a].api \in {"SetAppStartup", "Shutdown"} /\ runs[a] # <<>> =>
      /\ reply[a] = "S_OK" /\ ~faulty[Current(a)]
           => child[Current(a)] = "exited" /\ Succeeded(a)
      /\ reply[a] = "E_FAIL"
           => child[Current(a)] = "exited" /\ ~Succeeded(a)

=============================================================================
