----------------------------- MODULE Interfaces -----------------------------
(***************************************************************************)
(* The six APIs as the two sides know them: the procedures of each RPC     *)
(* interface of the service, and the bridge classes of DMBridgeComponent,  *)
(* whose methods call these procedures.                                    *)
(***************************************************************************)

NTService == {"StartServiceRpc", "StopServiceRpc", "QueryServiceRpc", "SetServiceStartModeRpc"}
ComputerName == {"SetComputerNameRpc", "GetComputerNameRpc", "IsComputerRenamePendingRpc"}
Telemetry == {"SetTelemetryLevelRpc", "GetTelemetryLevelRpc"}
Tpm == {"GetEndorsementKeyRpc", "GetRegistrationIdRpc", "GetConnectionStringRpc"}
ShutdownMgmt == {"ShutdownRpc"}
UwpAppMgmt == {"SetAppStartupRpc"}

RpcInterface == {NTService, ComputerName, Telemetry, Tpm, ShutdownMgmt, UwpAppMgmt}

-----------------------------------------------------------------------------
\* Each class maps its methods to the procedures they call.

NTServiceBridge ==
  [Start |-> "StartServiceRpc", Stop |-> "StopServiceRpc",
   Query |-> "QueryServiceRpc", SetStartMode |-> "SetServiceStartModeRpc"]

ComputerNameBridge ==
  [SetName |-> "SetComputerNameRpc", GetName |-> "GetComputerNameRpc",
   IsRenamePending |-> "IsComputerRenamePendingRpc"]

TelemetryLevelBridge ==
  [SetLevel |-> "SetTelemetryLevelRpc", GetLevel |-> "GetTelemetryLevelRpc"]

TpmBridge ==
  [GetEndorsementKey |-> "GetEndorsementKeyRpc", GetRegistrationId |-> "GetRegistrationIdRpc",
   GetConnectionString |-> "GetConnectionStringRpc"]

ShutdownMgmtBridge == [Shutdown |-> "ShutdownRpc"]

UwpAppMgmtBridge == [SetAppStartup |-> "SetAppStartupRpc"]

Bridge ==
  [NTServiceBridge |-> NTServiceBridge, ComputerNameBridge |-> ComputerNameBridge,
   TelemetryLevelBridge |-> TelemetryLevelBridge, TpmBridge |-> TpmBridge,
   ShutdownMgmtBridge |-> ShutdownMgmtBridge, UwpAppMgmtBridge |-> UwpAppMgmtBridge]

Calls(class) == {Bridge[class][m] : m \in DOMAIN Bridge[class]}
Methods == UNION {DOMAIN Bridge[class] : class \in DOMAIN Bridge}

\* The methods of a class call the procedures of one interface, all of them,
\* and no two classes share one.
ASSUME BridgesMatchInterfaces ==
  /\ {Calls(class) : class \in DOMAIN Bridge} = RpcInterface
  /\ \A p, q \in RpcInterface : p = q \/ p \cap q = {}
=============================================================================
