------------------------- MODULE MCBridgeClient -------------------------
EXTENDS BridgeClient

\* 16 DWORDs: INT32 is -8..7, and the DWORD 15 is read as -1.
MCOtherLevel == {15}
MCClass == {"TelemetryLevelBridge", "TpmBridge"}
MCArgument == {-1, 2}
=============================================================================
