-------------------------- MODULE TelemetryLevel --------------------------
(***************************************************************************)
(* The Telemetry API of the service: SetTelemetryLevelRpc and              *)
(* GetTelemetryLevelRpc, each call in an RPC thread of its own, over one   *)
(* DWORD of the registry that the policies of the machine write too.       *)
(*                                                                         *)
(* A DWORD has 2^w values (Dwords); the cast to INT32 wraps its upper half *)
(* to the negative numbers.                                                *)
(***************************************************************************)
EXTENDS Integers

CONSTANTS
  Caller,       \* RPC threads of the service, one for each calling client
  NoCaller,     \* "no thread"
  Missing,      \* the value is not in the registry, or is not a DWORD
  Dwords,       \* the number of DWORDs, 2^w
  OtherLevel,   \* DWORDs that others write
  Argument      \* INT32s that clients pass to Set

MinTelemetryLevel == 0
MaxTelemetryLevel == 3
INT32 == (-(Dwords \div 2)) .. (Dwords \div 2 - 1)

ASSUME DwordsAssumption == Dwords \in Nat /\ Dwords % 2 = 0 /\ Dwords \div 2 > MaxTelemetryLevel
ASSUME ValueAssumption ==
  /\ Missing \notin Int
  /\ OtherLevel \subseteq 0 .. (Dwords - 1)
  /\ Argument \subseteq INT32
  /\ NoCaller \notin Caller

VARIABLES
  registry,       \* AllowTelemetry of HKLM\...\Policies\DataCollection
  setLevelMutex,  \* the holder of _setLevelMutex
  at,             \* where each thread is
  level,          \* the argument of Set; what Get has read
  answer,         \* the HRESULT, "none" before there is one
  during,         \* history: what each Get may have found; Missing, when a read failed
  wrote           \* history: the level each call wrote, Missing for none

telemetryVars == <<registry, setLevelMutex, at, level, answer, during, wrote>>

\* "Other" is a procedure of another API.
Step == {"none", "Set", "Lock", "Write", "Size", "Data", "Other", "Answered"}
Stored == 0 .. (Dwords - 1) \cup {Missing}

TelemetryTypeOK ==
  /\ registry \in Stored
  /\ setLevelMutex \in Caller \cup {NoCaller}
  /\ at \in [Caller -> Step]
  /\ level \in [Caller -> INT32]
  /\ answer \in [Caller -> {"none", "S_OK", "ERROR_BAD_ARGUMENTS", "ERROR"}]
  /\ during \in [Caller -> SUBSET Stored]
  /\ wrote \in [Caller -> Stored]

TelemetryInit ==
  /\ registry \in OtherLevel \cup {Missing}
  /\ setLevelMutex = NoCaller
  /\ at = [c \in Caller |-> "none"]
  /\ level = [c \in Caller |-> 0]
  /\ answer = [c \in Caller |-> "none"]
  /\ during = [c \in Caller |-> {}]
  /\ wrote = [c \in Caller |-> Missing]

\* static_cast<INT32>.
Cast(d) == IF d < Dwords \div 2 THEN d ELSE d - Dwords

-----------------------------------------------------------------------------
\* The registry changes under the Gets that are being executed.
Store(v) ==
  /\ registry' = v
  /\ during' = [c \in Caller |-> IF at[c] \in {"Size", "Data"} THEN during[c] \cup {v} ELSE during[c]]

Moves(c, from, to) == at[c] = from /\ at' = [at EXCEPT ![c] = to]

\* The call is over: its thread has its answer.
Answer(c, hr) ==
  /\ at' = [at EXCEPT ![c] = "Answered"]
  /\ answer' = [answer EXCEPT ![c] = hr]

\* The runtime dispatches a call to a thread.
Dispatch(c, step, argument) ==
  /\ Moves(c, "none", step)
  /\ level' = [level EXCEPT ![c] = argument]
  /\ during' = [during EXCEPT ![c] = IF step = "Size" THEN {registry} ELSE {}]
  /\ UNCHANGED <<registry, setLevelMutex, answer, wrote>>

\* The thread goes back to the runtime with its answer.
Dismiss(c) ==
  /\ Moves(c, "Answered", "none")
  /\ level' = [level EXCEPT ![c] = 0]
  /\ answer' = [answer EXCEPT ![c] = "none"]
  /\ UNCHANGED <<registry, setLevelMutex, during, wrote>>

\* The process ends: its threads and its mutex are gone, the registry stays.
ThreadsAreLost ==
  /\ at' = [c \in Caller |-> "none"]
  /\ level' = [c \in Caller |-> 0]
  /\ answer' = [c \in Caller |-> "none"]
  /\ setLevelMutex' = NoCaller
  /\ UNCHANGED <<registry, during, wrote>>

\* The histories of a call end with it.
Forget(c) ==
  /\ during' = [during EXCEPT ![c] = {}]
  /\ wrote' = [wrote EXCEPT ![c] = Missing]
  /\ UNCHANGED <<registry, setLevelMutex, at, level, answer>>

\* Group policy, or an administrator.
OtherWrites ==
  /\ \E v \in OtherLevel \cup {Missing} : Store(v)
  /\ UNCHANGED <<setLevelMutex, at, level, answer, wrote>>

-----------------------------------------------------------------------------
(* TelemetryLevel::Set.                                                    *)

CheckLevel(c) ==
  /\ Moves(c, "Set", "Lock")
  /\ level[c] \in MinTelemetryLevel .. MaxTelemetryLevel
  /\ UNCHANGED <<registry, setLevelMutex, level, answer, during, wrote>>

InvalidLevel(c) ==
  /\ at[c] = "Set"
  /\ level[c] \notin MinTelemetryLevel .. MaxTelemetryLevel
  /\ Answer(c, "ERROR_BAD_ARGUMENTS")
  /\ UNCHANGED <<registry, setLevelMutex, level, during, wrote>>

LockLevel(c) ==
  /\ Moves(c, "Lock", "Write")
  /\ setLevelMutex = NoCaller
  /\ setLevelMutex' = c
  /\ UNCHANGED <<registry, level, answer, during, wrote>>

\* WriteRegistryValue: the key is created when it is missing, the value
\* replaced by one RegSetValueEx; the guard gives the mutex back.
WriteLevel(c) ==
  /\ at[c] = "Write"
  /\ Store(level[c])
  /\ wrote' = [wrote EXCEPT ![c] = level[c]]
  /\ Answer(c, "S_OK")
  /\ setLevelMutex' = NoCaller
  /\ UNCHANGED level

\* Mutant: the mutex is locked and unlocked by hand, and a throw passes it by.
WriteLevelFails_KeepsLock(c) ==
  /\ at[c] = "Write"
  /\ Answer(c, "ERROR")
  /\ UNCHANGED <<registry, setLevelMutex, level, during, wrote>>

\* Either registry call fails; a code of 0 is answered E_FAIL, so that no
\* exception is answered S_OK.
WriteLevelFails(c) ==
  /\ at[c] = "Write"
  /\ Answer(c, "ERROR")
  /\ setLevelMutex' = NoCaller
  /\ UNCHANGED <<registry, level, during, wrote>>

-----------------------------------------------------------------------------
(* TelemetryLevel::Get, without the mutex.  TryReadRegistryValue throws    *)
(* nothing, so the catch clauses of Get are never entered; its status is   *)
(* not looked at, and a value that cannot be read is level 0.              *)

\* The first RegGetValue: is there a DWORD.
ReadSize(c) ==
  /\ Moves(c, "Size", "Data")
  /\ registry # Missing
  /\ UNCHANGED <<registry, setLevelMutex, level, answer, during, wrote>>

\* The second RegGetValue.
ReadLevel(c) ==
  /\ at[c] = "Data"
  /\ registry # Missing
  /\ level' = [level EXCEPT ![c] = Cast(registry)]
  /\ Answer(c, "S_OK")
  /\ UNCHANGED <<registry, setLevelMutex, during, wrote>>

\* Either call fails: the value is not there (any more), or cannot be read.
ReadFails(c) ==
  /\ at[c] \in {"Size", "Data"}
  /\ Answer(c, "S_OK")
  /\ during' = [during EXCEPT ![c] = @ \cup {Missing}]
  /\ UNCHANGED <<registry, setLevelMutex, level, wrote>>

-----------------------------------------------------------------------------
TelemetryThread(c) ==
  \/ CheckLevel(c) \/ InvalidLevel(c) \/ LockLevel(c) \/ WriteLevel(c) \/ WriteLevelFails(c)
  \/ ReadSize(c) \/ ReadLevel(c) \/ ReadFails(c)

=============================================================================
