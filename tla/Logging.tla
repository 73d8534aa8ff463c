------------------------------ MODULE Logging ------------------------------
(***************************************************************************)
(* Logging of DMBridge.exe: the global Logger of each process, the         *)
(* registry value DebugLogFile that a process reads when it starts and     *)
(* that -logging enable and disable write, and the log files, which        *)
(* several processes may append to.                                        *)
(*                                                                         *)
(* A line is the thread that wrote it.  The lines of a process go to its   *)
(* console, then to its log file, then, when the guard is gone, to ETW;    *)
(* what is on the console or in an ETW trace is not kept, as nothing here  *)
(* reads it.                                                               *)
(***************************************************************************)
EXTENDS Naturals, Sequences

CONSTANTS
  Process, Thread,
  NoThread,
  Owner,        \* the process of each thread
  Main,         \* the main thread of each process
  File,         \* paths of log files
  Size,         \* their lengths
  Off,          \* the empty path: file logging is disabled
  Missing,      \* the registry value does not exist
  MaxLines      \* bound: lines in a log file

ASSUME ThreadAssumption ==
  /\ Owner \in [Thread -> Process]
  /\ Main \in [Process -> Thread]
  /\ \A p \in Process : Owner[Main[p]] = p
  /\ NoThread \notin Thread
ASSUME FileAssumption ==
  /\ Off \notin File /\ Missing \notin File \cup {Off}
  /\ Size \in [File -> Nat \ {0}]
  /\ MaxLines \in Nat

VARIABLES
  debugLogFile, \* the registry value
  file,         \* the lines of each log file
  stage,        \* how far each process is
  size,         \* the size its first RegGetValue has told
  logFileName,  \* _logFileName of its Logger
  mutex,        \* the holder of _mutex of its Logger
  at,           \* where each thread is in Log
  position      \* where its line will be written

processVars == <<debugLogFile, stage, size>>
lineVars == <<file, at, position>>
vars == <<processVars, lineVars, logFileName, mutex>>

Setting == File \cup {Off}
Step == {"none", "Console", "Open", "Seek", "Write", "Trace"}

TypeOK ==
  /\ debugLogFile \in Setting \cup {Missing}
  /\ file \in [File -> Seq(Thread)]
  /\ stage \in [Process -> {"none", "ReadSize", "ReadData", "wmain"}]
  /\ size \in [Process -> Nat]
  /\ logFileName \in [Process -> Setting]
  /\ mutex \in [Process -> Thread \cup {NoThread}]
  /\ at \in [Thread -> Step]
  /\ position \in [Thread -> Nat]

Init ==
  /\ debugLogFile \in Setting \cup {Missing}
  /\ file = [f \in File |-> <<>>]
  /\ stage = [p \in Process |-> "none"]
  /\ size = [p \in Process |-> 0]
  /\ logFileName = [p \in Process |-> Off]
  /\ mutex = [p \in Process |-> NoThread]
  /\ at = [t \in Thread |-> "none"]
  /\ position = [t \in Thread |-> 0]

\* What RegGetValue says of a string.
SizeOf(v) == IF v \in File THEN Size[v] ELSE 0
Quiet(p) == \A t \in Thread : Owner[t] = p => at[t] = "none"

-----------------------------------------------------------------------------
(* A process: its start, -logging enable and disable, its end.  Every      *)
(* other command only logs.                                                *)

\* The loader constructs gLogger, without a log file.
Begin(p) ==
  /\ stage[p] = "none"
  /\ stage' = [stage EXCEPT ![p] = "ReadSize"]
  /\ UNCHANGED <<debugLogFile, size, lineVars, logFileName, mutex>>

\* TryReadRegistryValue asks for the size of the string first ...
ReadSize(p) ==
  /\ stage[p] = "ReadSize"
  /\ debugLogFile # Missing
  /\ size' = [size EXCEPT ![p] = SizeOf(debugLogFile)]
  /\ stage' = [stage EXCEPT ![p] = "ReadData"]
  /\ UNCHANGED <<debugLogFile, lineVars, logFileName, mutex>>

HasRead(p) ==
  /\ stage' = [stage EXCEPT ![p] = "wmain"]
  /\ size' = [size EXCEPT ![p] = 0]

\* ... then for the string, into a buffer of that size, and wmain hands it to
\* gLogger.
ReadData(p) ==
  /\ stage[p] = "ReadData"
  /\ debugLogFile # Missing /\ SizeOf(debugLogFile) <= size[p]
  /\ logFileName' = [logFileName EXCEPT ![p] = debugLogFile]
  /\ HasRead(p)
  /\ UNCHANGED <<debugLogFile, lineVars, mutex>>

\* Either read fails: the value is not there, or no longer fits, or cannot be
\* read; the process runs without a log file.
ReadFails(p) ==
  /\ stage[p] \in {"ReadSize", "ReadData"}
  /\ HasRead(p)
  /\ UNCHANGED <<debugLogFile, lineVars, logFileName, mutex>>

\* -logging enable {file}, -logging disable: the processes that run already
\* keep their log file, this one too.
WriteRegistryValue(p) ==
  /\ stage[p] = "wmain" /\ at[Main[p]] = "none"
  /\ debugLogFile' \in Setting
  /\ UNCHANGED <<stage, size, lineVars, logFileName, mutex>>

Dead(p) ==
  /\ stage' = [stage EXCEPT ![p] = "none"]
  /\ size' = [size EXCEPT ![p] = 0]
  /\ logFileName' = [logFileName EXCEPT ![p] = Off]
  /\ mutex' = [mutex EXCEPT ![p] = NoThread]
  /\ at' = [t \in Thread |-> IF Owner[t] = p THEN "none" ELSE at[t]]
  /\ position' = [t \in Thread |-> IF Owner[t] = p THEN 0 ELSE position[t]]
  /\ UNCHANGED <<debugLogFile, file>>

\* wmain returns when the other threads are done.
Exit(p) == stage[p] = "wmain" /\ Quiet(p) /\ Dead(p)

Crash(p) == stage[p] = "wmain" /\ ~Quiet(p) /\ Dead(p)

-----------------------------------------------------------------------------
(* Logger::Log, in any thread of a process that is in wmain.               *)

Goes(t, from, to) == at[t] = from /\ at' = [at EXCEPT ![t] = to]

Log(t) ==
  /\ stage[Owner[t]] = "wmain"
  /\ Goes(t, "none", "Console")
  /\ UNCHANGED <<processVars, file, position, logFileName, mutex>>

\* The first guard: wcout.
WriteConsole(t) ==
  /\ mutex[Owner[t]] = NoThread
  /\ Goes(t, "Console", IF logFileName[Owner[t]] = Off THEN "Trace" ELSE "Open")
  /\ UNCHANGED <<processVars, file, position, logFileName, mutex>>

\* Mutant: the file is opened and written without the guard.
LockFile_Unlocked(t) ==
  /\ Goes(t, "Open", "Seek")
  /\ UNCHANGED <<processVars, file, position, logFileName, mutex>>

\* The second guard, around the file.
LockFile(t) ==
  /\ mutex[Owner[t]] = NoThread
  /\ Goes(t, "Open", "Seek")
  /\ mutex' = [mutex EXCEPT ![Owner[t]] = t]
  /\ UNCHANGED <<processVars, file, position, logFileName>>

\* Mutant: locked and unlocked by hand, and the failure returns early.
OpenFails_KeepsLock(t) ==
  /\ Goes(t, "Seek", "Trace")
  /\ UNCHANGED <<processVars, file, position, logFileName, mutex>>

\* The file cannot be opened: the line is not in it, and nobody is told.
OpenFails(t) ==
  /\ Goes(t, "Seek", "Trace")
  /\ mutex' = [mutex EXCEPT ![Owner[t]] = NoThread]
  /\ UNCHANGED <<processVars, file, position, logFileName>>

\* The buffered line is flushed by close(): the C runtime seeks to the end ...
Seek(t) ==
  /\ Goes(t, "Seek", "Write")
  /\ Len(file[logFileName[Owner[t]]]) < MaxLines
  /\ position' = [position EXCEPT ![t] = Len(file[logFileName[Owner[t]]]) + 1]
  /\ UNCHANGED <<processVars, file, logFileName, mutex>>

\* ... and writes where it is then, over what another process has put there.
Write(t) ==
  LET f == logFileName[Owner[t]]
      i == position[t]
  IN /\ Goes(t, "Write", "Trace")
     /\ file' = [file EXCEPT ![f] = IF i <= Len(@) THEN [@ EXCEPT ![i] = t] ELSE Append(@, t)]
     /\ position' = [position EXCEPT ![t] = 0]
     /\ mutex' = [mutex EXCEPT ![Owner[t]] = NoThread]
     /\ UNCHANGED <<processVars, logFileName>>

\* One event of the provider, whatever the level.
Trace(t) ==
  /\ Goes(t, "Trace", "none")
  /\ UNCHANGED <<processVars, file, position, logFileName, mutex>>

-----------------------------------------------------------------------------
Logs(t) ==
  WriteConsole(t) \/ LockFile(t) \/ OpenFails(t) \/ Seek(t) \/ Write(t) \/ Trace(t)

Next ==
  \/ \E p \in Process : Begin(p) \/ ReadSize(p) \/ ReadData(p) \/ ReadFails(p)
                          \/ WriteRegistryValue(p) \/ Exit(p) \/ Crash(p)
  \/ \E t \in Thread : Log(t) \/ Logs(t)

Spec == Init /\ [][Next]_vars

\* A thread in Log is scheduled, and gets a mutex that is free again and again.
Fairness == \A t \in Thread : SF_vars(Logs(t))

FairSpec == Spec /\ Fairness

-----------------------------------------------------------------------------
\* The lines of one process never overwrite each other: a line is lost only
\* to another process that appends to the same file, which the mutex of the
\* Logger cannot keep out.
LinesOfAProcessSurvive ==
  [][\A f \in File : \A i \in 1 .. Len(file[f]) :
       file'[f][i] # file[f][i] => Owner[file'[f][i]] # Owner[file[f][i]]]_vars

\* A thread never stays in Log, whatever happens to the file or to the threads
\* that write it.
LogReturns == \A t \in Thread : at[t] # "none" ~> at[t] = "none"

=============================================================================
