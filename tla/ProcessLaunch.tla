-------------------------- MODULE ProcessLaunch --------------------------
(***************************************************************************)
(* Utils Process::Launch: run a command, collect what it prints through an *)
(* anonymous pipe, return its exit code.  Several calls may be in Launch   *)
(* at once; CreateProcess lets a child inherit every inheritable handle of *)
(* the server, hence also the write ends of the pipes of other calls.      *)
(*                                                                         *)
(* Launch number c has the pipe c and the child c.  What a child prints is *)
(* numbered in chunks, each a text without NULs or a NUL; a pipe holds     *)
(* Capacity of them.                                                       *)
(***************************************************************************)
EXTENDS Naturals, Sequences

CONSTANTS
  Launch,       \* concurrent calls
  Server,       \* DMBridge.exe as a holder of write ends
  Capacity,     \* chunks a pipe buffers (pipeBufferSize)
  MaxOutput,    \* bound: chunks a child prints
  Nul,          \* the chunks that are a NUL: pairs of a child and a number
  ExitCode      \* the exit codes of children

ASSUME ServerAssumption == Server \notin Launch
ASSUME CapacityAssumption == Capacity \in Nat \ {0}
ASSUME MaxOutputAssumption == MaxOutput \in Nat
ASSUME NulAssumption == Nul \subseteq Launch \X Nat
ASSUME ExitCodeAssumption == 0 \in ExitCode

VARIABLES
  pc,          \* where Launch is
  child,       \* the child process: not created, running, or exited
  toPrint,     \* chunks the child has still to print
  exitCode,    \* the code the child has exited with
  pipe,        \* chunks in the pipe
  writers,     \* the processes that hold the write end of the pipe
  output,      \* the chunks in output, by their numbers
  returnCode,  \* the caller's variable
  printed,     \* auxiliary: chunks the child has printed
  faulty       \* auxiliary: a Windows call of this launch failed

launchVars == <<pc, child, toPrint, exitCode, pipe, writers, output, returnCode, printed, faulty>>

LaunchStep == {"idle", "CreatePipe", "CreateProcess", "Wait", "Peek", "LastPeek", "returned", "thrown"}
ChildState == {"none", "running", "exited"}

LaunchTypeOK ==
  /\ pc \in [Launch -> LaunchStep]
  /\ child \in [Launch -> ChildState]
  /\ toPrint \in [Launch -> 0..MaxOutput]
  /\ exitCode \in [Launch -> ExitCode]
  /\ pipe \in [Launch -> 0..Capacity]
  /\ writers \in [Launch -> SUBSET (Launch \cup {Server})]
  /\ output \in [Launch -> Seq(1..MaxOutput)]
  /\ returnCode \in [Launch -> ExitCode]
  /\ printed \in [Launch -> 0..MaxOutput]
  /\ faulty \in [Launch -> BOOLEAN]

LaunchInit ==
  /\ pc = [c \in Launch |-> "idle"]
  /\ child = [c \in Launch |-> "none"]
  /\ toPrint = [c \in Launch |-> 0]
  /\ exitCode = [c \in Launch |-> 0]
  /\ pipe = [c \in Launch |-> 0]
  /\ writers = [c \in Launch |-> {}]
  /\ output = [c \in Launch |-> <<>>]
  /\ returnCode = [c \in Launch |-> 0]
  /\ printed = [c \in Launch |-> 0]
  /\ faulty = [c \in Launch |-> FALSE]

Goto(c, step) == pc' = [pc EXCEPT ![c] = step]

\* AutoCloseHandle closes the server's write end on every way out.
Leave(c, step) ==
  /\ Goto(c, step)
  /\ writers' = [writers EXCEPT ![c] = @ \ {Server}]

-----------------------------------------------------------------------------
\* A caller enters Launch with its returnCode set to 0 (Tpm leaves it
\* uninitialised and never reads it).
Enter(c) ==
  /\ pc[c] = "idle"
  /\ Goto(c, "CreatePipe")
  /\ UNCHANGED <<child, toPrint, exitCode, pipe, writers, output, returnCode, printed, faulty>>

CreatePipe(c) ==
  /\ pc[c] = "CreatePipe"
  /\ writers' = [writers EXCEPT ![c] = {Server}]
  /\ Goto(c, "CreateProcess")
  /\ UNCHANGED <<child, toPrint, exitCode, pipe, output, returnCode, printed, faulty>>

\* CreatePipe, SetHandleInformation or CreateProcess fails.
Throw(c) ==
  /\ pc[c] \in {"CreatePipe", "CreateProcess"}
  /\ Leave(c, "thrown")
  /\ faulty' = [faulty EXCEPT ![c] = TRUE]
  /\ UNCHANGED <<child, toPrint, exitCode, pipe, output, returnCode, printed>>

\* bInheritHandles is TRUE: the child gets every write end the server holds.
CreateProcess(c) ==
  /\ pc[c] = "CreateProcess"
  /\ child' = [child EXCEPT ![c] = "running"]
  /\ \E n \in 0..MaxOutput : toPrint' = [toPrint EXCEPT ![c] = n]
  /\ writers' = [d \in Launch |-> IF Server \in writers[d] THEN writers[d] \cup {c} ELSE writers[d]]
  /\ Goto(c, "Wait")
  /\ UNCHANGED <<exitCode, pipe, output, returnCode, printed, faulty>>

\* Mutant: WaitForSingleObject(hProcess, INFINITE).
WaitTimesOut_Infinite(c) == FALSE

\* The wait times out after a second: the child still runs.
WaitTimesOut(c) ==
  /\ pc[c] = "Wait"
  /\ child[c] = "running"
  /\ Goto(c, "Peek")
  /\ UNCHANGED <<child, toPrint, exitCode, pipe, writers, output, returnCode, printed, faulty>>

\* Mutant: the exit of the child ends the loop without another look.
ChildGone_NoLastPeek(c) ==
  /\ pc[c] = "Wait"
  /\ child[c] = "exited"
  /\ returnCode' = [returnCode EXCEPT ![c] = exitCode[c]]
  /\ Leave(c, "returned")
  /\ UNCHANGED <<faulty, child, toPrint, exitCode, pipe, output, printed>>

\* Mutant: the loop ends when the pipe breaks, not when the child exits.
ChildGone_WaitsForEOF(c) ==
  /\ pc[c] = "Wait"
  /\ child[c] = "exited" /\ writers[c] \subseteq {Server}
  /\ returnCode' = [returnCode EXCEPT ![c] = exitCode[c]]
  /\ Leave(c, "LastPeek")
  /\ UNCHANGED <<faulty, child, toPrint, exitCode, pipe, output, printed>>

\* The child has exited: read its code, close the write end, and look at the
\* pipe once more.  A failure to get the code is ignored.
ChildGone(c) ==
  /\ pc[c] = "Wait"
  /\ child[c] = "exited"
  /\ \/ /\ returnCode' = [returnCode EXCEPT ![c] = exitCode[c]]
        /\ UNCHANGED faulty
     \/ /\ faulty' = [faulty EXCEPT ![c] = TRUE]
        /\ UNCHANGED returnCode
  /\ Leave(c, "LastPeek")
  /\ UNCHANGED <<child, toPrint, exitCode, pipe, output, printed>>

\* How many chunks have been read from the pipe.
Taken(c) == printed[c] - pipe[c]

\* Mutant: what is peeked is appended but left in the pipe.
Peek_NotRead(c) ==
  /\ pc[c] \in {"Peek", "LastPeek"}
  /\ pipe[c] > 0 \/ writers[c] # {}
  /\ output' = [output EXCEPT ![c] = @ \o [i \in 1..pipe[c] |-> Taken(c) + i]]
  /\ Goto(c, IF pc[c] = "LastPeek" THEN "returned" ELSE "Wait")
  /\ UNCHANGED <<pipe, child, toPrint, exitCode, writers, returnCode, printed, faulty>>

\* PeekNamedPipe and ReadFile take all there is; the buffer is appended as a C
\* string, up to its first NUL (after n chunks).
Peek(c) ==
  /\ pc[c] \in {"Peek", "LastPeek"}
  /\ pipe[c] > 0 \/ writers[c] # {}
  /\ \E n \in 0..pipe[c] :
       /\ \A i \in 1..n : <<c, Taken(c) + i>> \notin Nul
       /\ n = pipe[c] \/ <<c, Taken(c) + n + 1>> \in Nul
       /\ output' = [output EXCEPT ![c] = @ \o [i \in 1..n |-> Taken(c) + i]]
  /\ pipe' = [pipe EXCEPT ![c] = 0]
  /\ Goto(c, IF pc[c] = "LastPeek" THEN "returned" ELSE "Wait")
  /\ UNCHANGED <<child, toPrint, exitCode, writers, returnCode, printed, faulty>>

\* ReadFile fails: nothing is appended, and the loop goes on.
ReadFails(c) ==
  /\ pc[c] \in {"Peek", "LastPeek"}
  /\ pipe[c] > 0
  /\ faulty' = [faulty EXCEPT ![c] = TRUE]
  /\ Goto(c, IF pc[c] = "LastPeek" THEN "returned" ELSE "Wait")
  /\ UNCHANGED <<child, toPrint, exitCode, pipe, writers, output, returnCode, printed>>

\* An empty pipe that nobody can write to any more is broken: the loop ends.
PeekBroken(c) ==
  /\ pc[c] \in {"Peek", "LastPeek"}
  /\ pipe[c] = 0 /\ writers[c] = {}
  /\ Leave(c, "returned")
  /\ UNCHANGED <<child, toPrint, exitCode, pipe, output, returnCode, printed, faulty>>

\* Any other failure of PeekNamedPipe ends the loop as well, child or no child.
PeekFails(c) ==
  /\ pc[c] \in {"Peek", "LastPeek"}
  /\ faulty' = [faulty EXCEPT ![c] = TRUE]
  /\ Leave(c, "returned")
  /\ UNCHANGED <<child, toPrint, exitCode, pipe, output, returnCode, printed>>

-----------------------------------------------------------------------------
(* The children (external).                                                *)

\* A child blocks on a full pipe; once Launch has closed the read end its
\* writes fail and what it prints is gone.
ChildPrints(c) ==
  /\ child[c] = "running" /\ toPrint[c] > 0
  /\ toPrint' = [toPrint EXCEPT ![c] = @ - 1]
  /\ \/ /\ pc[c] # "returned"
        /\ pipe[c] < Capacity
        /\ pipe' = [pipe EXCEPT ![c] = @ + 1]
        /\ printed' = [printed EXCEPT ![c] = @ + 1]
     \/ /\ pc[c] = "returned"
        /\ UNCHANGED <<pipe, printed>>
  /\ UNCHANGED <<pc, child, exitCode, writers, output, returnCode, faulty>>

\* An exit closes the child's handles, the inherited ones included.
ChildExits(c) ==
  /\ child[c] = "running" /\ toPrint[c] = 0
  /\ child' = [child EXCEPT ![c] = "exited"]
  /\ \E code \in ExitCode : exitCode' = [exitCode EXCEPT ![c] = code]
  /\ writers' = [d \in Launch |-> writers[d] \ {c}]
  /\ UNCHANGED <<pc, toPrint, pipe, output, returnCode, printed, faulty>>

-----------------------------------------------------------------------------
Parent(c) ==
  \/ CreatePipe(c) \/ Throw(c) \/ CreateProcess(c) \/ WaitTimesOut(c) \/ ChildGone(c)
  \/ Peek(c) \/ ReadFails(c) \/ PeekBroken(c) \/ PeekFails(c)

LaunchNext ==
  \E c \in Launch : Enter(c) \/ Parent(c) \/ ChildPrints(c) \/ ChildExits(c)

LaunchSpec == LaunchInit /\ [][LaunchNext]_launchVars

\* The server's threads run on, and a child that can print prints.  A child
\* need not exit.
LaunchFairSpec ==
  /\ LaunchSpec
  /\ \A c \in Launch : WF_launchVars(Parent(c)) /\ WF_launchVars(ChildPrints(c))

-----------------------------------------------------------------------------
\* Of the first n chunks, the caller has each once and in order, but for NULs and
\* what came behind a NUL in the same read (it may be more: one NUL is enough).
HasAllOf(c, n) ==
  /\ \A i \in 1..Len(output[c]) : output[c][i] \in 1..n
  /\ \A i, j \in 1..Len(output[c]) : i < j => output[c][i] < output[c][j]
  /\ \A k \in 1..n :
       \/ \E i \in 1..Len(output[c]) : output[c][i] = k
       \/ \E z \in 1..k : <<c, z>> \in Nul

\* Unless a Windows call failed, Launch returns the exit code of its child and all
\* that the child has printed before its first NUL: closing the write end before
\* the last look loses nothing, and nothing is read twice.  And whatever failed, a
\* code other than 0 is the child's.
ResultIsFaithful ==
  \A c \in Launch :
    pc[c] = "returned" =>
      /\ returnCode[c] # 0 => child[c] = "exited" /\ returnCode[c] = exitCode[c]
      /\ ~faulty[c] =>
           /\ child[c] = "exited" /\ toPrint[c] = 0
           /\ returnCode[c] = exitCode[c]
           /\ HasAllOf(c, printed[c])

\* The server never keeps a write end after Launch, in whatever way it ended.
WriteEndIsClosed ==
  \A c \in Launch : pc[c] \in {"returned", "thrown"} => Server \notin writers[c]

\* Whatever fails, what the child has printed before its first NUL is with the
\* caller or in the pipe, once and in order.
NoChunkLost ==
  \A c \in Launch : HasAllOf(c, Taken(c))

\* A child is never stuck on a full pipe, unless a Windows call failed: Launch
\* drains the pipe while it waits.
FullPipeIsDrained ==
  \A c \in Launch :
    child[c] = "running" /\ toPrint[c] > 0 ~> toPrint[c] = 0 \/ faulty[c]

\* Launch returns once its own child has exited, although a child of another
\* call that never exits may hold the write end of this pipe.
ReturnsAfterOwnChild ==
  \A c \in Launch : child[c] = "exited" ~> pc[c] = "returned"

=============================================================================
