--------------------------- MODULE LoggingProofs ---------------------------
(***************************************************************************)
(* Proofs about Logging, for any processes, threads, log files and sizes.  *)
(***************************************************************************)
EXTENDS Logging, SequenceTheorems, TLAPS

-----------------------------------------------------------------------------
\* The log file that a thread's line goes to.
Target(t) == file[logFileName[Owner[t]]]

\* A thread that has the file open holds the mutex of its process, and what has
\* been written where it is about to write is of other processes.
LineInv(t) ==
  /\ at[t] # "none" => stage[Owner[t]] = "wmain"
  /\ at[t] \in {"Open", "Seek", "Write"} => logFileName[Owner[t]] \in File
  /\ at[t] \in {"Seek", "Write"} => mutex[Owner[t]] = t
  /\ at[t] = "Write" =>
       /\ position[t] \in 1 .. Len(Target(t)) + 1
       /\ \A j \in position[t] .. Len(Target(t)) : Owner[Target(t)[j]] # Owner[t]

IInv ==
  /\ TypeOK
  /\ \A t \in Thread : LineInv(t)

-----------------------------------------------------------------------------
LEMMA InitInv == Init => IInv
BY ThreadAssumption, FileAssumption
   DEF Init, IInv, TypeOK, Setting, Step, LineInv

\* What a Write does to its file: the line is where the thread was, every other
\* line stays, and the file never shrinks.
LEMMA WriteOneLine ==
  ASSUME NEW s \in Seq(Thread), NEW t \in Thread, NEW i \in 1 .. Len(s) + 1,
         NEW r, r = IF i <= Len(s) THEN [s EXCEPT ![i] = t] ELSE Append(s, t)
  PROVE  /\ r \in Seq(Thread)
         /\ Len(r) >= Len(s) /\ Len(r) <= Len(s) + 1
         /\ Len(r) = Len(s) + 1 => i = Len(s) + 1
         /\ \A j \in 1 .. Len(r) : IF j = i THEN r[j] = t ELSE j \in 1 .. Len(s) /\ r[j] = s[j]
<1>0. Len(s) \in Nat
  BY LenProperties
<1>1. CASE i <= Len(s)
  <2>1. i \in 1 .. Len(s)
    BY <1>0, <1>1
  <2>2. QED BY <1>0, <1>1, <2>1, ExceptSeq
<1>2. CASE i = Len(s) + 1
  <2>1. r = Append(s, t)
    BY <1>0, <1>2
  <2>2. QED BY <1>0, <1>2, <2>1, AppendProperties
<1>3. QED BY <1>0, <1>1, <1>2

LEMMA WriteInv == ASSUME IInv, NEW t \in Thread, Write(t) PROVE IInv'
<1> DEFINE f == logFileName[Owner[t]]
           i == position[t]
<1>0. /\ TypeOK /\ LineInv(t) /\ at[t] = "Write"
      /\ Owner[t] \in Process /\ f \in File /\ mutex[Owner[t]] = t
      /\ i \in 1 .. Len(file[f]) + 1 /\ file[f] \in Seq(Thread)
  BY ThreadAssumption DEF IInv, Write, Goes, LineInv, TypeOK, Target
<1>1. /\ file'[f] = IF i <= Len(file[f]) THEN [file[f] EXCEPT ![i] = t] ELSE Append(file[f], t)
      /\ \A g \in File \ {f} : file'[g] = file[g]
      /\ DOMAIN file' = File
  BY <1>0 DEF Write, TypeOK
<1>2. /\ file'[f] \in Seq(Thread)
      /\ Len(file'[f]) >= Len(file[f]) /\ Len(file'[f]) <= Len(file[f]) + 1
      /\ Len(file'[f]) = Len(file[f]) + 1 => i = Len(file[f]) + 1
      /\ \A j \in 1 .. Len(file'[f]) :
           IF j = i THEN file'[f][j] = t ELSE j \in 1 .. Len(file[f]) /\ file'[f][j] = file[f][j]
  <2> HIDE DEF f, i
  <2>1. QED BY <1>0, <1>1, WriteOneLine
<1>3. TypeOK'
  <2>1. file' \in [File -> Seq(Thread)]
    <3> HIDE DEF f, i
    <3>1. \A g \in File : file'[g] \in Seq(Thread)
      BY <1>0, <1>1, <1>2 DEF TypeOK
    <3>2. file' = [g \in File |-> file'[g]]
      BY <1>0 DEF Write, TypeOK
    <3>3. QED BY <3>1, <3>2
  <2>2. /\ at' \in [Thread -> Step] /\ position' \in [Thread -> Nat]
        /\ mutex' \in [Process -> Thread \cup {NoThread}]
    BY <1>0 DEF Write, Goes, TypeOK, Step
  <2>3. QED BY <1>0, <2>1, <2>2 DEF Write, processVars, TypeOK
<1>4. ASSUME NEW u \in Thread PROVE LineInv(u)'
  <2>0. LineInv(u) /\ Owner[u] \in Process
    BY ThreadAssumption DEF IInv
  <2>1. CASE u = t
    <3>1. at'[t] = "Trace" /\ stage' = stage
      BY <1>0 DEF Write, Goes, processVars, TypeOK
    <3>2. QED BY <1>0, <2>1, <3>1 DEF LineInv
  <2>2. CASE u # t
    <3>1. /\ at'[u] = at[u] /\ position'[u] = position[u]
          /\ stage' = stage /\ logFileName' = logFileName
          /\ \A p \in Process \ {Owner[t]} : mutex'[p] = mutex[p]
      BY <1>0, <2>2 DEF Write, Goes, processVars, TypeOK
    <3>2. at[u] \in {"Seek", "Write"} => Owner[u] # Owner[t] /\ mutex'[Owner[u]] = u
      BY <1>0, <2>0, <2>2, <3>1 DEF LineInv
    <3>3. ASSUME at[u] = "Write"
          PROVE  /\ position[u] \in 1 .. Len(Target(u)') + 1
                 /\ \A j \in position[u] .. Len(Target(u)') : Owner[Target(u)'[j]] # Owner[u]
      <4>1. /\ position[u] \in 1 .. Len(Target(u)) + 1
            /\ \A j \in position[u] .. Len(Target(u)) : Owner[Target(u)[j]] # Owner[u]
            /\ logFileName[Owner[u]] \in File /\ Target(u) \in Seq(Thread)
            /\ Owner[u] # Owner[t]
        BY <2>0, <3>2, <3>3, <1>0 DEF LineInv, TypeOK, Target
      <4>2. CASE logFileName[Owner[u]] = f
        <5>1. Target(u) = file[f] /\ Target(u)' = file'[f]
          BY <3>1, <4>2 DEF Target
        <5> HIDE DEF f, i
        <5>2. Len(file[f]) \in Nat /\ Len(file'[f]) \in Nat
          BY <1>0, <1>2, LenProperties
        <5>3. ASSUME NEW j \in position[u] .. Len(file'[f]) PROVE Owner[file'[f][j]] # Owner[u]
          BY <1>2, <4>1, <5>1, <5>2
        <5>4. QED BY <1>2, <4>1, <5>1, <5>2, <5>3
      <4>3. CASE logFileName[Owner[u]] # f
        <5>1. Target(u)' = Target(u)
          BY <1>1, <3>1, <4>1, <4>3 DEF Target
        <5>2. QED BY <4>1, <5>1
      <4>4. QED BY <4>2, <4>3
    <3>4. QED BY <2>0, <3>1, <3>2, <3>3 DEF LineInv
  <2>3. QED BY <2>1, <2>2
<1>5. QED BY <1>3, <1>4 DEF IInv

-----------------------------------------------------------------------------
LEMMA StepInv == IInv /\ [Next]_vars => IInv'
<1> SUFFICES ASSUME IInv, [Next]_vars PROVE IInv'
  OBVIOUS
<1>0. TypeOK /\ \A t \in Thread : LineInv(t) /\ Owner[t] \in Process
  BY ThreadAssumption DEF IInv
<1> USE ThreadAssumption, FileAssumption, <1>0
    DEF IInv, TypeOK, Setting, Step, LineInv, Target, processVars, lineVars, Goes, HasRead
<1>1. ASSUME NEW p \in Process, Begin(p) PROVE IInv'
  BY <1>1 DEF Begin
<1>2. ASSUME NEW p \in Process, ReadSize(p) PROVE IInv'
  BY <1>2 DEF ReadSize, SizeOf
<1>3. ASSUME NEW p \in Process, ReadData(p) PROVE IInv'
  <2>1. TypeOK'
    BY <1>3 DEF ReadData
  <2>2. \A t \in Thread : LineInv(t)'
    BY <1>3 DEF ReadData
  <2>3. QED BY <1>3, <2>1, <2>2 DEF ReadData
<1>4. ASSUME NEW p \in Process, ReadFails(p) PROVE IInv'
  BY <1>4 DEF ReadFails
<1>5. ASSUME NEW p \in Process, WriteRegistryValue(p) PROVE IInv'
  <2>1. TypeOK'
    BY <1>5 DEF WriteRegistryValue
  <2>2. \A t \in Thread : LineInv(t)'
    BY <1>5 DEF WriteRegistryValue
  <2>3. QED BY <1>5, <2>1, <2>2 DEF WriteRegistryValue
<1>6. ASSUME NEW p \in Process, Dead(p) PROVE IInv'
  <2>1. TypeOK'
    BY <1>6 DEF Dead
  <2>2. \A t \in Thread : LineInv(t)'
    BY <1>6 DEF Dead
  <2>3. QED BY <1>6, <2>1, <2>2 DEF Dead
<1>7. ASSUME NEW t \in Thread, Log(t) PROVE IInv'
  BY <1>7 DEF Log
<1>8. ASSUME NEW t \in Thread, WriteConsole(t) PROVE IInv'
  BY <1>8 DEF WriteConsole
<1>9. ASSUME NEW t \in Thread, LockFile(t) PROVE IInv'
  <2>1. TypeOK'
    BY <1>9 DEF LockFile
  <2>2. \A u \in Thread : LineInv(u)'
    BY <1>9 DEF LockFile
  <2>3. QED BY <1>9, <2>1, <2>2 DEF LockFile
<1>10. ASSUME NEW t \in Thread, OpenFails(t) PROVE IInv'
  <2>1. TypeOK'
    BY <1>10 DEF OpenFails
  <2>2. \A u \in Thread : LineInv(u)'
    BY <1>10 DEF OpenFails
  <2>3. QED BY <1>10, <2>1, <2>2 DEF OpenFails
<1>11. ASSUME NEW t \in Thread, Seek(t) PROVE IInv'
  <2>0. Target(t) \in Seq(Thread) /\ Len(Target(t)) \in Nat
    BY <1>11, LenProperties DEF Seek
  <2>1. TypeOK'
    BY <1>11, <2>0 DEF Seek
  <2>2. \A u \in Thread \ {t} : LineInv(u)'
    BY <1>11 DEF Seek
  <2>3. LineInv(t)'
    <3>1. /\ at[t] = "Seek" /\ at'[t] = "Write" /\ position'[t] = Len(Target(t)) + 1
          /\ UNCHANGED <<file, logFileName, mutex, stage>>
      BY <1>11 DEF Seek
    <3>2. Target(t)' = Target(t)
      BY <3>1
    <3>3. /\ position'[t] \in 1 .. Len(Target(t)') + 1
          /\ position'[t] .. Len(Target(t)') = {}
      <4> HIDE DEF Target
      <4>1. QED BY <2>0, <3>1, <3>2
    <3>4. /\ stage'[Owner[t]] = "wmain" /\ logFileName'[Owner[t]] \in File
          /\ mutex'[Owner[t]] = t
      BY <3>1
    <3>5. QED BY ONLY <3>1, <3>3, <3>4 DEF LineInv
  <2>4. \A u \in Thread : LineInv(u)'
    BY ONLY <2>2, <2>3
  <2>5. QED BY ONLY <2>1, <2>4 DEF IInv
<1>12. ASSUME NEW t \in Thread, Trace(t) PROVE IInv'
  BY <1>12 DEF Trace
<1>13. CASE UNCHANGED vars
  BY <1>13 DEF vars
<1>14. QED
  BY <1>1, <1>2, <1>3, <1>4, <1>5, <1>6, <1>7, <1>8, <1>9, <1>10, <1>11, <1>12, <1>13, WriteInv
     DEF Next, Logs, Exit, Crash

\* Who is in the file, and where, in every process.
THEOREM Invariant == Spec => []IInv
<1>1. QED BY InitInv, StepInv, PTL DEF Spec

\* The types of the variables.
THEOREM TypeCorrect == Spec => []TypeOK
<1>1. IInv => TypeOK
  BY DEF IInv
<1>2. QED BY <1>1, Invariant, PTL

-----------------------------------------------------------------------------
\* The lines of one process never overwrite each other, whatever the other
\* processes do to the file.
THEOREM LinesOfAProcessSurviveAlways == Spec => LinesOfAProcessSurvive
<1> DEFINE A == \A f \in File : \A i \in 1 .. Len(file[f]) :
                  file'[f][i] # file[f][i] => Owner[file'[f][i]] # Owner[file[f][i]]
<1>1. IInv /\ [Next]_vars => A
  <2> SUFFICES ASSUME IInv, [Next]_vars, NEW f \in File, NEW i \in 1 .. Len(file[f]),
                      file'[f][i] # file[f][i]
               PROVE  Owner[file'[f][i]] # Owner[file[f][i]]
    OBVIOUS
  <2>1. PICK t \in Thread : Write(t)
    BY DEF Next, vars, processVars, lineVars, Logs, Begin, ReadSize, ReadData, ReadFails,
           WriteRegistryValue, Exit, Crash, Dead, Log, WriteConsole, LockFile, OpenFails, Seek, Trace
  <2>2. /\ at[t] = "Write" /\ LineInv(t) /\ file \in [File -> Seq(Thread)]
        /\ file[f] \in Seq(Thread) /\ Len(file[f]) \in Nat
    BY <2>1, LenProperties DEF Write, Goes, IInv, TypeOK
  <2>3. f = logFileName[Owner[t]] /\ position[t] \in 1 .. Len(file[f]) + 1
    BY <2>1, <2>2 DEF Write, LineInv, Target
  <2>4. file'[f] = IF position[t] <= Len(file[f]) THEN [file[f] EXCEPT ![position[t]] = t]
                                                  ELSE Append(file[f], t)
    BY <2>1, <2>2, <2>3 DEF Write
  <2>5. \A j \in 1 .. Len(file'[f]) :
          IF j = position[t] THEN file'[f][j] = t ELSE file'[f][j] = file[f][j]
    BY <2>2, <2>3, <2>4, WriteOneLine
  <2>6. Len(file'[f]) \in Nat /\ Len(file'[f]) >= Len(file[f])
    BY <2>2, <2>3, <2>4, WriteOneLine, LenProperties
  <2>7. i = position[t] /\ file'[f][i] = t
    BY <2>2, <2>5, <2>6
  <2>8. QED BY <2>2, <2>3, <2>7 DEF LineInv, Target
<1>2. QED BY <1>1, Invariant, PTL DEF Spec, LinesOfAProcessSurvive
=============================================================================
