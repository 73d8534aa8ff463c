------------------------- MODULE CommandApiProofs -------------------------
(***************************************************************************)
(* Proofs about ProcessLaunch, for any number of launches, any capacity of *)
(* the pipes and any output of the children; and about CommandApi on top   *)
(* of them, for any calls.                                                 *)
(***************************************************************************)
EXTENDS CommandApi, SequenceTheorems, TLAPS

-----------------------------------------------------------------------------
(* The state of one launch, by where Launch is.                            *)

\* The pipe holds some of what the child has printed, which has more to print only
\* while it runs.
Counted(c) ==
  /\ pipe[c] <= printed[c]
  /\ printed[c] + toPrint[c] <= MaxOutput
  /\ child[c] # "running" => toPrint[c] = 0
  /\ child[c] = "none" => printed[c] = 0

\* The server holds the write end between CreatePipe and the exit of the child;
\* children hold it while they run.
Held(c) ==
  /\ pc[c] \in {"idle", "CreatePipe"} => writers[c] = {}
  /\ pc[c] \in {"CreateProcess", "Wait", "Peek"} => Server \in writers[c]
  /\ pc[c] \in {"LastPeek", "returned", "thrown"} => Server \notin writers[c]

\* The child is created by CreateProcess, and has exited before the last look; a
\* code other than 0 is its own.
Followed(c) ==
  /\ pc[c] \in {"idle", "CreatePipe", "CreateProcess", "thrown"} <=> child[c] = "none"
  /\ returnCode[c] # 0 => child[c] = "exited" /\ returnCode[c] = exitCode[c]
  /\ pc[c] = "LastPeek" =>
       child[c] = "exited" /\ (faulty[c] \/ returnCode[c] = exitCode[c])
  /\ pc[c] = "returned" /\ ~faulty[c] =>
       child[c] = "exited" /\ returnCode[c] = exitCode[c] /\ pipe[c] = 0

LaunchInv ==
  /\ LaunchTypeOK
  /\ \A c \in Launch : Counted(c) /\ Held(c) /\ Followed(c)
  /\ NoChunkLost

\* What a step of c leaves alone of d.
Undisturbed(d) ==
  /\ pc'[d] = pc[d] /\ child'[d] = child[d] /\ toPrint'[d] = toPrint[d]
  /\ exitCode'[d] = exitCode[d] /\ pipe'[d] = pipe[d] /\ output'[d] = output[d]
  /\ returnCode'[d] = returnCode[d] /\ printed'[d] = printed[d] /\ faulty'[d] = faulty[d]
  /\ Server \in writers'[d] <=> Server \in writers[d]
  /\ writers[d] = {} => writers'[d] = {}

LEMMA Undisturbing ==
  ASSUME NEW d \in Launch, Counted(d), Held(d), Followed(d), Undisturbed(d)
  PROVE  Counted(d)' /\ Held(d)' /\ Followed(d)'
BY DEF Counted, Held, Followed, Undisturbed

LEMMA HasAllOfStays ==
  ASSUME NEW d \in Launch, HasAllOf(d, Taken(d)), output'[d] = output[d], Taken(d)' = Taken(d)
  PROVE  HasAllOf(d, Taken(d))'
BY DEF HasAllOf

\* What Peek appends: to the numbers s of what was taken of t chunks, those of the
\* next n.
LEMMA AppendedNumbers ==
  ASSUME NEW l \in Nat, NEW t \in Nat, NEW n \in Nat, NEW s, NEW new,
         \A i \in 1..l : s[i] \in 1..t,
         \A i, j \in 1..l : i < j => s[i] < s[j],
         \A i \in 1..(l + n) : new[i] = IF i <= l THEN s[i] ELSE t + (i - l)
  PROVE  /\ \A i \in 1..(l + n) : new[i] \in 1..(t + n)
         /\ \A i, j \in 1..(l + n) : i < j => new[i] < new[j]
<1>1. ASSUME NEW i \in 1..(l + n) PROVE new[i] \in 1..(t + n)
  <2>1. CASE i <= l
    BY <2>1
  <2>2. CASE i > l
    BY <2>2
  <2>3. QED BY <2>1, <2>2
<1>2. ASSUME NEW i \in 1..(l + n), NEW j \in 1..(l + n), i < j PROVE new[i] < new[j]
  <2>1. CASE j <= l
    BY <1>2, <2>1
  <2>2. CASE i > l
    BY <1>2, <2>2
  <2>3. CASE i <= l /\ j > l
    <3>1. new[i] \in 1..t /\ new[j] > t
      BY <2>3
    <3>2. new[j] \in 1..(t + n)
      BY <1>1
    <3>3. QED BY <3>1, <3>2
  <2>4. QED BY <1>2, <2>1, <2>2, <2>3
<1>3. QED BY <1>1, <1>2

LEMMA Appended ==
  ASSUME NEW s \in Seq(1..MaxOutput), NEW t \in Nat, NEW n \in Nat, t + n <= MaxOutput,
         NEW new, new = s \o [i \in 1..n |-> t + i]
  PROVE  /\ new \in Seq(1..MaxOutput)
         /\ Len(new) = Len(s) + n
         /\ \A i \in 1..(Len(s) + n) : new[i] = IF i <= Len(s) THEN s[i] ELSE t + (i - Len(s))
<1> DEFINE e == [i \in 1..n |-> t + i]
<1>1. e \in Seq(1..MaxOutput) /\ Len(e) = n
  <2>1. \A i \in 1..n : t + i \in 1..MaxOutput
    BY MaxOutputAssumption
  <2>2. QED BY <2>1, IsASeq
<1>2. \A i \in 1..n : e[i] = t + i
  OBVIOUS
<1> HIDE DEF e
<1>3. /\ s \o e \in Seq(1..MaxOutput) /\ Len(s \o e) = Len(s) + n
      /\ \A i \in 1..(Len(s) + n) : (s \o e)[i] = IF i <= Len(s) THEN s[i] ELSE e[i - Len(s)]
  BY <1>1, ConcatProperties
<1>4. PICK l \in Nat : l = Len(s)
  BY LenProperties
<1>5. ASSUME NEW i \in 1..(l + n), i > l PROVE e[i - l] = t + (i - l)
  <2>1. i - l \in 1..n
    BY <1>5
  <2>2. QED BY <1>2, <2>1
<1>6. \A i \in 1..(l + n) : i <= l \/ i > l
  OBVIOUS
<1>7. \A i \in 1..(Len(s) + n) : (s \o e)[i] = IF i <= Len(s) THEN s[i] ELSE t + (i - Len(s))
  BY <1>3, <1>4, <1>5, <1>6
<1>8. QED BY <1>3, <1>7 DEF e

\* A look at the pipe loses what is behind a NUL, and no more.
LEMMA PeekKeepsAll ==
  ASSUME LaunchTypeOK, NEW c \in Launch, Counted(c), HasAllOf(c, Taken(c)), Peek(c)
  PROVE  output' \in [Launch -> Seq(1..MaxOutput)] /\ HasAllOf(c, Taken(c))'
<1>1. PICK n \in 0..pipe[c] :
        /\ \A i \in 1..n : <<c, Taken(c) + i>> \notin Nul
        /\ n = pipe[c] \/ <<c, Taken(c) + n + 1>> \in Nul
        /\ output' = [output EXCEPT ![c] = @ \o [i \in 1..n |-> Taken(c) + i]]
  BY DEF Peek
<1>0. PICK t, p : t = Taken(c) /\ p = pipe[c]
  OBVIOUS
<1>2. /\ t \in Nat /\ p \in Nat /\ n \in Nat /\ n <= p /\ t + p = printed[c]
      /\ t + n <= MaxOutput
  <2>1. /\ pipe[c] \in 0..Capacity /\ Capacity \in Nat /\ printed[c] \in 0..MaxOutput
        /\ MaxOutput \in Nat /\ pipe[c] <= printed[c]
    BY MaxOutputAssumption, CapacityAssumption DEF LaunchTypeOK, Counted
  <2>2. t = printed[c] - pipe[c] /\ p = pipe[c]
    BY <1>0 DEF Taken
  <2>3. QED BY <2>1, <2>2
<1>3. HasAllOf(c, t) /\ output[c] \in Seq(1..MaxOutput)
  BY <1>0 DEF LaunchTypeOK
<1>4. Taken(c)' = t + p
  BY <1>0, <1>2 DEF Peek, Taken, LaunchTypeOK
<1>5. output'[c] = output[c] \o [i \in 1..n |-> t + i]
  BY <1>0, <1>1 DEF LaunchTypeOK
<1>50. PICK s : s = output[c]
  OBVIOUS
<1>51. PICK new : new = output'[c]
  OBVIOUS
<1>52. PICK l \in Nat : l = Len(s)
  BY <1>3, <1>50, LenProperties
<1>53. /\ new \in Seq(1..MaxOutput)
       /\ Len(new) = l + n
       /\ \A i \in 1..(l + n) : new[i] = IF i <= l THEN s[i] ELSE t + (i - l)
  <2>1. n \in Nat /\ t \in Nat /\ t + n <= MaxOutput
    BY <1>2
  <2>2. s \in Seq(1..MaxOutput) /\ new = s \o [i \in 1..n |-> t + i]
    BY <1>3, <1>5, <1>50, <1>51
  <2>3. new \in Seq(1..MaxOutput)
    BY <2>1, <2>2, Appended
  <2>4. Len(new) = Len(s) + n
    BY <2>1, <2>2, Appended
  <2>5. \A i \in 1..(Len(s) + n) : new[i] = IF i <= Len(s) THEN s[i] ELSE t + (i - Len(s))
    BY <2>1, <2>2, Appended
  <2>6. QED BY <1>52, <2>3, <2>4, <2>5
<1>54. \A i \in 1..(l + n) : new[i] = IF i <= l THEN s[i] ELSE t + (i - l)
  BY <1>53
<1>55. n \in Nat /\ t \in Nat
  BY <1>2
<1>56. /\ \A i \in 1..(l + n) : new[i] \in 1..(t + n)
       /\ \A i, j \in 1..(l + n) : i < j => new[i] < new[j]
  <2>1. /\ \A i \in 1..l : s[i] \in 1..t
        /\ \A i, j \in 1..l : i < j => s[i] < s[j]
    BY <1>3, <1>50, <1>52 DEF HasAllOf
  <2>2. QED BY ONLY <2>1, <1>54, <1>55, AppendedNumbers, l \in Nat
<1>57. \A i \in 1..l : i \in 1..(l + n) /\ new[i] = s[i]
  BY ONLY <1>54, <1>55, l \in Nat
<1>58. ASSUME NEW k \in (t + 1)..(t + n) PROVE \E i \in 1..(l + n) : new[i] = k
  <2>1. l + (k - t) \in 1..(l + n) /\ new[l + (k - t)] = k
    BY <1>54, <1>55
  <2>2. QED BY <2>1
<1>6. /\ output'[c] \in Seq(1..MaxOutput)
      /\ \A i \in 1..Len(output'[c]) : output'[c][i] \in 1..(t + n)
      /\ \A i, j \in 1..Len(output'[c]) : i < j => output'[c][i] < output'[c][j]
      /\ \A i \in 1..Len(output[c]) : i \in 1..Len(output'[c]) /\ output'[c][i] = output[c][i]
      /\ \A k \in (t + 1)..(t + n) : \E i \in 1..Len(output'[c]) : output'[c][i] = k
  BY <1>50, <1>51, <1>52, <1>53, <1>56, <1>57, <1>58
<1>7. output' \in [Launch -> Seq(1..MaxOutput)]
  BY <1>1, <1>6 DEF LaunchTypeOK
<1>8. ASSUME NEW k \in 1..(t + p)
      PROVE  \/ \E i \in 1..Len(output'[c]) : output'[c][i] = k
             \/ \E z \in 1..k : <<c, z>> \in Nul
  <2>1. CASE k \in 1..t
    BY <1>3, <1>6, <2>1 DEF HasAllOf
  <2>2. CASE k \in (t + 1)..(t + n)
    BY <1>6, <2>2
  <2>3. CASE k > t + n
    <3>1. n # p /\ t + n + 1 \in 1..k
      BY <1>2, <1>8, <2>3
    <3>2. QED BY <1>0, <1>1, <3>1
  <2>4. QED BY <1>2, <2>1, <2>2, <2>3
<1>9. \A i \in 1..Len(output'[c]) : output'[c][i] \in 1..(t + p)
  BY <1>2, <1>6
<1>10. QED BY <1>4, <1>6, <1>7, <1>8, <1>9 DEF HasAllOf

LEMMA InitLaunchInv == LaunchInit => LaunchInv
<1> SUFFICES ASSUME LaunchInit PROVE LaunchInv
  OBVIOUS
<1>1. <<>> \in Seq(1..MaxOutput) /\ Len(<<>>) = 0
  BY EmptySeq
<1>2. LaunchTypeOK
  BY <1>1, CapacityAssumption, MaxOutputAssumption, ExitCodeAssumption
     DEF LaunchInit, LaunchTypeOK, LaunchStep, ChildState
<1>3. ASSUME NEW c \in Launch PROVE Counted(c) /\ Held(c) /\ Followed(c)
  BY ServerAssumption, MaxOutputAssumption DEF LaunchInit, Counted, Held, Followed
<1>4. NoChunkLost
  <2>1. SUFFICES ASSUME NEW c \in Launch PROVE HasAllOf(c, Taken(c))
    BY DEF NoChunkLost
  <2>2. Len(output[c]) = 0
    BY <1>1 DEF LaunchInit
  <2>3. Taken(c) = 0
    BY DEF LaunchInit, Taken
  <2>4. QED BY <2>2, <2>3 DEF HasAllOf
<1>5. QED BY <1>2, <1>3, <1>4 DEF LaunchInv

\* A step of one launch keeps the invariant of that launch, the types, and what
\* the others have.
StepKeeps(c) ==
  /\ LaunchTypeOK'
  /\ Counted(c)' /\ Held(c)' /\ Followed(c)'
  /\ Peek(c) \/ (output' = output /\ printed'[c] - pipe'[c] = printed[c] - pipe[c])
  /\ \A d \in Launch \ {c} : Undisturbed(d)

LEMMA StepLaunchInv == LaunchInv /\ [LaunchNext]_launchVars => LaunchInv'
<1> SUFFICES ASSUME LaunchInv, [LaunchNext]_launchVars PROVE LaunchInv'
  OBVIOUS
<1> USE ServerAssumption, CapacityAssumption, MaxOutputAssumption, ExitCodeAssumption
<1>0. LaunchTypeOK /\ \A c \in Launch : Counted(c) /\ Held(c) /\ Followed(c)
  BY DEF LaunchInv
<1>00. \A c \in Launch : HasAllOf(c, Taken(c))
  BY DEF LaunchInv, NoChunkLost
<1>1. ASSUME NEW c \in Launch, Enter(c) \/ Parent(c) \/ ChildPrints(c) \/ ChildExits(c)
      PROVE StepKeeps(c)
  <2>0. /\ Counted(c) /\ Held(c) /\ Followed(c)
        /\ pipe[c] \in Nat /\ toPrint[c] \in Nat /\ printed[c] \in Nat
        /\ MaxOutput \in Nat /\ Capacity \in Nat
    BY <1>0, <1>1 DEF LaunchTypeOK
  <2> USE <1>0, <2>0 DEF LaunchTypeOK, LaunchStep, ChildState, Counted, Held, Followed,
                         StepKeeps, Undisturbed, Goto, Leave
  <2>1. CASE Enter(c)
    BY <2>1 DEF Enter
  <2>2. CASE CreatePipe(c)
    BY <2>2 DEF CreatePipe
  <2>3. CASE Throw(c)
    BY <2>3 DEF Throw
  <2>4. CASE CreateProcess(c)
    <3>1. LaunchTypeOK'
      <4> HIDE DEF Counted, Held, Followed, Undisturbed, StepKeeps
      <4>1. toPrint' \in [Launch -> 0..MaxOutput]
        BY <2>4 DEF CreateProcess
      <4>2. writers' \in [Launch -> SUBSET (Launch \cup {Server})]
        BY <2>4 DEF CreateProcess
      <4>3. pc' \in [Launch -> LaunchStep] /\ child' \in [Launch -> ChildState]
        BY <2>4 DEF CreateProcess
      <4>4. QED BY <2>4, <4>1, <4>2, <4>3 DEF CreateProcess
    <3>2. Counted(c)'
      BY <2>4 DEF CreateProcess
    <3>3. Held(c)' /\ Followed(c)'
      BY <2>4 DEF CreateProcess
    <3>4. ASSUME NEW d \in Launch \ {c} PROVE Undisturbed(d)
      BY <2>4 DEF CreateProcess
    <3>5. output' = output /\ printed'[c] - pipe'[c] = printed[c] - pipe[c]
      BY <2>4 DEF CreateProcess
    <3>6. QED BY <3>1, <3>2, <3>3, <3>4, <3>5
  <2>5. CASE WaitTimesOut(c)
    BY <2>5 DEF WaitTimesOut
  <2>6. CASE ChildGone(c)
    <3>1. LaunchTypeOK'
      <4> HIDE DEF Counted, Held, Followed, Undisturbed, StepKeeps
      <4>1. returnCode' \in [Launch -> ExitCode] /\ faulty' \in [Launch -> BOOLEAN]
        BY <2>6 DEF ChildGone
      <4>2. writers' \in [Launch -> SUBSET (Launch \cup {Server})]
        BY <2>6 DEF ChildGone
      <4>3. pc' \in [Launch -> LaunchStep]
        BY <2>6 DEF ChildGone
      <4>4. QED BY <2>6, <4>1, <4>2, <4>3 DEF ChildGone
    <3>2. Counted(c)'
      BY <2>6 DEF ChildGone
    <3>3. Held(c)' /\ Followed(c)'
      BY <2>6 DEF ChildGone
    <3>4. ASSUME NEW d \in Launch \ {c} PROVE Undisturbed(d)
      BY <2>6 DEF ChildGone
    <3>5. output' = output /\ printed'[c] - pipe'[c] = printed[c] - pipe[c]
      BY <2>6 DEF ChildGone
    <3>6. QED BY <3>1, <3>2, <3>3, <3>4, <3>5
  <2>7. CASE Peek(c)
    <3>0. output' \in [Launch -> Seq(1..MaxOutput)]
      <4> HIDE DEF LaunchTypeOK, Counted
      <4>1. QED BY <1>0, <1>00, <2>7, PeekKeepsAll
    <3>1. LaunchTypeOK'
      BY <2>7, <3>0 DEF Peek
    <3>2. Counted(c)'
      BY <2>7, <3>0 DEF Peek
    <3>3. Held(c)' /\ Followed(c)'
      BY <2>7 DEF Peek
    <3>4. ASSUME NEW d \in Launch \ {c} PROVE Undisturbed(d)
      BY <2>7 DEF Peek
    <3>5. Peek(c)
      BY <2>7 DEF Peek
    <3>6. QED BY <3>1, <3>2, <3>3, <3>4, <3>5
  <2>8. CASE ReadFails(c)
    BY <2>8 DEF ReadFails
  <2>9. CASE PeekBroken(c)
    BY <2>9 DEF PeekBroken
  <2>10. CASE PeekFails(c)
    BY <2>10 DEF PeekFails
  <2>11. CASE ChildPrints(c)
    <3>1. LaunchTypeOK'
      <4>0. printed[c] + 1 \in 0..MaxOutput /\ toPrint[c] - 1 \in 0..MaxOutput
        BY <2>11 DEF ChildPrints
      <4>1. toPrint' \in [Launch -> 0..MaxOutput]
        BY <2>11, <4>0 DEF ChildPrints
      <4>2. pipe' \in [Launch -> 0..Capacity]
        <5>1. pipe[c] < Capacity => pipe[c] + 1 \in 0..Capacity
          OBVIOUS
        <5>2. QED BY <2>11, <5>1 DEF ChildPrints
      <4>3. printed' \in [Launch -> 0..MaxOutput]
        BY <2>11, <4>0 DEF ChildPrints
      <4> HIDE DEF Counted, Held, Followed, Undisturbed, StepKeeps
      <4>4. QED BY <2>11, <4>1, <4>2, <4>3 DEF ChildPrints
    <3>2. Counted(c)'
      BY <2>11 DEF ChildPrints
    <3>3. Held(c)' /\ Followed(c)'
      BY <2>11 DEF ChildPrints
    <3>4. ASSUME NEW d \in Launch \ {c} PROVE Undisturbed(d)
      BY <2>11 DEF ChildPrints
    <3>5. output' = output /\ printed'[c] - pipe'[c] = printed[c] - pipe[c]
      BY <2>11 DEF ChildPrints
    <3>6. QED BY <3>1, <3>2, <3>3, <3>4, <3>5
  <2>12. CASE ChildExits(c)
    BY <2>12 DEF ChildExits
  <2>13. QED
    BY <1>1, <2>1, <2>2, <2>3, <2>4, <2>5, <2>6, <2>7, <2>8, <2>9, <2>10, <2>11, <2>12 DEF Parent
<1>2. ASSUME NEW c \in Launch, StepKeeps(c) PROVE LaunchInv'
  <2>1. ASSUME NEW d \in Launch PROVE Counted(d)' /\ Held(d)' /\ Followed(d)'
    BY <1>0, <1>2, Undisturbing DEF StepKeeps
  <2>2. HasAllOf(c, Taken(c))'
    <3>1. CASE Peek(c)
      BY <1>0, <1>00, <3>1, PeekKeepsAll
    <3>2. CASE output' = output /\ printed'[c] - pipe'[c] = printed[c] - pipe[c]
      BY <1>00, <3>2, HasAllOfStays DEF Taken
    <3>3. QED BY <1>2, <3>1, <3>2 DEF StepKeeps
  <2>3. ASSUME NEW d \in Launch \ {c} PROVE HasAllOf(d, Taken(d))'
    BY <1>00, <1>2, HasAllOfStays DEF StepKeeps, Undisturbed, Taken
  <2>4. NoChunkLost'
    BY <2>2, <2>3 DEF NoChunkLost
  <2>5. QED BY <1>2, <2>1, <2>4 DEF StepKeeps, LaunchInv
<1>3. CASE UNCHANGED launchVars
  <2>1. NoChunkLost'
    BY <1>3 DEF launchVars, LaunchInv, NoChunkLost, HasAllOf, Taken
  <2>2. QED BY <1>0, <1>3, <2>1 DEF launchVars, LaunchInv, LaunchTypeOK, Counted, Held, Followed
<1>4. QED BY <1>1, <1>2, <1>3 DEF LaunchNext

\* The pipe, the output and the handles of every launch fit together.
THEOREM LaunchInvariant == LaunchSpec => []LaunchInv
<1>1. QED BY InitLaunchInv, StepLaunchInv, PTL DEF LaunchSpec

\* Unless a Windows call failed, Launch returns the exit code of its child and
\* all the child has printed before its first NUL; a code other than 0 is the
\* child's in any case.
THEOREM ResultIsFaithfulAlways == LaunchSpec => []ResultIsFaithful
<1>1. LaunchInv => ResultIsFaithful
  <2> SUFFICES ASSUME LaunchInv, NEW c \in Launch, pc[c] = "returned"
               PROVE  /\ returnCode[c] # 0 => child[c] = "exited" /\ returnCode[c] = exitCode[c]
                      /\ ~faulty[c] =>
                           /\ child[c] = "exited" /\ toPrint[c] = 0
                           /\ returnCode[c] = exitCode[c]
                           /\ HasAllOf(c, printed[c])
    BY DEF ResultIsFaithful
  <2>1. LaunchTypeOK /\ Counted(c) /\ Followed(c) /\ HasAllOf(c, Taken(c))
    BY DEF LaunchInv, NoChunkLost
  <2>2. ~faulty[c] => Taken(c) = printed[c]
    BY <2>1 DEF Followed, Taken, LaunchTypeOK
  <2>3. QED BY <2>1, <2>2 DEF Counted, Followed
<1>2. QED BY <1>1, LaunchInvariant, PTL

\* What the child has printed before its first NUL is with the caller or in the
\* pipe, once and in order, even when calls fail.
THEOREM NoChunkLostAlways == LaunchSpec => []NoChunkLost
<1>1. LaunchInv => NoChunkLost
  BY DEF LaunchInv
<1>2. QED BY <1>1, LaunchInvariant, PTL

\* The server holds no write end after Launch.
THEOREM WriteEndIsClosedAlways == LaunchSpec => []WriteEndIsClosed
<1>1. LaunchInv => WriteEndIsClosed
  BY DEF LaunchInv, Held, WriteEndIsClosed
<1>2. QED BY <1>1, LaunchInvariant, PTL

-----------------------------------------------------------------------------
(* The calls of the APIs.                                                  *)

\* A launch that has returned has returned what it has.
Settled(c) ==
  pc[c] = "returned" =>
    /\ pc'[c] = "returned"
    /\ output'[c] = output[c] /\ returnCode'[c] = returnCode[c]

LEMMA LaunchesSettle ==
  ASSUME LaunchTypeOK, [LaunchNext]_launchVars, NEW c \in Launch
  PROVE  Settled(c)
<1> USE DEF Settled, LaunchTypeOK, Goto, Leave
<1>1. ASSUME NEW d \in Launch, Enter(d) \/ CreatePipe(d) \/ Throw(d) PROVE Settled(c)
  BY <1>1 DEF Enter, CreatePipe, Throw
<1>2. ASSUME NEW d \in Launch, CreateProcess(d) PROVE Settled(c)
  BY <1>2 DEF CreateProcess
<1>3. ASSUME NEW d \in Launch, WaitTimesOut(d) \/ ChildGone(d) PROVE Settled(c)
  BY <1>3 DEF WaitTimesOut, ChildGone
<1>4. ASSUME NEW d \in Launch, Peek(d) \/ ReadFails(d) \/ PeekBroken(d) \/ PeekFails(d) PROVE Settled(c)
  BY <1>4 DEF Peek, ReadFails, PeekBroken, PeekFails
<1>5. ASSUME NEW d \in Launch, ChildPrints(d) PROVE Settled(c)
  BY <1>5 DEF ChildPrints
<1>6. ASSUME NEW d \in Launch, ChildExits(d) PROVE Settled(c)
  BY <1>6 DEF ChildExits
<1>7. CASE UNCHANGED launchVars
  BY <1>7 DEF launchVars
<1>8. QED BY <1>1, <1>2, <1>3, <1>4, <1>5, <1>6, <1>7 DEF LaunchNext, Parent

-----------------------------------------------------------------------------
Forgiven(a) ==
  \/ returnCode[Current(a)] = 0
  \/ request[a].startupType = "eNone" /\ returnCode[Current(a)] = InvalidArg

\* A call runs one command, GetConnectionString a second one.  An answer other
\* than an exception it has from a launch that returned: from its exit code, or
\* from an output that is not empty.
CallInv(a) ==
  /\ request[a] = NoRequest => runs[a] = <<>> /\ reply[a] = "NoReply"
  /\ Len(runs[a]) = 2 => request[a].api = "GetConnectionString"
  /\ request[a].api \in {"SetAppStartup", "Shutdown"} /\ runs[a] # <<>> =>
       /\ reply[a] = "S_OK" => pc[Current(a)] = "returned" /\ Forgiven(a)
       /\ reply[a] = "E_FAIL" => pc[Current(a)] = "returned" /\ ~Forgiven(a)
  /\ request[a].api \in {"TpmInfo", "GetConnectionString"} /\ reply[a] = "S_OK" =>
       runs[a] # <<>> /\ pc[Current(a)] = "returned" /\ output[Current(a)] # <<>>

IInv == TypeOK /\ LaunchInv /\ \A a \in Call : CallInv(a)

LEMMA InitApiInv == Init => IInv
<1> SUFFICES ASSUME Init PROVE IInv
  OBVIOUS
<1>1. LaunchInv /\ LaunchTypeOK
  BY InitLaunchInv DEF Init, LaunchInv
<1>2. TypeOK
  BY <1>1 DEF Init, TypeOK
<1>3. QED BY <1>1, <1>2 DEF Init, IInv, CallInv

\* A step of the launches keeps what is known of a call that makes no step.
LEMMA CallStays ==
  ASSUME IInv, [LaunchNext]_launchVars, NEW a \in Call,
         request'[a] = request[a], runs'[a] = runs[a], reply'[a] = reply[a]
  PROVE  CallInv(a)'
<1>1. /\ LaunchTypeOK /\ LaunchInv /\ CallInv(a)
      /\ runs[a] \in Seq(Launch) /\ Len(runs[a]) \in Nat /\ Len(runs[a]) <= 2
  BY LenProperties DEF IInv, TypeOK
<1>3. runs[a] # <<>> => Current(a) \in Launch
  <2>1. runs[a] # <<>> => Len(runs[a]) \in 1 .. Len(runs[a])
    BY <1>1, EmptySeq, LenProperties
  <2>2. QED BY <1>1, <2>1, ElementOfSeq DEF Current
<1>5. Current(a)' = Current(a)
  BY DEF Current
<1>6. runs[a] # <<>> => Settled(Current(a))
  BY <1>1, <1>3, LaunchesSettle
<1>7. Forgiven(a)' <=> \/ returnCode'[Current(a)] = 0
                       \/ request[a].startupType = "eNone" /\ returnCode'[Current(a)] = InvalidArg
  BY <1>5 DEF Forgiven
<1>8. (request[a].api \in {"SetAppStartup", "Shutdown"} /\ runs[a] # <<>> =>
         /\ reply[a] = "S_OK" => pc[Current(a)] = "returned" /\ Forgiven(a)
         /\ reply[a] = "E_FAIL" => pc[Current(a)] = "returned" /\ ~Forgiven(a))'
  BY <1>1, <1>5, <1>6, <1>7 DEF CallInv, Settled, Forgiven
<1>9. (request[a].api \in {"TpmInfo", "GetConnectionString"} /\ reply[a] = "S_OK" =>
         runs[a] # <<>> /\ pc[Current(a)] = "returned" /\ output[Current(a)] # <<>>)'
  BY <1>1, <1>5, <1>6 DEF CallInv, Settled
<1>10. QED
  BY <1>1, <1>8, <1>9 DEF CallInv

\* Launch is entered for a call that has not run a command, or for the second one.
LEMMA RunInv ==
  ASSUME IInv, NEW a \in Call, Run(a), reply[a] = "NoReply", reply' = reply,
         \A b \in Call \ {a} : request'[b] = request[b],
         request' \in [Call -> Request \cup {NoRequest}], request'[a] # NoRequest,
         \/ runs[a] = <<>>
         \/ Len(runs[a]) = 1 /\ request'[a].api = "GetConnectionString"
  PROVE  IInv'
<1>1. PICK c \in Launch : Enter(c) /\ runs' = [runs EXCEPT ![a] = Append(@, c)]
  BY DEF Run
<1>2. [LaunchNext]_launchVars
  BY <1>1 DEF LaunchNext
<1>3. LaunchInv' /\ LaunchTypeOK'
  BY <1>2, StepLaunchInv DEF IInv, LaunchInv
<1>4. runs[a] \in Seq(Launch) /\ Len(runs[a]) \in Nat /\ Len(runs[a]) <= 1
  <2>1. runs[a] \in Seq(Launch)
    BY DEF IInv, TypeOK
  <2>2. Len(runs[a]) = 0 \/ Len(runs[a]) = 1
    BY EmptySeq
  <2> DEFINE n == Len(runs[a])
  <2>3. n \in Nat /\ (n = 0 \/ n = 1)
    BY <2>1, <2>2, LenProperties
  <2> HIDE DEF n
  <2>4. n <= 1
    BY <2>3
  <2>5. QED BY <2>1, <2>3, <2>4 DEF n
<1>5. a \in DOMAIN runs /\ \A b \in Call \ {a} : runs'[b] = runs[b]
  BY <1>1 DEF IInv, TypeOK
<1>6. runs' \in [Call -> Seq(Launch)] /\ runs'[a] = Append(runs[a], c)
  BY <1>1, AppendProperties DEF IInv, TypeOK
<1>7. Len(runs'[a]) = Len(runs[a]) + 1 /\ runs'[a] # <<>>
  BY <1>4, <1>6, AppendProperties
<1>8. TypeOK'
  <2>1. Len(runs'[a]) <= 2
    BY ONLY <1>4, <1>7
  <2>2. \A b \in Call \ {a} : Len(runs'[b]) <= 2
    BY <1>5 DEF IInv, TypeOK
  <2>3. QED BY <1>3, <1>6, <2>1, <2>2 DEF IInv, TypeOK
<1>9. CallInv(a)'
  <2>1. CASE runs[a] = <<>>
    <3>1. Len(runs'[a]) = 1 /\ reply'[a] = "NoReply"
      BY <1>7, <2>1, EmptySeq
    <3>2. QED BY <3>1 DEF CallInv
  <2>2. CASE Len(runs[a]) = 1 /\ request'[a].api = "GetConnectionString"
    BY <1>7, <2>2 DEF CallInv
  <2>3. QED BY <2>1, <2>2
<1>10. \A b \in Call \ {a} : CallInv(b)'
  BY <1>2, <1>5, CallStays
<1>11. QED BY <1>3, <1>8, <1>9, <1>10 DEF IInv

\* A call answers for what its launches have returned.
LEMMA ReplyInv ==
  ASSUME IInv, NEW a \in Call, NEW hr \in {"S_OK", "E_FAIL", "EXCEPTION"}, UNCHANGED launchVars,
         Reply(a, hr), request[a] # NoRequest,
         request[a].api \in {"SetAppStartup", "Shutdown"} /\ hr # "EXCEPTION" =>
           pc[Current(a)] = "returned" /\ (hr = "S_OK" <=> Forgiven(a)),
         request[a].api \in {"TpmInfo", "GetConnectionString"} /\ hr = "S_OK" =>
           pc[Current(a)] = "returned" /\ output[Current(a)] # <<>>,
         runs[a] # <<>>
  PROVE  IInv'
<1>1. UNCHANGED <<launchVars, request, runs>> /\ reply' = [reply EXCEPT ![a] = hr]
  BY DEF Reply
<1>2. TypeOK' /\ LaunchInv'
  <2>1. LaunchInv'
    BY <1>1, StepLaunchInv DEF IInv
  <2>2. QED BY <1>1, <2>1 DEF IInv, TypeOK, LaunchInv
<1>3. reply'[a] = hr /\ \A b \in Call \ {a} : reply'[b] = reply[b]
  BY <1>1 DEF IInv, TypeOK
<1>4. CallInv(a)
  BY DEF IInv
<1>5. CallInv(a)'
  BY <1>1, <1>3, <1>4 DEF CallInv, Current, Forgiven, launchVars
<1>6. \A b \in Call \ {a} : CallInv(b)'
  BY <1>1, <1>3, CallStays
<1>7. QED BY <1>2, <1>5, <1>6 DEF IInv

LEMMA StepApiInv == IInv /\ [Next]_vars => IInv'
<1> SUFFICES ASSUME IInv, [Next]_vars PROVE IInv'
  OBVIOUS
<1>0. /\ TypeOK /\ LaunchTypeOK /\ LaunchInv /\ \A a \in Call : CallInv(a)
      /\ \A a \in Call : request[a] \in Request \cup {NoRequest}
  BY DEF IInv, TypeOK
<1>00. NoRequest.api = "none" /\ \A r \in Request : r # NoRequest
  BY DEF NoRequest, Request, Startup, PlainRequest
<1>1. CASE LaunchMoves \/ UNCHANGED vars
  <2>1. [LaunchNext]_launchVars /\ UNCHANGED apiVars
    BY <1>1 DEF LaunchMoves, LaunchNext, vars
  <2>2. LaunchInv' /\ LaunchTypeOK'
    BY <1>0, <2>1, StepLaunchInv DEF LaunchInv
  <2>3. \A a \in Call : CallInv(a)'
    BY <2>1, CallStays DEF apiVars
  <2>4. QED BY <1>0, <2>1, <2>2, <2>3 DEF IInv, TypeOK, apiVars
<1>2. ASSUME NEW a \in Call, NEW r \in Request, Asks(a, r)
      PROVE  /\ request' \in [Call -> Request \cup {NoRequest}] /\ request'[a] = r /\ r # NoRequest
             /\ \A b \in Call \ {a} : request'[b] = request[b]
             /\ request[a] = NoRequest /\ runs[a] = <<>> /\ reply[a] = "NoReply"
  BY <1>0, <1>00, <1>2 DEF Asks, TypeOK, CallInv
<1>3. ASSUME NEW a \in Call, Refuse(a) PROVE IInv'
  <2>1. PICK r \in Request : Asks(a, r)
    BY <1>3 DEF Refuse, Request, PlainRequest
  <2>2. UNCHANGED <<launchVars, runs>> /\ reply' = [reply EXCEPT ![a] = "E_FAIL"]
    BY <1>3 DEF Refuse
  <2>3. TypeOK' /\ LaunchInv'
    <3>1. LaunchInv'
      BY <1>0, <2>2, StepLaunchInv
    <3>2. QED BY <1>0, <1>2, <2>1, <2>2, <3>1 DEF TypeOK, LaunchInv
  <2>4. CallInv(a)'
    <3>1. reply'[a] = "E_FAIL" /\ runs'[a] = <<>> /\ request'[a] # NoRequest
      BY <1>0, <1>2, <2>1, <2>2 DEF TypeOK
    <3>2. Len(runs'[a]) # 2
      BY <3>1, EmptySeq
    <3>3. QED BY <3>1, <3>2 DEF CallInv
  <2>5. \A b \in Call \ {a} : CallInv(b)'
    BY <1>0, <1>2, <2>1, <2>2, CallStays DEF TypeOK
  <2>6. QED BY <2>3, <2>4, <2>5 DEF IInv
<1>4. ASSUME NEW a \in Call, SetAppStartup(a) \/ Shutdown(a) \/ TpmInfo(a) \/ GetConnectionString(a)
      PROVE  IInv'
  <2>1. PICK r \in Request : Asks(a, r)
    BY <1>4 DEF SetAppStartup, Shutdown, TpmInfo, GetConnectionString, Request, PlainRequest
  <2>2. Run(a) /\ reply' = reply
    BY <1>4 DEF SetAppStartup, Shutdown, TpmInfo, GetConnectionString
  <2>3. QED BY <1>2, <2>1, <2>2, RunInv
<1>5. ASSUME NEW a \in Call, HostReturns(a) PROVE IInv'
  <2>1. /\ Run(a) /\ request' = request /\ reply' = reply /\ reply[a] = "NoReply"
        /\ request[a].api = "GetConnectionString" /\ Len(runs[a]) = 1
    BY <1>5 DEF HostReturns, Waiting, Current
  <2>2. request[a] # NoRequest
    BY <1>00, <2>1
  <2>3. request \in [Call -> Request \cup {NoRequest}]
    BY <1>0 DEF TypeOK
  <2>4. QED BY <2>1, <2>2, <2>3, RunInv
<1>6. ASSUME NEW a \in Call,
             \/ SetAppStartupReturns(a) \/ ShutdownReturns(a) \/ TpmInfoReturns(a)
             \/ HostNotFound(a) \/ SASTokenReturns(a) \/ LaunchThrew(a)
      PROVE  IInv'
  <2>1. runs[a] # <<>> /\ UNCHANGED launchVars /\ request[a] # NoRequest
    BY <1>0, <1>6 DEF SetAppStartupReturns, ShutdownReturns, TpmInfoReturns, HostNotFound, SASTokenReturns,
                      LaunchThrew, Waiting, CallInv
  <2>2. CASE SetAppStartupReturns(a)
    BY <2>1, <2>2, ReplyInv DEF SetAppStartupReturns, Forgiven, Waiting
  <2>3. CASE ShutdownReturns(a)
    <3>1. request[a] \in Request /\ request[a].api = "Shutdown"
      BY <1>0, <2>1, <2>3 DEF ShutdownReturns
    <3>2. request[a].startupType = "none"
      BY <3>1 DEF Request, Startup, PlainRequest
    <3>3. QED BY <2>1, <2>3, <3>1, <3>2, ReplyInv DEF ShutdownReturns, Forgiven, Waiting
  <2>4. CASE TpmInfoReturns(a)
    BY <2>1, <2>4, ReplyInv DEF TpmInfoReturns, Waiting
  <2>5. CASE HostNotFound(a)
    BY <2>1, <2>5, ReplyInv DEF HostNotFound
  <2>6. CASE SASTokenReturns(a)
    BY <2>1, <2>6, ReplyInv DEF SASTokenReturns, Waiting
  <2>7. CASE LaunchThrew(a)
    BY <2>1, <2>7, ReplyInv DEF LaunchThrew
  <2>8. QED BY <1>6, <2>2, <2>3, <2>4, <2>5, <2>6, <2>7
<1>7. QED BY <1>1, <1>3, <1>4, <1>5, <1>6 DEF Next

\* Every call is where its launches have brought it.
THEOREM ApiInvariant == Spec => []IInv
<1>1. QED BY InitApiInv, StepApiInv, PTL DEF Spec

\* A call that reports success has run its command to its end, and the command
\* succeeded or had nothing to remove, unless a Windows call failed; one that ran
\* its command and reports failure had a command that failed.
THEOREM SuccessMeansCommandSucceededAlways == Spec => []SuccessMeansCommandSucceeded
<1>1. IInv => SuccessMeansCommandSucceeded
  <2> SUFFICES ASSUME IInv, NEW a \in Call, runs[a] # <<>>,
                      request[a].api \in {"SetAppStartup", "Shutdown"}
               PROVE  /\ reply[a] = "S_OK" /\ ~faulty[Current(a)]
                           => child[Current(a)] = "exited" /\ Succeeded(a)
                      /\ reply[a] = "E_FAIL"
                           => child[Current(a)] = "exited" /\ ~Succeeded(a)
    BY DEF SuccessMeansCommandSucceeded
  <2>1. CallInv(a) /\ runs[a] \in Seq(Launch)
    BY DEF IInv, TypeOK
  <2>2. Current(a) \in Launch
    <3>1. Len(runs[a]) \in 1 .. Len(runs[a])
      BY <2>1, EmptySeq, LenProperties
    <3>2. QED BY <2>1, <3>1, ElementOfSeq DEF Current
  <2>3. Followed(Current(a))
    BY <2>2 DEF IInv, LaunchInv
  <2>4. QED BY <2>1, <2>3 DEF CallInv, Followed, Forgiven, Succeeded
<1>2. QED BY <1>1, ApiInvariant, PTL
=============================================================================
