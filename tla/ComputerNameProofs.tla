------------------------ MODULE ComputerNameProofs ------------------------
(***************************************************************************)
(* Proofs about ComputerName, for any clients and any names.               *)
(***************************************************************************)
EXTENDS ComputerName, TLAPS

-----------------------------------------------------------------------------
LEMMA InitInv == Init => IInv
BY NoClientAssumption, NoNameAssumption
   DEF Init, IInv, TypeOK, Mutex, Locals, Whole, CriticalSection, Renaming, Step, NoReply

LEMMA StepInv == IInv /\ [Next]_vars => IInv'
<1> SUFFICES ASSUME IInv, [Next]_vars PROVE IInv'
  OBVIOUS
<1> USE NoClientAssumption, NoNameAssumption
    DEF IInv, TypeOK, Mutex, Locals, Whole, CriticalSection, Renaming, Step, Result, NoReply,
        registry, booted, aux, Goto, Answer, AnswerAndUnlock
<1>1. ASSUME NEW c \in Client, NEW n \in Name, Set(c, n) PROVE IInv'
  <2>1. TypeOK' BY <1>1 DEF Set
  <2>2. Mutex' BY <1>1 DEF Set
  <2>3. Locals' BY <1>1 DEF Set
  <2>4. Whole' BY <1>1 DEF Set
  <2>5. QED BY <2>1, <2>2, <2>3, <2>4
<1>2. ASSUME NEW c \in Client, NEW n \in Name, SetInvalid(c, n) PROVE IInv'
  BY <1>2 DEF SetInvalid
<1>3. ASSUME NEW c \in Client, IsRenamePending(c) \/ Get(c) PROVE IInv'
  <2>1. CASE IsRenamePending(c)
    BY <2>1 DEF IsRenamePending
  <2>2. CASE Get(c)
    <3>1. TypeOK' BY <2>2 DEF Get
    <3>2. Mutex' /\ Locals' /\ Whole' BY <2>2 DEF Get
    <3>3. QED BY <3>1, <3>2
  <2>3. QED BY <1>3, <2>1, <2>2
<1>4. ASSUME NEW c \in Client, LockSet(c) PROVE IInv'
  BY <1>4 DEF LockSet
<1>5. ASSUME NEW c \in Client, LockPending(c) PROVE IInv'
  BY <1>5 DEF LockPending
<1>6. ASSUME NEW c \in Client, WriteKey1(c) PROVE IInv'
  BY <1>6 DEF WriteKey1
<1>7. ASSUME NEW c \in Client, WriteKey2(c) PROVE IInv'
  BY <1>7 DEF WriteKey2
<1>8. ASSUME NEW c \in Client, WriteTcpName(c) PROVE IInv'
  <2>1. TypeOK' BY <1>8 DEF WriteTcpName
  <2>2. Mutex' BY <1>8 DEF WriteTcpName
  <2>3. Locals' BY <1>8 DEF WriteTcpName
  <2>4. Whole'
    <3>1. key1' = key2' /\ key1' = tcpName' BY <1>8 DEF WriteTcpName
    <3>2. QED BY <3>1
  <2>5. QED BY <2>1, <2>2, <2>3, <2>4
<1>9. ASSUME NEW c \in Client, WriteFails(c) PROVE IInv'
  BY <1>9 DEF WriteFails
<1>10. ASSUME NEW c \in Client, TryRead(c) PROVE IInv'
  BY <1>10 DEF TryRead
<1>11. ASSUME NEW c \in Client, TryReadFails(c) \/ Compare(c) \/ CompareFails(c) PROVE IInv'
  BY <1>11 DEF TryReadFails, Compare, CompareFails
<1>12. CASE Crash
  BY <1>12 DEF Crash
<1>13. CASE Reboot
  BY <1>13 DEF Reboot
<1>14. CASE UNCHANGED vars
  BY <1>14 DEF vars
<1>15. QED
  BY <1>1, <1>2, <1>3, <1>4, <1>5, <1>6, <1>7, <1>8, <1>9, <1>10, <1>11, <1>12, <1>13, <1>14
  DEF Next, Locked

\* The mutex is held by the one call in a critical section, its locals are
\* current, and a whole rename leaves the names equal.
THEOREM Invariant == Spec => []IInv
<1>1. QED BY InitInv, StepInv, PTL DEF Spec

\* Concurrent renames leave no mixture of names.
THEOREM NamesAgreeAlways == Spec => []NamesAgree
<1>1. IInv => NamesAgree
  BY NoClientAssumption DEF IInv, Mutex, Whole, Renaming, CriticalSection, NamesAgree
<1>2. QED BY <1>1, Invariant, PTL

\* IsRenamePending compares the current name, never one that is being replaced.
THEOREM ReadIsCurrentAlways == Spec => []ReadIsCurrent
<1>1. IInv => ReadIsCurrent
  BY DEF IInv, Mutex, Locals, Renaming, CriticalSection, ReadIsCurrent
<1>2. QED BY <1>1, Invariant, PTL

\* A rename that answers S_OK has set every name.
THEOREM SuccessIsCompleteAlways == Spec => SuccessIsComplete
<1> DEFINE Complete ==
      \A c \in Client :
        pc[c] = "Tcp" /\ reply' = <<c, "S_OK">>
          => key1' = name[c] /\ key2' = name[c] /\ tcpName' = name[c]
<1>1. IInv /\ [Next]_vars => [Complete]_vars
  <2> SUFFICES ASSUME IInv, Next, NEW c \in Client, pc[c] = "Tcp", reply' = <<c, "S_OK">>
               PROVE  key1' = name[c] /\ key2' = name[c] /\ tcpName' = name[c]
    OBVIOUS
  <2>1. pc'[c] = "idle" /\ WriteTcpName(c)
    BY NoClientAssumption
       DEF Next, Locked, Set, SetInvalid, IsRenamePending, Get, LockSet, LockPending,
           WriteKey1, WriteKey2, WriteTcpName, WriteFails, TryRead, TryReadFails, Compare,
           CompareFails, Crash, Reboot, Goto, Answer, AnswerAndUnlock, NoReply, IInv, TypeOK, Step
  <2>2. QED BY <2>1 DEF WriteTcpName, IInv, Locals
<1>2. QED BY <1>1, Invariant, PTL DEF Spec, SuccessIsComplete

-----------------------------------------------------------------------------
(* Renames are atomic for the next boot, or cut short.                     *)

\* What the promise sees of the pending NetBIOS name.
PendingNetbios == IF Renaming THEN before ELSE key1

\* A step that moves none of the names is a stutter of the promise.
LEMMA Stutter ==
  ASSUME UNCHANGED <<active, host, tcpName, PendingNetbios>>
  PROVE  [Promise!Next]_<<[netbios |-> active, host |-> host],
            [netbios |-> IF Renaming THEN before ELSE key1, host |-> tcpName]>>
BY DEF PendingNetbios

LEMMA StepPromise ==
  IInv /\ [Next]_vars =>
    [Promise!Next]_<<[netbios |-> active, host |-> host],
       [netbios |-> IF Renaming THEN before ELSE key1, host |-> tcpName]>>
<1> SUFFICES ASSUME IInv, [Next]_vars
             PROVE  [Promise!Next]_<<[netbios |-> active, host |-> host],
                       [netbios |-> IF Renaming THEN before ELSE key1, host |-> tcpName]>>
  OBVIOUS
<1> DEFINE Goal == [Promise!Next]_<<[netbios |-> active, host |-> host],
                     [netbios |-> IF Renaming THEN before ELSE key1, host |-> tcpName]>>
<1> USE NoClientAssumption DEF registry, booted, aux
<1>1. ASSUME UNCHANGED <<active, host, tcpName, PendingNetbios>> PROVE Goal
  BY <1>1, Stutter
<1>2. ASSUME NEW c \in Client, Renaming, lock = c, UNCHANGED <<key1, tcpName, booted>>,
             lock' = NoClient, pc' = [pc EXCEPT ![c] = "idle"]
      PROVE  Goal
  <2>1. ~Renaming'
    BY <1>2 DEF IInv, TypeOK, Mutex, CriticalSection, Renaming
  <2>2. Promise!SetCutShort(key1)
    BY <1>2, <2>1 DEF Promise!SetCutShort
  <2>3. key1 \in Name
    BY DEF IInv, TypeOK
  <2>4. QED BY <2>2, <2>3 DEF Promise!Next
<1>3. ASSUME NEW c \in Client, WriteTcpName(c) PROVE Goal
  <2>1. ~Renaming'
    BY <1>3 DEF WriteTcpName, AnswerAndUnlock, Answer, IInv, TypeOK, Mutex, CriticalSection, Renaming
  <2>2. key1' = name[c] /\ tcpName' = name[c] /\ name[c] \in Name /\ UNCHANGED <<active, host>>
    BY <1>3 DEF WriteTcpName, IInv, Locals
  <2>3. Promise!Set(name[c])
    BY <2>1, <2>2 DEF Promise!Set
  <2>4. QED BY <2>2, <2>3 DEF Promise!Next
<1>4. ASSUME NEW c \in Client, WriteFails(c) PROVE Goal
  <2>1. CASE pc[c] = "Key1"
    <3>1. ~Renaming /\ ~Renaming'
      BY <1>4, <2>1 DEF WriteFails, AnswerAndUnlock, Answer, IInv, TypeOK, Mutex, CriticalSection, Renaming
    <3>2. QED BY <1>1, <1>4, <3>1 DEF WriteFails, PendingNetbios
  <2>2. CASE pc[c] # "Key1"
    BY <1>2, <1>4, <2>2 DEF WriteFails, AnswerAndUnlock, Answer, IInv, Mutex, CriticalSection, Renaming
  <2>3. QED BY <2>1, <2>2
<1>5. ASSUME NEW c \in Client, WriteKey1(c) PROVE Goal
  <2>1. ~Renaming /\ Renaming'
    BY <1>5 DEF WriteKey1, Goto, IInv, TypeOK, Mutex, CriticalSection, Renaming
  <2>2. QED BY <1>1, <1>5, <2>1 DEF WriteKey1, PendingNetbios, IInv, Locals
<1>6. ASSUME NEW c \in Client, WriteKey2(c) PROVE Goal
  <2>1. Renaming /\ Renaming'
    BY <1>6 DEF WriteKey2, Goto, IInv, TypeOK, Renaming
  <2>2. QED BY <1>1, <1>6, <2>1 DEF WriteKey2, PendingNetbios
<1>7. ASSUME NEW c \in Client, LockSet(c) PROVE Goal
  <2>1. ~Renaming /\ ~Renaming'
    BY <1>7 DEF LockSet, Goto, IInv, TypeOK, Mutex, CriticalSection, Renaming
  <2>2. QED BY <1>1, <1>7, <2>1 DEF LockSet, PendingNetbios
<1>8. ASSUME NEW c \in Client,
             \/ LockPending(c) \/ TryRead(c)
             \/ TryReadFails(c) \/ Compare(c) \/ CompareFails(c)
      PROVE  Goal
  <2>1. ~Renaming /\ ~Renaming' /\ UNCHANGED <<key1, tcpName, active, host>>
    <3>1. CASE LockPending(c)
      BY <3>1 DEF LockPending, Goto, IInv, TypeOK, Mutex, CriticalSection, Renaming
    <3>2. CASE TryRead(c)
      BY <3>2 DEF TryRead, Goto, IInv, TypeOK, Mutex, CriticalSection, Renaming
    <3>3. CASE TryReadFails(c) \/ Compare(c) \/ CompareFails(c)
      BY <3>3 DEF TryReadFails, Compare, CompareFails, AnswerAndUnlock, Answer,
         IInv, TypeOK, Mutex, CriticalSection, Renaming
    <3>4. QED BY <1>8, <3>1, <3>2, <3>3
  <2>2. QED BY <1>1, <2>1 DEF PendingNetbios
<1>9. ASSUME NEW c \in Client, pc[c] = "idle",
             pc' = [pc EXCEPT ![c] = pc'[c]], pc'[c] \in {"idle", "LockSet", "LockPending"},
             UNCHANGED <<registry, booted, before>>
      PROVE  Goal
  <2>1. Renaming' = Renaming
    BY <1>9 DEF IInv, TypeOK, Renaming
  <2>2. QED BY <1>1, <1>9, <2>1 DEF PendingNetbios
<1>10. CASE Crash
  <2>1. ~Renaming' /\ UNCHANGED <<key1, tcpName, active, host>>
    BY <1>10 DEF Crash, Renaming
  <2>2. CASE Renaming
    <3>1. Promise!SetCutShort(key1)
      BY <2>1 DEF Promise!SetCutShort
    <3>2. QED BY <3>1 DEF Promise!Next, IInv, TypeOK
  <2>3. CASE ~Renaming
    BY <1>1, <2>1, <2>3 DEF PendingNetbios
  <2>4. QED BY <2>2, <2>3
<1>11. CASE Reboot
  <2>1. ~Renaming /\ ~Renaming'
    BY <1>11 DEF Reboot, Renaming
  <2>2. Promise!Reboot
    BY <1>11, <2>1 DEF Reboot, Promise!Reboot
  <2>3. QED BY <2>2 DEF Promise!Next
<1>12. CASE UNCHANGED vars
  BY <1>1, <1>12 DEF vars, PendingNetbios, Renaming
<1>13. ASSUME NEW c \in Client, NEW n \in Name, Set(c, n) \/ SetInvalid(c, n) PROVE Goal
  BY <1>9, <1>13 DEF Set, SetInvalid, Goto, Answer, IInv, TypeOK
<1>14. ASSUME NEW c \in Client, IsRenamePending(c) \/ Get(c) PROVE Goal
  BY <1>9, <1>14 DEF IsRenamePending, Get, Goto, Answer, IInv, TypeOK
<1>15. QED
  BY <1>3, <1>4, <1>5, <1>6, <1>7, <1>8, <1>10, <1>11, <1>12, <1>13, <1>14 DEF Next, Locked

\* The three registry writes implement an atomic rename that a failure or a
\* crash may cut short after the NetBIOS name.
THEOREM Refinement == Spec => PromiseSpec
<1>1. Init => Promise!Init
  BY DEF Init, Renaming, Promise!Init
<1>2. QED BY <1>1, Invariant, StepPromise, PTL DEF Spec, PromiseSpec, Promise!Spec

=============================================================================
