--------------------------- MODULE ComputerName ---------------------------
(***************************************************************************)
(* The ComputerName API: Set writes three registry values under the mutex  *)
(* _setNameMutex, IsRenamePending compares one of them with the name in    *)
(* use under the same mutex, Get reads the name in use.  The calls of the  *)
(* clients run concurrently in one server process (DMBridgeService shows   *)
(* that there is one); it may die between any two steps, and the machine   *)
(* may reboot.                                                             *)
(*                                                                         *)
(* A name is a record: its length, the classes of its characters, and what *)
(* _wcsicmp sees of it (folded).                                           *)
(***************************************************************************)
EXTENDS Naturals

CONSTANTS
  Client,    \* threads that execute a client's call
  NoClient,  \* the mutex is free
  Name,      \* the names clients ask for
  NoName     \* a local variable without a value

MAX_COMPUTERNAME_LENGTH == 15

CharClass == {"letter", "digit", "hyphen", "period", "other"}

ASSUME NoClientAssumption == NoClient \notin Client
ASSUME NoNameAssumption == NoName \notin Name
ASSUME NameAssumption ==
  \A n \in Name : n.length \in Nat /\ n.chars \subseteq CharClass

VARIABLES
  key1,     \* ComputerName\ComputerName, the NetBIOS name of the next boot
  key2,     \* ComputerName\ActiveComputerName
  tcpName,  \* Tcpip\Parameters\NV HostName, the host name of the next boot
  active,   \* the NetBIOS name in use, as GetComputerNameEx returns it
  host,     \* the host name in use
  lock,     \* the holder of _setNameMutex
  pc,       \* where each call is
  name,     \* computerName of a Set, pendingName of an IsRenamePending
  reply,    \* the call that has just returned, and what it returned
  torn,     \* auxiliary: the last rename to write anything was cut short
  before    \* auxiliary: key1 as the rename in progress found it

registry == <<key1, key2, tcpName>>
booted == <<active, host>>
aux == <<torn, before>>
vars == <<key1, key2, tcpName, active, host, lock, pc, name, reply, torn, before>>

Step == {"idle", "LockSet", "Key1", "Key2", "Tcp", "LockPending", "Read", "Compare"}
Result == {"S_OK", "ERROR", "INVALID", "PENDING", "NOT_PENDING"}
NoReply == <<NoClient, "none">>

TypeOK ==
  /\ key1 \in Name /\ key2 \in Name /\ tcpName \in Name
  /\ active \in Name /\ host \in Name
  /\ lock \in Client \cup {NoClient}
  /\ pc \in [Client -> Step]
  /\ name \in [Client -> Name \cup {NoName}]
  /\ reply \in Client \X Result \cup {NoReply}
  /\ torn \in BOOLEAN
  /\ before \in Name \cup {NoName}

\* [a-zA-Z0-9\-.]+, and not digits only.
IsValidName(n) ==
  /\ n.chars # {} /\ "other" \notin n.chars
  /\ n.chars # {"digit"}

Settable(n) ==
  /\ n.length # 0 /\ n.length <= MAX_COMPUTERNAME_LENGTH
  /\ IsValidName(n)

\* The names are those of an earlier boot.
Init ==
  \E n \in {m \in Name : Settable(m)} :
    /\ key1 = n /\ key2 = n /\ tcpName = n
    /\ active = n /\ host = n
    /\ lock = NoClient
    /\ pc = [c \in Client |-> "idle"]
    /\ name = [c \in Client |-> NoName]
    /\ reply = NoReply
    /\ torn = FALSE
    /\ before = NoName

Goto(c, step) ==
  /\ pc' = [pc EXCEPT ![c] = step]
  /\ reply' = NoReply

\* The call of c returns r, and its locals are gone.
Answer(c, r) ==
  /\ pc' = [pc EXCEPT ![c] = "idle"]
  /\ reply' = <<c, r>>
  /\ name' = [name EXCEPT ![c] = NoName]

\* lock_guard gives the mutex back on every way out.
AnswerAndUnlock(c, r) ==
  /\ Answer(c, r)
  /\ lock' = NoClient
  /\ before' = NoName

-----------------------------------------------------------------------------
(* Set and UpdateNameInRegistry.                                           *)

Set(c, n) ==
  /\ pc[c] = "idle"
  /\ Settable(n)
  /\ Goto(c, "LockSet")
  /\ name' = [name EXCEPT ![c] = n]
  /\ UNCHANGED <<registry, booted, lock, aux>>

SetInvalid(c, n) ==
  /\ pc[c] = "idle"
  /\ ~Settable(n)
  /\ Answer(c, "INVALID")
  /\ UNCHANGED <<registry, booted, lock, aux>>

\* Mutant: UpdateNameInRegistry takes no lock_guard.
LockSet_NoGuard(c) ==
  /\ pc[c] = "LockSet"
  /\ before' = key1
  /\ Goto(c, "Key1")
  /\ UNCHANGED <<registry, booted, lock, name, torn>>

LockSet(c) ==
  /\ pc[c] = "LockSet"
  /\ lock = NoClient
  /\ lock' = c
  /\ before' = key1
  /\ Goto(c, "Key1")
  /\ UNCHANGED <<registry, booted, name, torn>>

\* Mutant: the host name is the first of the values to be written.
WriteKey1_HostFirst(c) ==
  /\ pc[c] = "Key1"
  /\ tcpName' = name[c]
  /\ Goto(c, "Key2")
  /\ UNCHANGED <<key1, key2, booted, lock, name, aux>>

WriteKey1(c) ==
  /\ pc[c] = "Key1"
  /\ key1' = name[c]
  /\ Goto(c, "Key2")
  /\ UNCHANGED <<key2, tcpName, booted, lock, name, aux>>

WriteKey2(c) ==
  /\ pc[c] = "Key2"
  /\ key2' = name[c]
  /\ Goto(c, "Tcp")
  /\ UNCHANGED <<key1, tcpName, booted, lock, name, aux>>

WriteTcpName(c) ==
  /\ pc[c] = "Tcp"
  /\ tcpName' = name[c]
  /\ torn' = FALSE
  /\ AnswerAndUnlock(c, "S_OK")
  /\ UNCHANGED <<key1, key2, booted>>

\* Mutant: the result of RegSetKeyValue is not returned.
WriteFails_Success(c) ==
  /\ pc[c] \in {"Key1", "Key2", "Tcp"}
  /\ torn' = (torn \/ pc[c] # "Key1")
  /\ AnswerAndUnlock(c, "S_OK")
  /\ UNCHANGED <<registry, booted>>

\* Mutant: the early return does not unlock.
WriteFails_KeepsLock(c) ==
  /\ pc[c] \in {"Key1", "Key2", "Tcp"}
  /\ torn' = (torn \/ pc[c] # "Key1")
  /\ Answer(c, "ERROR")
  /\ before' = NoName
  /\ UNCHANGED <<registry, booted, lock>>

\* RegSetKeyValue fails; what has been written stays written.
WriteFails(c) ==
  /\ pc[c] \in {"Key1", "Key2", "Tcp"}
  /\ torn' = (torn \/ pc[c] # "Key1")
  /\ AnswerAndUnlock(c, "ERROR")
  /\ UNCHANGED <<registry, booted>>

-----------------------------------------------------------------------------
(* IsRenamePending and Get.                                                *)

IsRenamePending(c) ==
  /\ pc[c] = "idle"
  /\ Goto(c, "LockPending")
  /\ UNCHANGED <<registry, booted, lock, name, aux>>

\* Mutant: IsRenamePending takes no lock_guard.
LockPending_NoGuard(c) ==
  /\ pc[c] = "LockPending"
  /\ Goto(c, "Read")
  /\ UNCHANGED <<registry, booted, lock, name, aux>>

LockPending(c) ==
  /\ pc[c] = "LockPending"
  /\ lock = NoClient
  /\ lock' = c
  /\ Goto(c, "Read")
  /\ UNCHANGED <<registry, booted, name, aux>>

TryRead(c) ==
  /\ pc[c] = "Read"
  /\ name' = [name EXCEPT ![c] = key1]
  /\ Goto(c, "Compare")
  /\ UNCHANGED <<registry, booted, lock, aux>>

\* The registry function returns its error and leaves GetLastError() as some
\* earlier call of the thread left it, possibly 0; HRESULT_FROM_WIN32(0) is
\* S_OK, and *isPending is already false.
TryReadFails(c) ==
  /\ pc[c] = "Read"
  /\ \E lastErrorIsZero \in BOOLEAN :
       AnswerAndUnlock(c, IF lastErrorIsZero THEN "NOT_PENDING" ELSE "ERROR")
  /\ UNCHANGED <<registry, booted, torn>>

Compare(c) ==
  /\ pc[c] = "Compare"
  /\ AnswerAndUnlock(c, IF name[c].folded = active.folded THEN "NOT_PENDING" ELSE "PENDING")
  /\ UNCHANGED <<registry, booted, torn>>

\* GetComputerNameEx fails, or something throws: both give an error.
CompareFails(c) ==
  /\ pc[c] = "Compare"
  /\ AnswerAndUnlock(c, "ERROR")
  /\ UNCHANGED <<registry, booted, torn>>

Get(c) ==
  /\ pc[c] = "idle"
  /\ \E r \in {"S_OK", "ERROR"} : Answer(c, r)
  /\ UNCHANGED <<registry, booted, lock, aux>>

-----------------------------------------------------------------------------
(* The environment.                                                        *)

\* The server process dies with the calls it executes and with its mutex.
Crash ==
  /\ torn' = (torn \/ \E c \in Client : pc[c] \in {"Key2", "Tcp"})
  /\ lock' = NoClient
  /\ pc' = [c \in Client |-> "idle"]
  /\ name' = [c \in Client |-> NoName]
  /\ before' = NoName
  /\ reply' = NoReply
  /\ UNCHANGED <<registry, booted>>

\* A boot, after all calls have ended or died, takes the names over.
Reboot ==
  /\ \A c \in Client : pc[c] = "idle"
  /\ active' = key1
  /\ key2' = key1
  /\ host' = tcpName
  /\ reply' = NoReply
  /\ UNCHANGED <<key1, tcpName, lock, pc, name, aux>>

-----------------------------------------------------------------------------
\* A step of the holder of the mutex.
Locked(c) ==
  \/ WriteKey1(c) \/ WriteKey2(c) \/ WriteTcpName(c) \/ WriteFails(c)
  \/ TryRead(c) \/ TryReadFails(c) \/ Compare(c) \/ CompareFails(c)

Next ==
  \/ \E c \in Client :
       \/ \E n \in Name : Set(c, n) \/ SetInvalid(c, n)
       \/ IsRenamePending(c) \/ Get(c)
       \/ LockSet(c) \/ LockPending(c)
       \/ Locked(c)
  \/ Crash
  \/ Reboot

Spec == Init /\ [][Next]_vars

\* A thread that holds the mutex runs on.  std::mutex is not fair, so nothing
\* is assumed of the threads that wait for it.
FairSpec == Spec /\ \A c \in Client : WF_vars(Locked(c))

-----------------------------------------------------------------------------
\* A rename that has written a part of its values and is still at it.
Renaming == \E c \in Client : pc[c] \in {"Key2", "Tcp"}

\* Renames are atomic for the next boot, or visibly cut short.
Promise == INSTANCE Rename WITH
  active <- [netbios |-> active, host |-> host],
  pending <- [netbios |-> IF Renaming THEN before ELSE key1, host |-> tcpName]
PromiseSpec == Promise!Spec

\* Unless the last rename was cut short, the names of the next boot agree
\* whenever the mutex is free: concurrent renames leave no mixture.
NamesAgree == lock = NoClient /\ ~torn => key1 = key2 /\ key1 = tcpName

\* IsRenamePending compares the name the registry still holds, and never one
\* that a rename in progress is replacing.
ReadIsCurrent ==
  \A c \in Client : pc[c] = "Compare" => name[c] = key1 /\ ~Renaming

\* A rename that returned S_OK has set every name, its own client being the
\* last to have held the mutex until some other call takes it.
SuccessIsComplete ==
  [][\A c \in Client :
       pc[c] = "Tcp" /\ reply' = <<c, "S_OK">>
         => key1' = name[c] /\ key2' = name[c] /\ tcpName' = name[c]]_vars

\* The mutex is always given back.
LockIsReleased == \A c \in Client : lock = c ~> lock # c

\* ComputerName.cpp, in the catch blocks of IsRenamePending: "Prevent a 0'd
\* last error from returning S_OK".  A registry value that cannot be read is
\* not answered with success.
FailedReadIsNotSuccess ==
  [][\A c \in Client :
       pc[c] = "Read" /\ pc'[c] = "idle" => reply' \in {NoReply, <<c, "ERROR">>}]_vars

-----------------------------------------------------------------------------
(* The inductive invariant.                                                *)

CriticalSection == {"Key1", "Key2", "Tcp", "Read", "Compare"}

Mutex == \A c \in Client : pc[c] \in CriticalSection <=> lock = c

\* What the locals of a call hold at each step.
Locals ==
  \A c \in Client :
    /\ pc[c] \in {"LockSet", "Key1", "Key2", "Tcp"} => name[c] \in Name
    /\ pc[c] = "Key1" => before = key1
    /\ pc[c] \in {"Key2", "Tcp"} => before \in Name /\ key1 = name[c]
    /\ pc[c] = "Tcp" => key2 = name[c]
    /\ pc[c] = "Compare" => name[c] = key1

\* A rename that was not cut short leaves the names equal.
Whole == ~torn /\ ~Renaming => key1 = key2 /\ key1 = tcpName

IInv == TypeOK /\ Mutex /\ Locals /\ Whole

=============================================================================
