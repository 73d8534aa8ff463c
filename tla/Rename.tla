----------------------------- MODULE Rename ------------------------------
(***************************************************************************)
(* What the ComputerName API promises: a rename changes the NetBIOS and    *)
(* the host name of the next boot together, or, when it is cut short, the  *)
(* NetBIOS name alone; the names in use change only at a boot.             *)
(***************************************************************************)

CONSTANT Name

VARIABLES
  active,    \* the names in use since the last boot
  pending    \* the names of the next boot

Names == [netbios : Name, host : Name]

Init ==
  /\ \E n \in Name : pending = [netbios |-> n, host |-> n]
  /\ active = pending

Set(n) ==
  /\ pending' = [netbios |-> n, host |-> n]
  /\ UNCHANGED active

SetCutShort(n) ==
  /\ pending' = [netbios |-> n, host |-> pending.host]
  /\ UNCHANGED active

Reboot ==
  /\ active' = pending
  /\ UNCHANGED pending

Next == Reboot \/ \E n \in Name : Set(n) \/ SetCutShort(n)

Spec == Init /\ [][Next]_<<active, pending>>

==========================================================================
