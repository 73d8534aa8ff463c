-------------------------- MODULE ArraySemantics ---------------------------
(***************************************************************************)
(* What json.h promises of array values: each is a sequence, which grows   *)
(* by null elements where an index or a size asks for it.                  *)
(***************************************************************************)
EXTENDS Integers, SequencesExt

CONSTANTS Array, Element, NullElement

VARIABLES
  sequences,    \* the elements of each array
  sparse,       \* the arrays some elements of which were never made
  call          \* the last call, with its arguments and what it returned

Init == sequences = [a \in Array |-> <<>>]

Resized(s, n) == [i \in 1 .. n |-> IF i <= Len(s) THEN s[i] ELSE NullElement]

\* The sequence after a call; indexes begin with 0.
After(s, c) ==
  LET reached == Resized(s, IF c.n < Len(s) THEN Len(s) ELSE c.n + 1)
  IN CASE c.op = "reference" -> reached
       [] c.op = "set" -> [reached EXCEPT ![c.n + 1] = c.element]
       [] c.op = "append" -> Append(s, c.element)
       [] c.op = "clear" -> <<>>
       [] c.op = "resize" -> Resized(s, c.n)
       [] c.op = "remove" /\ c.n < Len(s) /\ s[c.n + 1] = c.element -> RemoveAt(s, c.n + 1)

Shrinks(c) == c.op \in {"resize", "remove"}

\* What is left of a sequence that loses null elements at its end.
WithoutNulls(s) == {r \in Prefixes(s) : \A i \in Len(r) + 1 .. Len(s) : s[i] = NullElement}

\* An assertion fails on a sparse array only.
Next ==
  /\ call'.op # "none"
  /\ call'.threw => call'.array \in sparse
  /\ LET after == After(sequences[call'.array], call')
     IN \E s \in IF call'.array \in sparse /\ Shrinks(call') THEN WithoutNulls(after) ELSE {after} :
          sequences' = [sequences EXCEPT ![call'.array] = s]

Spec == Init /\ [][Next]_<<sequences, call>>
=============================================================================
