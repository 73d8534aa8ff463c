---------------------------- MODULE MCJsonData ----------------------------
(***************************************************************************)
(* What a document is made of, one kind of data at a time: the decoding of *)
(* a number or of a string, arrays, and the memory of values.              *)
(***************************************************************************)
EXTENDS JsonNumber, JsonString, JsonArray, JsonValue

VARIABLE kind

\* Rounds to five significant bits, ties to even.
MCNearest(n) ==
  LET size == IF n < 0 THEN -n ELSE n
      unit == 2 ^ (CHOOSE e \in 0 .. 8 : size < 32 * 2 ^ e /\ (e = 0 \/ 32 * 2 ^ (e - 1) <= size))
      rest == size % unit
      even == (size \div unit) % 2 = 0
      rounded == IF 2 * rest > unit \/ (2 * rest = unit /\ ~even) THEN size - rest + unit ELSE size - rest
  IN IF n < 0 THEN -rounded ELSE rounded

MCScalars == {[type |-> 4, value |-> 1]}
MCBuffer == 1 .. 12

MCInit ==
  /\ NumberInit /\ StringInit /\ ArrayInit /\ ValueInit
  /\ kind \in IF negative THEN {"number"} ELSE {"number", "string", "array", "memory"}

MCNext ==
  /\ \/ kind = "number" /\ NumberNext /\ UNCHANGED <<stringVars, arrayVars, valueVars>>
     \/ kind = "string" /\ StringNext /\ UNCHANGED <<numberVars, arrayVars, valueVars>>
     \/ kind = "array" /\ ArrayNext /\ UNCHANGED <<numberVars, stringVars, valueVars>>
     \/ kind = "memory" /\ ValueNext /\ UNCHANGED <<numberVars, stringVars, arrayVars>>
  /\ UNCHANGED kind

MCSpec == MCInit /\ [][MCNext]_<<numberVars, stringVars, arrayVars, valueVars, kind>>
=============================================================================
