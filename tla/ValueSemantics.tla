--------------------------- MODULE ValueSemantics ---------------------------
(***************************************************************************)
(* What Json::Value promises to who uses it: every variable holds a value  *)
(* of its own, which copies, moves and changes of other variables leave    *)
(* alone.  A value is null, a string or an object, with a comment or none; *)
(* it is the set of its nodes, each the path of names that leads to it     *)
(* with what it is.                                                        *)
(***************************************************************************)
EXTENDS Naturals, SequencesExt

CONSTANTS Var, Member

VARIABLE values     \* the value of each variable

Leaf(type, comment) == {<< <<>>, [type |-> type, comment |-> comment] >>}
Null == Leaf("null", FALSE)

\* A place is a variable or a member of one.
Place == Var \X ({<<>>} \cup {<<n>> : n \in Member})
Places(vs) == {p \in Place : \E node \in vs[p[1]] : node[1] = p[2]}

Within(p, node) == p[2] = <<>> \/ (node[1] # <<>> /\ Head(node[1]) = p[2][1])
At(vs, p) ==
  {<<SubSeq(node[1], Len(p[2]) + 1, Len(node[1])), node[2]>> : node \in {m \in vs[p[1]] : Within(p, m)}}

Without(vs, p) == [vs EXCEPT ![p[1]] = {node \in @ : ~Within(p, node)}]
Put(vs, p, x) ==
  [Without(vs, p) EXCEPT ![p[1]] = @ \cup {<<p[2] \o node[1], node[2]>> : node \in x}]

\* What a value is, its members aside.
Top(x) == (CHOOSE node \in x : node[1] = <<>>)[2]

Init == values = [v \in Var |-> Null]

\* A value is replaced by another one, of which a null one takes the payload and
\* the comment, or the payload only.
Type == {"null", "string", "object"}
Set(vs, p, t) == Put(vs, p, Leaf(t, FALSE))
SetPayload(vs, p, t) == Put(vs, p, Leaf(t, Top(At(vs, p)).comment))

Commented(x) == {IF node[1] = <<>> THEN <<node[1], [node[2] EXCEPT !.comment = TRUE]>> ELSE node : node \in x}
Swap(vs, v, w) == [vs EXCEPT ![v] = vs[w], ![w] = vs[v]]

\* A null value becomes an object, a new one, and a new member is null.
AsObject(vs, v) == IF Top(vs[v]).type = "null" THEN Set(vs, <<v, <<>> >>, "object") ELSE vs
Reference(vs, p) == IF p \in Places(vs) THEN vs ELSE Put(vs, p, Null)

\* x, which is at p, gets a comment, or is copied or moved, or its member is removed
\* and moved to a variable or not.
Transferred(vs, ws, p, x) ==
  \/ ws = Put(vs, p, Commented(x))
  \/ \E q \in Places(vs) : ws = Put(vs, q, x) \/ ws = Put(Put(vs, p, Null), q, x)
  \/ p[2] # <<>> /\ (ws = Without(vs, p) \/ \E v \in Var : ws = Put(Without(vs, p), <<v, <<>> >>, x))

Step(vs, ws) ==
  \/ \E v, w \in Var : ws = Swap(vs, v, w)
  \/ \E p \in Places(vs) : Transferred(vs, ws, p, At(vs, p))
  \/ \E p \in Places(vs), t \in Type : ws = Set(vs, p, t) \/ ws = SetPayload(vs, p, t)
  \/ \E v \in Var, n \in Member : Top(vs[v]).type # "string" /\ ws = Reference(AsObject(vs, v), <<v, <<n>> >>)

Next == Step(values, values')

Spec == Init /\ [][Next]_values
=============================================================================
