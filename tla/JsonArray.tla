----------------------------- MODULE JsonArray -----------------------------
(***************************************************************************)
(* Json::Value as an array: a map from indexes to elements, where an index *)
(* below the size may be missing and reads as null; and the order of       *)
(* values.                                                                 *)
(*                                                                         *)
(* An element has no elements of its own.                                  *)
(***************************************************************************)
EXTENDS Integers, SequencesExt

CONSTANTS
  Array,        \* the values a program has
  Scalars,      \* elements besides null: records of a type and a value
  MaxIndex      \* bound: the greatest index

\* ValueType.
nullValue == 0
arrayValue == 6

NullElement == [type |-> nullValue, value |-> 0]
Element == Scalars \cup {NullElement}

ASSUME ArrayAssumption ==
  /\ MaxIndex \in Nat
  /\ Scalars \subseteq [type : nullValue + 1 .. arrayValue - 1, value : Int]

VARIABLES
  arrays,       \* type and map of each value
  call          \* history: the last call, and whether a JSON_ASSERT of it threw

arrayVars == <<arrays, call>>

Index == 0 .. MaxIndex
Call(op, a, n, x) == [op |-> op, array |-> a, n |-> n, element |-> x, threw |-> FALSE]

ArrayInit ==
  /\ arrays = [a \in Array |-> [type |-> nullValue, map |-> << >>]]
  /\ call = Call("none", CHOOSE a \in Array : TRUE, 0, NullElement)

\* The highest index and 1.
Size(v) == IF DOMAIN v.map = {} THEN 0 ELSE Max(DOMAIN v.map) + 1

\* operator[](ArrayIndex) const.
ElementAt(v, i) == IF i \in DOMAIN v.map THEN v.map[i] ELSE NullElement

\* operator[](ArrayIndex): the element is made, and a null value an array.
Referenced(v, i) ==
  [type |-> arrayValue, map |-> [j \in DOMAIN v.map \cup {i} |-> ElementAt(v, j)]]

Becomes(a, v, c) ==
  /\ arrays' = [arrays EXCEPT ![a] = v]
  /\ call' = c

ReferenceAt(a, i) ==
  Becomes(a, Referenced(arrays[a], i), Call("reference", a, i, NullElement))

Set(a, i, x) ==
  Becomes(a, [Referenced(arrays[a], i) EXCEPT !.map[i] = x], Call("set", a, i, x))

\* Mutant: the new element goes where the number of entries says.
AppendElement_Count(a, x) ==
  LET n == Cardinality(DOMAIN arrays[a].map)
  IN /\ n \in Index
     /\ Becomes(a, [Referenced(arrays[a], n) EXCEPT !.map[n] = x], Call("append", a, 0, x))

AppendElement(a, x) ==
  LET n == Size(arrays[a])
  IN /\ n \in Index
     /\ Becomes(a, [Referenced(arrays[a], n) EXCEPT !.map[n] = x], Call("append", a, 0, x))

Cleared(v) == [v EXCEPT !.map = << >>]

Clear(a) ==
  Becomes(a, Cleared(arrays[a]), Call("clear", a, 0, NullElement))

\* A null value becomes an array.  A longer one gets its last element only, and
\* the assertion at the end of a shorter one fails where that has none.
Resize(a, n) ==
  LET v == [arrays[a] EXCEPT !.type = arrayValue]
      r == IF n = 0 THEN Cleared(v)
           ELSE IF n > Size(v) THEN Referenced(v, n - 1)
           ELSE [v EXCEPT !.map = [i \in DOMAIN v.map \cap (0 .. n - 1) |-> v.map[i]]]
  IN Becomes(a, r, [Call("resize", a, n, NullElement) EXCEPT !.threw = (Size(r) # n)])

\* The elements behind the removed one move down, and are made for it; an
\* element that was never made is not removed.
RemoveIndex(a, i) ==
  LET v == arrays[a]
  IN /\ v.type = arrayValue /\ i \in DOMAIN v.map
     /\ Becomes(a, [v EXCEPT !.map = [j \in (DOMAIN v.map \cap (0 .. i - 1)) \cup i .. Size(v) - 2 |->
                                        ElementAt(v, IF j < i THEN j ELSE j + 1)]],
                Call("remove", a, i, v.map[i]))

ArrayNext ==
  \E a \in Array :
    \/ \E i \in Index : ReferenceAt(a, i) \/ RemoveIndex(a, i) \/ \E x \in Element : Set(a, i, x)
    \/ \E x \in Element : AppendElement(a, x)
    \/ \E n \in 0 .. MaxIndex + 1 : Resize(a, n)
    \/ Clear(a)

ArrayImpl == ArrayInit /\ [][ArrayNext]_arrayVars

-----------------------------------------------------------------------------
(* Comparison.                                                             *)

\* Elements of one type compare by their values.
LessElement(x, y) == IF x.type # y.type THEN x.type < y.type ELSE x.value < y.value

\* Entries of a map in the order of their keys, and the order of two entries.
Entries(v) ==
  [n \in 1 .. Cardinality(DOMAIN v.map) |->
     LET i == CHOOSE j \in DOMAIN v.map : Cardinality({k \in DOMAIN v.map : k <= j}) = n
     IN <<i, v.map[i]>>]
LessEntry(p, q) == p[1] < q[1] \/ (p[1] = q[1] /\ LessElement(p[2], q[2]))

\* Two maps as sequences: the first entries that differ decide.
LessMap(v, w) ==
  \E k \in 1 .. Cardinality(DOMAIN w.map) :
    /\ \A l \in 1 .. k - 1 : Entries(v)[l] = Entries(w)[l]
    /\ LessEntry(Entries(v)[k], Entries(w)[k])

\* operator<: types, numbers of entries, and the maps as sequences.
Less(v, w) ==
  LET m == Cardinality(DOMAIN v.map)
      n == Cardinality(DOMAIN w.map)
  IN \/ v.type < w.type
     \/ /\ v.type = w.type /\ v.type # nullValue
        /\ m < n \/ (m = n /\ LessMap(v, w))

\* Mutant: missing elements are equal to null ones.
Equal_Read(v, w) ==
  v.type = w.type /\ Size(v) = Size(w) /\ \A i \in Index : ElementAt(v, i) = ElementAt(w, i)

Equal(v, w) == v.type = w.type /\ v.map = w.map

-----------------------------------------------------------------------------
(* Properties.                                                             *)

Elements(v) == [n \in 1 .. Size(v) |-> ElementAt(v, n - 1)]

\* An array that holds every element up to its size behaves like a sequence;
\* one with gaps may lose null elements at its end when it shrinks, and fail the
\* assertion of resize, but loses nothing else (operator[], append, resize,
\* clear, removeIndex).
Sequences == INSTANCE ArraySemantics WITH
  sequences <- [a \in Array |-> Elements(arrays[a])],
  sparse <- {a \in Array : DOMAIN arrays[a].map # 0 .. Size(arrays[a]) - 1}
ArraySpec == Sequences!Spec

ArrayValue == {[type |-> nullValue, map |-> << >>]}
              \cup [type : {arrayValue}, map : UNION {[D -> Element] : D \in SUBSET Index}]

\* Values are in one order, with == as its equality, although an element that is
\* missing and one that is null read alike (operator<, operator==).
OrderIsTotal ==
  \A a, b \in Array :
    LET v == arrays[a]
        w == arrays[b]
    IN /\ <<Less(v, w), Less(w, v), Equal(v, w)>> \in
            {<<TRUE, FALSE, FALSE>>, <<FALSE, TRUE, FALSE>>, <<FALSE, FALSE, TRUE>>}
       /\ Equal(v, w) => Elements(v) = Elements(w)
       /\ Less(v, w) => \A u \in ArrayValue : Less(w, u) => Less(v, u)
=============================================================================
