-------------------------- MODULE JsonValueProofs --------------------------
(***************************************************************************)
(* Proofs about JsonValue, for any variables, names and bounds, and maps of *)
(* every size and depth.                                                   *)
(*                                                                         *)
(* What an operation frees or copies is the least set of buffers that is   *)
(* closed under ownership; the proofs need more of it: that no other owner *)
(* leads into it.  This holds of a state in which every owner has a buffer *)
(* of its own and every buffer hangs on a variable, and each part of an    *)
(* operation is shown to keep it.  A part is described by a predicate of   *)
(* the states before and after it, which the next part is proved from.     *)
(*                                                                         *)
(* In such a state no way through the maps comes back to a buffer, so the  *)
(* value of a slot is what paths of names lead to.  Two slots that agree   *)
(* on what they are and on the members they lead to have the same value,   *)
(* and from the predicates of its parts each operation is shown to change  *)
(* the values as ValueSemantics says.                                      *)
(***************************************************************************)
EXTENDS JsonValue, TLAPS, FiniteSetTheorems, FunctionTheorems, SequenceTheorems, NaturalsInduction

-----------------------------------------------------------------------------
(* Memory.                                                                 *)

Pointer ==
  [kind : {"null", "literal", "string", "object", "comment", "noDuplication", "duplicate"},
   ptr : Buffer \cup {Nil, Literal}]
SlotType == [Field -> Pointer]
MapType == UNION {[N -> SlotType] : N \in SUBSET Member}
StateType ==
  [vars : [Var \cup {Other} -> SlotType],
   cells : UNION {[D -> MapType] : D \in SUBSET Buffer},
   bad : BOOLEAN]

\* What the parts of a state are.
LEMMA StateIs ==
  ASSUME NEW s \in StateType
  PROVE  /\ s.vars \in [Var \cup {Other} -> SlotType] /\ s.bad \in BOOLEAN
         /\ DOMAIN s.cells \in SUBSET Buffer
         /\ s.cells \in [DOMAIN s.cells -> MapType]
         /\ \A b \in DOMAIN s.cells : DOMAIN s.cells[b] \in SUBSET Member /\ s.cells[b] \in [DOMAIN s.cells[b] -> SlotType]
<1>1. s.vars \in [Var \cup {Other} -> SlotType] /\ s.bad \in BOOLEAN
      /\ s.cells \in UNION {[D -> MapType] : D \in SUBSET Buffer}
  BY DEF StateType
<1>2. PICK D \in SUBSET Buffer : s.cells \in [D -> MapType]
  BY <1>1
<1>3. D = DOMAIN s.cells
  BY <1>2
<1>4. ASSUME NEW b \in DOMAIN s.cells
      PROVE  DOMAIN s.cells[b] \in SUBSET Member /\ s.cells[b] \in [DOMAIN s.cells[b] -> SlotType]
  <2>1. s.cells[b] \in MapType
    BY <1>2, <1>3
  <2>2. PICK N \in SUBSET Member : s.cells[b] \in [N -> SlotType]
    BY <2>1 DEF MapType
  <2> QED
    BY <2>2
<1> QED
  BY <1>1, <1>2, <1>3, <1>4

\* The slots of a state are its variables and its entries.
LEMMA SlotsAre ==
  ASSUME NEW s \in StateType
  PROVE  /\ \A v \in Var \cup {Other} : Variable(v) \in Slots(s) /\ PointersOf(s, Variable(v)) = s.vars[v]
         /\ \A b \in DOMAIN s.cells : \A n \in DOMAIN s.cells[b] :
              <<b, n>> \in Slots(s) /\ n # None /\ PointersOf(s, <<b, n>>) = s.cells[b][n]
         /\ \A B : \A l : l \in Inside(s, B) <=>
              \E b \in B \cap DOMAIN s.cells : \E n \in DOMAIN s.cells[b] : l = <<b, n>>
         /\ \A l \in Slots(s) :
              /\ PointersOf(s, l) \in SlotType
              /\ \/ \E v \in Var \cup {Other} : l = Variable(v)
                 \/ \E b \in DOMAIN s.cells : \E n \in DOMAIN s.cells[b] : l = <<b, n>> /\ n # None
<1>1. \A B : \A l : l \in Inside(s, B) <=>
              \E b \in B \cap DOMAIN s.cells : \E n \in DOMAIN s.cells[b] : l = <<b, n>>
  BY DEF Inside
<1>2. \A b \in DOMAIN s.cells : \A n \in DOMAIN s.cells[b] : n # None
  BY StateIs, MemoryAssumption DEF None
<1>3. \A v \in Var \cup {Other} : Variable(v) \in Slots(s) /\ PointersOf(s, Variable(v)) = s.vars[v]
  BY DEF Slots, PointersOf, Variable
<1>4. \A b \in DOMAIN s.cells : \A n \in DOMAIN s.cells[b] :
              <<b, n>> \in Slots(s) /\ PointersOf(s, <<b, n>>) = s.cells[b][n]
  BY <1>1, <1>2 DEF Slots, PointersOf
<1>5. ASSUME NEW l \in Slots(s)
      PROVE  \/ \E v \in Var \cup {Other} : l = Variable(v)
             \/ \E b \in DOMAIN s.cells : \E n \in DOMAIN s.cells[b] : l = <<b, n>> /\ n # None
  BY <1>1, <1>2 DEF Slots
<1>6. ASSUME NEW l \in Slots(s)
      PROVE  PointersOf(s, l) \in SlotType
  BY <1>3, <1>4, <1>5, StateIs
<1> QED
  BY <1>1, <1>2, <1>3, <1>4, <1>5, <1>6

\* A slot is a variable of every state, or an entry.
LEMMA EntryIs ==
  ASSUME NEW s \in StateType
  PROVE  /\ \A m : m[2] = None => (m \in Slots(s) <=> \E v \in Var \cup {Other} : m = Variable(v))
         /\ \A m : m[2] # None =>
              (m \in Slots(s) <=> m = <<m[1], m[2]>> /\ m[1] \in DOMAIN s.cells /\ m[2] \in DOMAIN s.cells[m[1]])
         /\ \A m \in Slots(s) : m[2] = None => PointersOf(s, m) = s.vars[m[1]]
         /\ \A m \in Slots(s) : m[2] # None => PointersOf(s, m) = s.cells[m[1]][m[2]]
<1>1. ASSUME NEW m, m[2] = None PROVE m \in Slots(s) <=> \E v \in Var \cup {Other} : m = Variable(v)
  <2>1. ~(\E b \in DOMAIN s.cells : \E n \in DOMAIN s.cells[b] : m = <<b, n>> /\ n # None)
    BY <1>1
  <2> QED
    BY <2>1, SlotsAre
<1>2. ASSUME NEW m \in Slots(s), m[2] # None
      PROVE  m = <<m[1], m[2]>> /\ m[1] \in DOMAIN s.cells /\ m[2] \in DOMAIN s.cells[m[1]]
  <2>1. ~(\E v \in Var \cup {Other} : m = Variable(v))
    BY <1>2 DEF Variable
  <2>2. PICK b \in DOMAIN s.cells : \E n \in DOMAIN s.cells[b] : m = <<b, n>>
    BY <2>1, SlotsAre
  <2> QED
    BY <2>2
<1>3. ASSUME NEW m, m = <<m[1], m[2]>>, m[1] \in DOMAIN s.cells, m[2] \in DOMAIN s.cells[m[1]]
      PROVE  m \in Slots(s)
  BY <1>3, SlotsAre
<1> QED
  BY <1>1, <1>2, <1>3 DEF PointersOf

\* The same buffers and entries.
Alike(t, s) ==
  /\ DOMAIN t.cells = DOMAIN s.cells
  /\ \A b \in DOMAIN s.cells : DOMAIN t.cells[b] = DOMAIN s.cells[b]
  /\ Slots(t) = Slots(s)

\* An assignment changes the pointers of one slot.
LEMMA AssignedIs ==
  ASSUME NEW s \in StateType, NEW l \in Slots(s), NEW x \in SlotType, NEW t, t = Assigned(s, l, x)
  PROVE  /\ t \in StateType /\ t.bad = s.bad /\ Alike(t, s)
         /\ \A k \in Slots(s) : PointersOf(t, k) = IF k = l THEN x ELSE PointersOf(s, k)
<1>1. CASE \E v \in Var \cup {Other} : l = Variable(v)
  <2>1. PICK v \in Var \cup {Other} : l = Variable(v)
    BY <1>1
  <2>2. t = [s EXCEPT !.vars[v] = x]
    BY <2>1 DEF Assigned, Variable
  <2>3. t.vars = [s.vars EXCEPT ![v] = x] /\ t.cells = s.cells /\ t.bad = s.bad
    BY <2>2, StateIs DEF StateType
  <2>4. t \in StateType
    BY <2>2, <2>3, StateIs DEF StateType
  <2>5. \A B : Inside(t, B) = Inside(s, B)
    BY <2>3 DEF Inside
  <2>6. Slots(t) = Slots(s)
    BY <2>5, <2>3 DEF Slots
  <2>7. ASSUME NEW k \in Slots(s) PROVE PointersOf(t, k) = IF k = l THEN x ELSE PointersOf(s, k)
    BY <2>1, <2>3, <2>4, <2>6, SlotsAre, StateIs DEF Variable
  <2> QED
    BY <2>3, <2>4, <2>6, <2>7 DEF Alike
<1>2. CASE \E b \in DOMAIN s.cells : \E n \in DOMAIN s.cells[b] : l = <<b, n>> /\ n # None
  <2>0. PICK b \in DOMAIN s.cells : \E n \in DOMAIN s.cells[b] : l = <<b, n>> /\ n # None
    BY <1>2
  <2>1. PICK n \in DOMAIN s.cells[b] : l = <<b, n>> /\ n # None
    BY <2>0
  <2>2. t = [s EXCEPT !.cells[b][n] = x]
    BY <2>1 DEF Assigned
  <2> DEFINE e == [s.cells[b] EXCEPT ![n] = x]
  <2>3. t.vars = s.vars /\ t.cells = [s.cells EXCEPT ![b] = e] /\ t.bad = s.bad
    BY <2>2, StateIs DEF StateType
  <2>4. e \in [DOMAIN s.cells[b] -> SlotType] /\ e \in MapType
    <3>1. e \in [DOMAIN s.cells[b] -> SlotType] /\ DOMAIN s.cells[b] \in SUBSET Member
      BY StateIs
    <3> QED
      BY <3>1 DEF MapType
  <2>5. t \in StateType
    <3>1. t.cells \in [DOMAIN s.cells -> MapType] /\ DOMAIN s.cells \in SUBSET Buffer
      BY <2>3, <2>4, StateIs
    <3>2. t.cells \in UNION {[D -> MapType] : D \in SUBSET Buffer}
      BY <3>1
    <3> QED
      BY <2>2, <2>3, <3>2 DEF StateType
  <2>6. DOMAIN t.cells = DOMAIN s.cells /\ \A c \in DOMAIN s.cells : DOMAIN t.cells[c] = DOMAIN s.cells[c]
    BY <2>3, <2>4, StateIs
  <2>7. \A B : Inside(t, B) = Inside(s, B)
    <3>1. ASSUME NEW B, NEW k PROVE k \in Inside(t, B) <=> k \in Inside(s, B)
      BY <2>5, <2>6, SlotsAre
    <3> QED
      BY <3>1 DEF Inside
  <2>8. Slots(t) = Slots(s)
    BY <2>6, <2>7 DEF Slots
  <2>9. ASSUME NEW k \in Slots(s) PROVE PointersOf(t, k) = IF k = l THEN x ELSE PointersOf(s, k)
    BY <2>1, <2>3, <2>4, <2>5, <2>6, <2>8, SlotsAre, StateIs DEF Variable
  <2> QED
    BY <2>3, <2>5, <2>6, <2>8, <2>9 DEF Alike
<1> QED
  BY <1>1, <1>2, SlotsAre

\* What slot l owns with f, and whether it is in a buffer of B.
Owns(s, l, f) == PointersOf(s, l)[f].kind \in Owning
Owned(s, l, f) == PointersOf(s, l)[f].ptr
In(l, B) == l[2] # None /\ l[1] \in B

\* B holds what slot l owns with F, and what its own entries own.
Holds(s, l, F, B) ==
  /\ \A f \in F : Owns(s, l, f) => Owned(s, l, f) \in B
  /\ \A k \in Slots(s), g \in Field : In(k, B) /\ Owns(s, k, g) => Owned(s, k, g) \in B

\* B holds what the variables own, and what its own entries own.
Grounded(s, B) ==
  \A k \in Slots(s), g \in Field : (k[2] = None \/ k[1] \in B) /\ Owns(s, k, g) => Owned(s, k, g) \in B

\* Every owner has a buffer of its own, and all buffers hang on variables.
Sound(s) ==
  /\ s \in StateType
  /\ ~s.bad
  /\ \A k \in Slots(s), g \in Field : Owns(s, k, g) => Owned(s, k, g) \in DOMAIN s.cells
  /\ \A k, m \in Slots(s), g, h \in Field :
       Owns(s, k, g) /\ Owns(s, m, h) /\ Owned(s, k, g) = Owned(s, m, h) => k = m /\ g = h
  /\ \A B \in SUBSET DOMAIN s.cells : Grounded(s, B) => B = DOMAIN s.cells

\* Inside is In, of slots.
LEMMA InsideIs ==
  ASSUME NEW s \in StateType, NEW B
  PROVE  \A k : k \in Inside(s, B) <=> k \in Slots(s) /\ In(k, B)
<1>1. ASSUME NEW k \in Inside(s, B) PROVE k \in Slots(s) /\ In(k, B)
  <2>1. PICK b \in B \cap DOMAIN s.cells : \E n \in DOMAIN s.cells[b] : k = <<b, n>>
    BY SlotsAre
  <2> QED
    BY <2>1, SlotsAre DEF In
<1>2. ASSUME NEW k \in Slots(s), In(k, B) PROVE k \in Inside(s, B)
  <2>1. PICK b \in DOMAIN s.cells : \E n \in DOMAIN s.cells[b] : k = <<b, n>>
    BY <1>2, SlotsAre DEF In, Variable
  <2>2. b \in B
    BY <1>2, <2>1 DEF In
  <2> QED
    BY <2>1, <2>2, SlotsAre
<1> QED
  BY <1>1, <1>2

\* Owners is Owns, of pairs of a slot and a field.
LEMMA OwnersAre ==
  ASSUME NEW s, NEW L, NEW F
  PROVE  /\ \A k \in L, g \in F : Owns(s, k, g) => <<k, g>> \in Owners(s, L, F)
         /\ \A o \in Owners(s, L, F) : \E k \in L, g \in F :
              o = <<k, g>> /\ Owns(s, k, g) /\ Target(s, o) = Owned(s, k, g)
         /\ \A k \in L, g \in F : Target(s, <<k, g>>) = Owned(s, k, g)
BY DEF Owners, Owns, Owned, Target

\* Closed is Holds, of the owners of one slot.
LEMMA ClosedIs ==
  ASSUME NEW s \in StateType, NEW l \in Slots(s), NEW F \in SUBSET Field, NEW B \in SUBSET DOMAIN s.cells
  PROVE  Closed(s, Owners(s, {l}, F), B) <=> Holds(s, l, F, B)
<1>1. ASSUME Closed(s, Owners(s, {l}, F), B) PROVE Holds(s, l, F, B)
  <2>1. ASSUME NEW f \in F, Owns(s, l, f) PROVE Owned(s, l, f) \in B
    <3>1. <<l, f>> \in Owners(s, {l}, F) /\ Target(s, <<l, f>>) = Owned(s, l, f)
      BY <2>1, OwnersAre
    <3> QED
      BY <1>1, <3>1 DEF Closed
  <2>2. ASSUME NEW k \in Slots(s), NEW g \in Field, In(k, B), Owns(s, k, g) PROVE Owned(s, k, g) \in B
    <3>1. k \in Inside(s, B)
      BY <2>2, InsideIs
    <3>2. <<k, g>> \in Owners(s, Inside(s, B), Field) /\ Target(s, <<k, g>>) = Owned(s, k, g)
      BY <2>2, <3>1, OwnersAre
    <3> QED
      BY <1>1, <3>2 DEF Closed
  <2> QED
    BY <2>1, <2>2 DEF Holds
<1>2. ASSUME Holds(s, l, F, B) PROVE Closed(s, Owners(s, {l}, F), B)
  <2>1. ASSUME NEW o \in Owners(s, {l}, F) PROVE Target(s, o) \in B
    BY <1>2, OwnersAre DEF Holds
  <2>2. ASSUME NEW o \in Owners(s, Inside(s, B), Field) PROVE Target(s, o) \in B
    <3>1. PICK k \in Inside(s, B), g \in Field : Owns(s, k, g) /\ Target(s, o) = Owned(s, k, g)
      BY <2>2, OwnersAre
    <3>2. k \in Slots(s) /\ In(k, B)
      BY InsideIs
    <3> QED
      BY <1>2, <3>1, <3>2 DEF Holds
  <2> QED
    BY <2>1, <2>2 DEF Closed
<1> QED
  BY <1>1, <1>2

\* The buffers that hang on a slot: they hold what it owns, each of them is owned
\* from the slot or from one of them, and no other owner leads to them.
LEMMA TreeIs ==
  ASSUME NEW s, Sound(s), NEW l \in Slots(s), NEW F \in SUBSET Field
  PROVE  LET T == Tree(s, Owners(s, {l}, F)) IN
         /\ T \in SUBSET DOMAIN s.cells /\ Holds(s, l, F, T)
         /\ \A B \in SUBSET DOMAIN s.cells : Holds(s, l, F, B) => T \subseteq B
         /\ \A k \in Slots(s), g \in Field :
              Owns(s, k, g) /\ Owned(s, k, g) \in T => (k = l /\ g \in F) \/ In(k, T)
         /\ ~In(l, T)
<1> DEFINE T == Tree(s, Owners(s, {l}, F))
<1>0. s \in StateType
  BY DEF Sound
<1>1. T \in SUBSET DOMAIN s.cells
  BY DEF Tree
<1>2. \A B \in SUBSET DOMAIN s.cells : Holds(s, l, F, B) => T \subseteq B
  BY <1>0, ClosedIs DEF Tree
<1>3. Holds(s, l, F, DOMAIN s.cells)
  BY DEF Holds, Sound
<1>4. ASSUME NEW b \in DOMAIN s.cells, \A B \in SUBSET DOMAIN s.cells : Holds(s, l, F, B) => b \in B
      PROVE  b \in T
  BY <1>0, <1>4, ClosedIs DEF Tree
<1> HIDE DEF T
<1>5. Holds(s, l, F, T)
  <2>1. ASSUME NEW f \in F, Owns(s, l, f) PROVE Owned(s, l, f) \in T
    <3>1. Owned(s, l, f) \in DOMAIN s.cells
      BY <2>1 DEF Sound
    <3>2. \A B \in SUBSET DOMAIN s.cells : Holds(s, l, F, B) => Owned(s, l, f) \in B
      BY <2>1 DEF Holds
    <3> QED
      BY <1>4, <3>1, <3>2
  <2>2. ASSUME NEW k \in Slots(s), NEW g \in Field, In(k, T), Owns(s, k, g) PROVE Owned(s, k, g) \in T
    <3>1. Owned(s, k, g) \in DOMAIN s.cells
      BY <2>2 DEF Sound
    <3>2. \A B \in SUBSET DOMAIN s.cells : Holds(s, l, F, B) => Owned(s, k, g) \in B
      BY <1>2, <2>2 DEF Holds, In
    <3> QED
      BY <1>4, <3>1, <3>2
  <2> QED
    BY <2>1, <2>2 DEF Holds
<1>6. ASSUME NEW b \in T
      PROVE  \/ \E f \in F : Owns(s, l, f) /\ Owned(s, l, f) = b
             \/ \E k \in Slots(s), g \in Field : In(k, T) /\ Owns(s, k, g) /\ Owned(s, k, g) = b
  <2> SUFFICES ASSUME \A f \in F : Owns(s, l, f) => Owned(s, l, f) # b,
                      \A k \in Slots(s), g \in Field : In(k, T) /\ Owns(s, k, g) => Owned(s, k, g) # b
               PROVE  FALSE
    OBVIOUS
  <2>1. Holds(s, l, F, T \ {b})
    BY <1>5 DEF Holds, In
  <2>2. T \subseteq T \ {b}
    BY <1>1, <1>2, <2>1
  <2> QED
    BY <2>2
<1>7. ASSUME NEW k \in Slots(s), NEW g \in Field, Owns(s, k, g), Owned(s, k, g) \in T
      PROVE  (k = l /\ g \in F) \/ In(k, T)
  <2>1. CASE \E f \in F : Owns(s, l, f) /\ Owned(s, l, f) = Owned(s, k, g)
    BY <1>7, <2>1 DEF Sound
  <2>2. CASE \E m \in Slots(s), h \in Field : In(m, T) /\ Owns(s, m, h) /\ Owned(s, m, h) = Owned(s, k, g)
    BY <1>7, <2>2 DEF Sound
  <2> QED
    BY <1>6, <1>7, <2>1, <2>2
<1>8. ~In(l, T)
  <2> SUFFICES ASSUME In(l, T) PROVE FALSE
    OBVIOUS
  <2> DEFINE B == DOMAIN s.cells \ T
  <2>1. ASSUME NEW k \in Slots(s), NEW g \in Field, k[2] = None \/ k[1] \in B, Owns(s, k, g)
        PROVE  Owned(s, k, g) \in B
    <3>1. Owned(s, k, g) \in DOMAIN s.cells
      BY <2>1 DEF Sound
    <3>2. ~In(k, T)
      BY <2>1 DEF In
    <3>3. k # l
      BY <3>2
    <3> QED
      BY <1>7, <2>1, <3>1, <3>2, <3>3
  <2>2. Grounded(s, B)
    BY <2>1 DEF Grounded
  <2>3. B = DOMAIN s.cells
    BY <2>2 DEF Sound
  <2> QED
    BY <1>1, <2>3 DEF In
<1> QED
  BY <1>1, <1>2, <1>5, <1>7, <1>8 DEF T

\* A mix of two slots is one, pointer by pointer.
LEMMA MixedIs ==
  ASSUME NEW x \in SlotType, NEW y \in SlotType, NEW F
  PROVE  /\ Mixed(x, y, F) \in SlotType
         /\ \A f \in Field : Mixed(x, y, F)[f] = IF f \in F THEN y[f] ELSE x[f]
BY DEF Mixed, SlotType

\* A variable of the program, or an entry of the map of one.
Placed(s, l) ==
  /\ l \in Slots(s) /\ l # Temporary
  /\ l[2] = None \/ \E v \in Var : Owns(s, Variable(v), "payload") /\ Owned(s, Variable(v), "payload") = l[1]

\* t is s, in which the slots l and k traded F.
Traded(t, s, l, k, F) ==
  /\ Sound(t) /\ Alike(t, s)
  /\ \A m \in Slots(s), f \in Field :
       PointersOf(t, m)[f] = IF m = l /\ f \in F THEN PointersOf(s, k)[f]
                             ELSE IF m = k /\ f \in F THEN PointersOf(s, l)[f]
                             ELSE PointersOf(s, m)[f]

\* Owners trade their buffers, and no tree comes to hang on itself.
LEMMA ExchangedIs ==
  ASSUME NEW s, Sound(s), NEW l \in Slots(s), NEW k \in Slots(s), NEW F \in SUBSET Field, l # k,
         k[2] = None, l[2] = None \/ (Placed(s, l) /\ k = Temporary)
  PROVE  Traded(Exchanged(s, l, k, F), s, l, k, F)
<1> DEFINE t == Exchanged(s, l, k, F)
           x == Mixed(PointersOf(s, l), PointersOf(s, k), F)
           y == Mixed(PointersOf(s, k), PointersOf(s, l), F)
           u == Assigned(s, l, x)
<1>1. /\ s \in StateType /\ l \in Slots(s) /\ k \in Slots(s)
      /\ PointersOf(s, l) \in SlotType /\ PointersOf(s, k) \in SlotType
  BY SlotsAre DEF Sound
<1>2. x \in SlotType /\ y \in SlotType
  BY <1>1, MixedIs
<1>3. /\ u \in StateType /\ u.bad = s.bad /\ Alike(u, s)
      /\ \A m \in Slots(s) : PointersOf(u, m) = IF m = l THEN x ELSE PointersOf(s, m)
  <2>1. u = Assigned(s, l, x)
    OBVIOUS
  <2> HIDE DEF t, u, x, y
  <2> QED
    BY <1>1, <1>2, <2>1, AssignedIs
<1>4. t = Assigned(u, k, y)
  BY DEF Exchanged
<1>5. /\ t \in StateType /\ t.bad = s.bad /\ Alike(t, s)
      /\ DOMAIN t.cells = DOMAIN s.cells /\ Slots(t) = Slots(s)
      /\ \A m \in Slots(s) : PointersOf(t, m) = IF m = k THEN y ELSE IF m = l THEN x ELSE PointersOf(s, m)
  <2> HIDE DEF t, u, x, y
  <2>1. Slots(u) = Slots(s)
    BY <1>3 DEF Alike
  <2>2. t \in StateType /\ t.bad = s.bad /\ Alike(t, u)
        /\ \A m \in Slots(s) : PointersOf(t, m) = IF m = k THEN y ELSE PointersOf(u, m)
    BY <1>2, <1>3, <1>4, <2>1, AssignedIs
  <2> QED
    BY <1>3, <2>1, <2>2 DEF Alike
<1>6. \A m \in Slots(s), f \in Field :
        PointersOf(t, m)[f] = IF m = l /\ f \in F THEN PointersOf(s, k)[f]
                              ELSE IF m = k /\ f \in F THEN PointersOf(s, l)[f]
                              ELSE PointersOf(s, m)[f]
  <2>1. \A f \in Field : x[f] = (IF f \in F THEN PointersOf(s, k)[f] ELSE PointersOf(s, l)[f])
    BY <1>1, MixedIs
  <2>2. \A f \in Field : y[f] = (IF f \in F THEN PointersOf(s, l)[f] ELSE PointersOf(s, k)[f])
    BY <1>1, MixedIs
  <2> HIDE DEF t, x, y
  <2> QED
    BY <1>5, <2>1, <2>2
<1> DEFINE Twin(m, f) == IF m = l /\ f \in F THEN k ELSE IF m = k /\ f \in F THEN l ELSE m
<1> HIDE DEF t, u, x, y
<1>7. \A m \in Slots(s), f \in Field : Twin(m, f) \in Slots(s) /\ Twin(Twin(m, f), f) = m
  OBVIOUS
<1>8. \A m \in Slots(s), f \in Field :
        (Owns(t, m, f) <=> Owns(s, Twin(m, f), f)) /\ Owned(t, m, f) = Owned(s, Twin(m, f), f)
  BY <1>6 DEF Owns, Owned
<1>9. \A m \in Slots(t), f \in Field : Owns(t, m, f) => Owned(t, m, f) \in DOMAIN t.cells
  <2> HIDE DEF Twin
  <2> QED
    BY <1>5, <1>7, <1>8 DEF Sound, Owns, Owned
<1>10. \A m, n \in Slots(t), f, g \in Field :
         Owns(t, m, f) /\ Owns(t, n, g) /\ Owned(t, m, f) = Owned(t, n, g) => m = n /\ f = g
  <2> HIDE DEF Twin
  <2> SUFFICES ASSUME NEW m \in Slots(s), NEW n \in Slots(s), NEW f \in Field, NEW g \in Field,
                      Owns(t, m, f), Owns(t, n, g), Owned(t, m, f) = Owned(t, n, g)
               PROVE  m = n /\ f = g
    BY <1>5
  <2>1. Twin(m, f) = Twin(n, g) /\ f = g
    BY <1>7, <1>8 DEF Sound
  <2> QED
    BY <1>7, <2>1
<1>11. ASSUME NEW B \in SUBSET DOMAIN t.cells, Grounded(t, B)
       PROVE  B = DOMAIN t.cells
  <2>1. ASSUME NEW m \in Slots(s), NEW f \in Field, m[2] = None \/ m[1] \in B, Owns(s, m, f)
        PROVE  Owned(s, m, f) \in B
    <3> DEFINE n == Twin(m, f)
    <3>1. n \in Slots(t) /\ Owns(t, n, f) /\ Owned(t, n, f) = Owned(s, m, f)
      <4> HIDE DEF Twin
      <4> QED
        BY <1>5, <1>7, <1>8, <2>1
    <3>2. n[2] = None \/ n[1] \in B
      <4>1. CASE m = k /\ f \in F /\ l[2] # None
        <5>1. PICK v \in Var : Owns(s, Variable(v), "payload") /\ Owned(s, Variable(v), "payload") = l[1]
          BY <4>1 DEF Placed
        <5>2. Variable(v) \in Slots(s) /\ Variable(v) # l /\ Variable(v) # k /\ Variable(v)[2] = None
          BY <1>1, <4>1, SlotsAre, MemoryAssumption DEF Variable, Temporary, Placed
        <5>3. Owns(t, Variable(v), "payload") /\ Owned(t, Variable(v), "payload") = l[1]
          BY <1>8, <5>1, <5>2 DEF Field
        <5> QED
          BY <1>5, <1>11, <4>1, <5>2, <5>3 DEF Grounded, Field
      <4> QED
        BY <2>1, <4>1
    <3> QED
      BY <1>11, <3>1, <3>2 DEF Grounded
  <2>2. Grounded(s, B)
    BY <2>1 DEF Grounded
  <2> QED
    BY <1>5, <2>2 DEF Sound
<1>12. Sound(t)
  BY <1>5, <1>9, <1>10, <1>11 DEF Sound
<1> QED
  BY <1>5, <1>6, <1>12 DEF t, Traded

\* Nothing owns nothing.
LEMMA NullIs ==
  /\ NullValue \in SlotType
  /\ \A f \in Field : NullValue[f] = Nothing
  /\ Nothing \in Pointer /\ Nothing.kind \notin Owning /\ Nothing.ptr = Nil
BY DEF NullValue, SlotType, Nothing, Pointer, Owning

\* t is s without the buffers T that hung on F of slot l.
FreedFrom(t, s, l, F, T) ==
  /\ Sound(t)
  /\ T \in SUBSET DOMAIN s.cells /\ DOMAIN t.cells = DOMAIN s.cells \ T
  /\ \A b \in DOMAIN t.cells : DOMAIN t.cells[b] = DOMAIN s.cells[b]
  /\ l \in Slots(t) /\ \A m : m \in Slots(t) <=> m \in Slots(s) /\ ~In(m, T)
  /\ \A m \in Slots(t), f \in Field :
       PointersOf(t, m)[f] = IF m = l /\ f \in F THEN Nothing ELSE PointersOf(s, m)[f]

\* Owners are freed, each once, with all they own; what is left keeps its owner.
LEMMA FreedIs ==
  ASSUME NEW s, Sound(s), NEW l \in Slots(s), NEW F \in SUBSET Field, NEW t, t = Freed(s, l, F),
         NEW T, T = Tree(s, Owners(s, {l}, F))
  PROVE  FreedFrom(t, s, l, F, T)
<1> DEFINE O == Owners(s, {l}, F)
           x == Mixed(PointersOf(s, l), NullValue, F)
           all == O \cup Owners(s, Inside(s, T), Field)
           u == [vars |-> s.vars, cells |-> [b \in DOMAIN s.cells \ T |-> s.cells[b]], bad |-> s.bad \/ ~Exclusive(s, all)]
<1>1. t = Assigned(u, l, x)
  BY DEF Freed
<1>2. s \in StateType /\ PointersOf(s, l) \in SlotType
  BY SlotsAre DEF Sound
<1>3. /\ T \in SUBSET DOMAIN s.cells /\ Holds(s, l, F, T)
      /\ \A k \in Slots(s), g \in Field :
           Owns(s, k, g) /\ Owned(s, k, g) \in T => (k = l /\ g \in F) \/ In(k, T)
      /\ ~In(l, T)
  <2> HIDE DEF all, u, x
  <2> QED
    BY TreeIs
<1>4. Exclusive(s, all)
  <2>1. ASSUME NEW o \in all
        PROVE  \E k \in Slots(s), g \in Field : o = <<k, g>> /\ Owns(s, k, g) /\ Target(s, o) = Owned(s, k, g)
    <3>1. \A k : k \in Inside(s, T) => k \in Slots(s)
      BY <1>2, InsideIs
    <3>2. CASE o \in O
      BY <3>2, OwnersAre
    <3>3. CASE o \in Owners(s, Inside(s, T), Field)
      <4>1. \E k \in Inside(s, T), g \in Field : o = <<k, g>> /\ Owns(s, k, g) /\ Target(s, o) = Owned(s, k, g)
        BY <3>3, OwnersAre
      <4> QED
        BY <3>1, <4>1
    <3> QED
      BY <3>2, <3>3
  <2> HIDE DEF all
  <2>2. \A o \in all : Target(s, o) \in DOMAIN s.cells
    BY <2>1 DEF Sound
  <2>3. ASSUME NEW o \in all, NEW p \in all, Target(s, o) = Target(s, p) PROVE o = p
    BY <2>1, <2>3 DEF Sound
  <2> QED
    BY <2>2, <2>3 DEF Exclusive
<1>5. u.bad = FALSE
  <2> HIDE DEF all
  <2>1. s.bad = FALSE
    BY <1>2, StateIs DEF Sound
  <2> QED
    BY <1>4, <2>1
<1>6. u.vars = s.vars /\ DOMAIN u.cells = DOMAIN s.cells \ T
      /\ \A b \in DOMAIN u.cells : u.cells[b] = s.cells[b]
  <2> HIDE DEF all
  <2> QED
    OBVIOUS
<1>7. u \in StateType
  <2>1. \A b \in DOMAIN s.cells : s.cells[b] \in MapType
    BY <1>2, StateIs
  <2>2. [b \in DOMAIN s.cells \ T |-> s.cells[b]] \in [DOMAIN s.cells \ T -> MapType]
    BY <2>1
  <2>3. DOMAIN s.cells \ T \in SUBSET Buffer /\ s.vars \in [Var \cup {Other} -> SlotType]
    BY <1>2, StateIs
  <2>4. u = [vars |-> s.vars, cells |-> [b \in DOMAIN s.cells \ T |-> s.cells[b]], bad |-> FALSE]
    BY <1>5
  <2> QED
    BY <2>2, <2>3, <2>4 DEF StateType
<1> HIDE DEF u, x, all, O
<1>8. ASSUME NEW m PROVE m \in Slots(u) <=> m \in Slots(s) /\ ~In(m, T)
  <2>1. CASE m[2] = None
    BY <1>2, <1>7, <2>1, EntryIs DEF In
  <2>2. CASE m[2] # None
    <3>1. m \in Slots(u) <=> m = <<m[1], m[2]>> /\ m[1] \in DOMAIN u.cells /\ m[2] \in DOMAIN u.cells[m[1]]
      BY <1>7, <2>2, EntryIs
    <3>2. m \in Slots(s) <=> m = <<m[1], m[2]>> /\ m[1] \in DOMAIN s.cells /\ m[2] \in DOMAIN s.cells[m[1]]
      BY <1>2, <2>2, EntryIs
    <3> QED
      BY <1>6, <2>2, <3>1, <3>2 DEF In
  <2> QED
    BY <2>1, <2>2
<1>9. ASSUME NEW m \in Slots(u) PROVE PointersOf(u, m) = PointersOf(s, m)
  <2>1. m \in Slots(s)
    BY <1>8
  <2>2. CASE m[2] = None
    BY <1>2, <1>6, <1>7, <2>1, <2>2, EntryIs
  <2>3. CASE m[2] # None
    <3>1. m[1] \in DOMAIN u.cells
      BY <1>7, <2>3, EntryIs
    <3>2. PointersOf(u, m) = u.cells[m[1]][m[2]] /\ PointersOf(s, m) = s.cells[m[1]][m[2]]
      BY <1>2, <1>7, <2>1, <2>3, EntryIs
    <3> QED
      BY <1>6, <3>1, <3>2
  <2> QED
    BY <2>2, <2>3
<1>10. x \in SlotType /\ \A f \in Field : x[f] = IF f \in F THEN Nothing ELSE PointersOf(s, l)[f]
  BY <1>2, MixedIs, NullIs DEF x
<1>11. t \in StateType /\ t.bad = u.bad /\ Alike(t, u)
       /\ \A m \in Slots(u) : PointersOf(t, m) = IF m = l THEN x ELSE PointersOf(u, m)
  <2>1. l \in Slots(u)
    BY <1>3, <1>8
  <2> QED
    BY <1>1, <1>7, <1>10, <2>1, AssignedIs
<1>12. DOMAIN t.cells = DOMAIN s.cells \ T /\ \A b \in DOMAIN t.cells : DOMAIN t.cells[b] = DOMAIN s.cells[b]
  BY <1>6, <1>11 DEF Alike
<1>13. l \in Slots(t) /\ \A m : m \in Slots(t) <=> m \in Slots(s) /\ ~In(m, T)
  BY <1>3, <1>8, <1>11 DEF Alike
<1>14. \A m \in Slots(t), f \in Field :
              PointersOf(t, m)[f] = IF m = l /\ f \in F THEN Nothing ELSE PointersOf(s, m)[f]
  <2>1. Slots(t) = Slots(u)
    BY <1>11 DEF Alike
  <2> QED
    BY <1>9, <1>10, <1>11, <2>1
<1>15. \A m \in Slots(t), f \in Field : Owns(t, m, f) =>
         m \in Slots(s) /\ ~(m = l /\ f \in F) /\ ~In(m, T) /\ Owns(s, m, f) /\ Owned(t, m, f) = Owned(s, m, f)
  BY <1>13, <1>14, NullIs DEF Owns, Owned
<1>16. \A m \in Slots(t), f \in Field : Owns(t, m, f) => Owned(t, m, f) \in DOMAIN t.cells
  BY <1>3, <1>12, <1>15 DEF Sound
<1>17. \A m, n \in Slots(t), f, g \in Field :
         Owns(t, m, f) /\ Owns(t, n, g) /\ Owned(t, m, f) = Owned(t, n, g) => m = n /\ f = g
  BY <1>15 DEF Sound
<1>18. ASSUME NEW B \in SUBSET DOMAIN t.cells, Grounded(t, B)
       PROVE  B = DOMAIN t.cells
  <2>1. ASSUME NEW m \in Slots(s), NEW f \in Field, m[2] = None \/ m[1] \in B \cup T, Owns(s, m, f)
        PROVE  Owned(s, m, f) \in B \cup T
    <3>1. CASE (m = l /\ f \in F) \/ In(m, T)
      BY <1>3, <2>1, <3>1 DEF Holds
    <3>2. CASE ~(m = l /\ f \in F) /\ ~In(m, T)
      <4>1. m \in Slots(t) /\ Owns(t, m, f) /\ Owned(t, m, f) = Owned(s, m, f)
        BY <1>13, <1>14, <2>1, <3>2 DEF Owns, Owned
      <4> QED
        BY <1>18, <2>1, <3>2, <4>1 DEF Grounded, In
    <3> QED
      BY <3>1, <3>2
  <2>2. Grounded(s, B \cup T)
    BY <2>1 DEF Grounded
  <2>3. B \cup T = DOMAIN s.cells
    BY <1>3, <1>12, <2>2 DEF Sound
  <2> QED
    BY <1>12, <2>3
<1>19. Sound(t)
  BY <1>5, <1>11, <1>16, <1>17, <1>18 DEF Sound
<1> QED
  BY <1>3, <1>12, <1>13, <1>14, <1>19 DEF FreedFrom

\* Only the buffers of a state change.
LEMMA CellsAre ==
  ASSUME NEW s \in StateType, NEW D \in SUBSET Buffer, NEW c \in [D -> MapType],
         NEW u, u = [s EXCEPT !.cells = c]
  PROVE  u \in StateType /\ u.vars = s.vars /\ u.cells = c /\ u.bad = s.bad
BY StateIs DEF StateType

\* t is s with a buffer b, of which f of slot l is the owner.
MadeIn(t, s, l, f, kind, b) ==
  /\ Sound(t)
  /\ DOMAIN t.cells = DOMAIN s.cells \cup {b} /\ DOMAIN t.cells[b] = {}
  /\ \A c \in DOMAIN s.cells : DOMAIN t.cells[c] = DOMAIN s.cells[c]
  /\ Slots(t) = Slots(s)
  /\ \A m \in Slots(s), g \in Field :
       PointersOf(t, m)[g] = IF m = l /\ g = f THEN [kind |-> kind, ptr |-> b] ELSE PointersOf(s, m)[g]

\* A slot that owned nothing owns a buffer that was not in use.
LEMMA MakeIs ==
  ASSUME NEW s, Sound(s), NEW l \in Slots(s), NEW f \in Field, ~Owns(s, l, f),
         NEW kind \in Owning, Unused(s) # {}, NEW t, t = Make(s, l, f, kind)
  PROVE  \E b \in Unused(s) : MadeIn(t, s, l, f, kind, b)
<1> DEFINE b == CHOOSE b \in Unused(s) : TRUE
           c == [d \in DOMAIN s.cells \cup {b} |-> IF d = b THEN << >> ELSE s.cells[d]]
           u == [s EXCEPT !.cells = c]
           x == [PointersOf(s, l) EXCEPT ![f] = [kind |-> kind, ptr |-> b]]
<1>1. t = Assigned(u, l, x)
  BY DEF Make
<1>2. b \in Buffer /\ b \notin DOMAIN s.cells
  BY DEF Unused
<1> HIDE DEF b
<1>3. s \in StateType /\ PointersOf(s, l) \in [Field -> Pointer]
  BY SlotsAre DEF Sound, SlotType
<1>4. x \in SlotType /\ \A g \in Field : x[g] = IF g = f THEN [kind |-> kind, ptr |-> b] ELSE PointersOf(s, l)[g]
  <2>1. [kind |-> kind, ptr |-> b] \in Pointer
    BY <1>2 DEF Pointer, Owning
  <2> QED
    BY <1>3, <2>1 DEF SlotType
<1>5. << >> \in MapType
  <2>1. << >> \in [{} -> SlotType]
    OBVIOUS
  <2> QED
    BY <2>1 DEF MapType
<1>6. c \in [DOMAIN s.cells \cup {b} -> MapType]
  BY <1>3, <1>5, StateIs
<1>7. u \in StateType /\ u.vars = s.vars /\ u.cells = c /\ u.bad = s.bad
  <2>1. DOMAIN s.cells \cup {b} \in SUBSET Buffer
    BY <1>2, <1>3, StateIs
  <2> HIDE DEF c
  <2> QED
    BY <1>3, <1>6, <2>1, CellsAre
<1>8. DOMAIN c = DOMAIN s.cells \cup {b} /\ DOMAIN c[b] = {} /\ \A d \in DOMAIN s.cells : c[d] = s.cells[d]
  BY <1>2
<1> HIDE DEF c, u, x
<1>9. ASSUME NEW m PROVE m \in Slots(u) <=> m \in Slots(s)
  <2>1. CASE m[2] = None
    BY <1>3, <1>7, <2>1, EntryIs
  <2>2. CASE m[2] # None
    <3>1. m \in Slots(u) <=> m = <<m[1], m[2]>> /\ m[1] \in DOMAIN c /\ m[2] \in DOMAIN c[m[1]]
      BY <1>7, <2>2, EntryIs
    <3>2. m \in Slots(s) <=> m = <<m[1], m[2]>> /\ m[1] \in DOMAIN s.cells /\ m[2] \in DOMAIN s.cells[m[1]]
      BY <1>3, <2>2, EntryIs
    <3> QED
      BY <1>2, <1>8, <3>1, <3>2
  <2> QED
    BY <2>1, <2>2
<1>10. ASSUME NEW m \in Slots(s) PROVE PointersOf(u, m) = PointersOf(s, m)
  <2>1. CASE m[2] = None
    BY <1>3, <1>7, <1>9, <2>1, EntryIs
  <2>2. CASE m[2] # None
    <3>1. m[1] \in DOMAIN s.cells
      BY <1>3, <2>2, EntryIs
    <3> QED
      BY <1>3, <1>7, <1>8, <1>9, <2>2, <3>1, EntryIs
  <2> QED
    BY <2>1, <2>2
<1>11. Slots(u) = Slots(s)
  BY <1>9 DEF Slots
<1>12. t \in StateType /\ t.bad = u.bad /\ Alike(t, u)
       /\ \A m \in Slots(u) : PointersOf(t, m) = IF m = l THEN x ELSE PointersOf(u, m)
  BY <1>1, <1>4, <1>7, <1>11, AssignedIs
<1>13. /\ DOMAIN t.cells = DOMAIN s.cells \cup {b} /\ DOMAIN t.cells[b] = {}
       /\ \A d \in DOMAIN s.cells : DOMAIN t.cells[d] = DOMAIN s.cells[d]
       /\ Slots(t) = Slots(s)
  BY <1>7, <1>8, <1>11, <1>12 DEF Alike
<1>14. \A m \in Slots(s), g \in Field :
         PointersOf(t, m)[g] = IF m = l /\ g = f THEN [kind |-> kind, ptr |-> b] ELSE PointersOf(s, m)[g]
  BY <1>4, <1>10, <1>11, <1>12
<1>15. \A m \in Slots(t), g \in Field : ~(m = l /\ g = f) =>
         (Owns(t, m, g) <=> Owns(s, m, g)) /\ Owned(t, m, g) = Owned(s, m, g)
  BY <1>13, <1>14 DEF Owns, Owned
<1>16. Owns(t, l, f) /\ Owned(t, l, f) = b
  BY <1>14 DEF Owns, Owned
<1>17. \A m \in Slots(t), g \in Field : Owns(t, m, g) => Owned(t, m, g) \in DOMAIN t.cells
  BY <1>13, <1>15, <1>16 DEF Sound
<1>18. \A m, n \in Slots(t), g, h \in Field :
         Owns(t, m, g) /\ Owns(t, n, h) /\ Owned(t, m, g) = Owned(t, n, h) => m = n /\ g = h
  BY <1>2, <1>13, <1>15, <1>16 DEF Sound
<1>19. ASSUME NEW B \in SUBSET DOMAIN t.cells, Grounded(t, B)
       PROVE  B = DOMAIN t.cells
  <2>1. ASSUME NEW m \in Slots(s), NEW g \in Field, m[2] = None \/ m[1] \in B \ {b}, Owns(s, m, g)
        PROVE  Owned(s, m, g) \in B \ {b}
    <3>1. ~(m = l /\ g = f) /\ Owned(s, m, g) # b
      BY <1>2, <2>1 DEF Sound
    <3> QED
      BY <1>13, <1>15, <1>19, <2>1, <3>1 DEF Grounded
  <2>2. Grounded(s, B \ {b})
    BY <2>1 DEF Grounded
  <2>3. B \ {b} = DOMAIN s.cells
    BY <1>13, <2>2 DEF Sound
  <2>4. l[2] = None \/ l[1] \in B
    BY <1>3, <2>3, EntryIs
  <2>5. b \in B
    BY <1>13, <1>16, <1>19, <2>4 DEF Grounded
  <2> QED
    BY <1>13, <2>3, <2>5
<1>20. t.bad = FALSE
  BY <1>3, <1>7, <1>12, StateIs DEF Sound
<1>21. Sound(t)
  BY <1>12, <1>17, <1>18, <1>19, <1>20 DEF Sound
<1>22. b \in Unused(s)
  BY <1>2 DEF Unused
<1>23. MadeIn(t, s, l, f, kind, b)
  BY <1>13, <1>14, <1>21 DEF MadeIn
<1> QED
  BY <1>22, <1>23

\* A pointer to a copy.
CopyOf(copy, p) == IF p.kind \in Owning THEN [p EXCEPT !.ptr = copy[@]] ELSE p

\* t is s with copies of the buffers T that hang on F of slot l, which hang on slot k.
DuplicatedTo(t, s, l, k, F, T, copy) ==
  /\ Sound(t)
  /\ DOMAIN t.cells = DOMAIN s.cells \cup {copy[b] : b \in T}
  /\ \A b \in DOMAIN s.cells : DOMAIN t.cells[b] = DOMAIN s.cells[b]
  /\ \A b \in T : DOMAIN t.cells[copy[b]] = DOMAIN s.cells[b]
  /\ \A m \in Slots(s) : m \in Slots(t)
  /\ \A m \in Slots(s), f \in Field : PointersOf(t, m)[f] =
       IF m = k /\ f \in F THEN CopyOf(copy, PointersOf(s, l)[f]) ELSE PointersOf(s, m)[f]
  /\ \A b \in T : \A n \in DOMAIN s.cells[b] :
       /\ <<b, n>> \in Slots(s) /\ <<copy[b], n>> \in Slots(t)
       /\ \A f \in Field : PointersOf(t, <<copy[b], n>>)[f] = CopyOf(copy, PointersOf(s, <<b, n>>)[f])

\* A slot that owned nothing with F owns copies of what another one owns, each in a
\* buffer that was not in use.
LEMMA DuplicatedIs ==
  ASSUME NEW s, Sound(s), NEW l \in Slots(s), NEW k \in Slots(s), NEW F \in SUBSET Field,
         \A f \in F : ~Owns(s, k, f),
         Injection(Tree(s, Owners(s, {l}, F)), Unused(s)) # {},
         NEW t, t = Duplicated(s, l, k, F)
  PROVE  LET T == Tree(s, Owners(s, {l}, F)) IN
         \E copy \in Injection(T, Unused(s)) : DuplicatedTo(t, s, l, k, F, T, copy)
<1> DEFINE T == Tree(s, Owners(s, {l}, F))
           copy == CHOOSE f \in Injection(T, Unused(s)) : TRUE
           of(c) == CHOOSE b \in T : copy[b] = c
           Copied(x) == [f \in Field |-> IF IsDuplicated(x[f].kind) THEN [x[f] EXCEPT !.ptr = copy[@]] ELSE x[f]]
           D == DOMAIN s.cells \cup Range(copy)
           c == [d \in D |-> IF d \in DOMAIN s.cells THEN s.cells[d]
                             ELSE [n \in DOMAIN s.cells[of(d)] |-> Copied(s.cells[of(d)][n])]]
           u == [s EXCEPT !.cells = c]
           x == Mixed(PointersOf(s, k), Copied(PointersOf(s, l)), F)
<1>1. t = Assigned(u, k, x)
  BY Zenon DEF Duplicated
<1>2. copy \in Injection(T, Unused(s))
  OBVIOUS
<1>3. T = Tree(s, Owners(s, {l}, F))
  OBVIOUS
<1> HIDE DEF T, copy
<1>4. /\ s \in StateType /\ T \in SUBSET DOMAIN s.cells /\ Holds(s, l, F, T) /\ ~In(l, T)
      /\ PointersOf(s, l) \in [Field -> Pointer] /\ PointersOf(s, k) \in [Field -> Pointer]
  <2>1. s \in StateType /\ PointersOf(s, l) \in SlotType /\ PointersOf(s, k) \in SlotType
    BY SlotsAre DEF Sound
  <2>2. T \in SUBSET DOMAIN s.cells /\ Holds(s, l, F, T) /\ ~In(l, T)
    BY ONLY Sound(s), l \in Slots(s), F \in SUBSET Field, T = Tree(s, Owners(s, {l}, F)), TreeIs
  <2> QED
    BY <2>1, <2>2 DEF SlotType
<1>5. /\ \A b \in T : copy[b] \in Buffer /\ copy[b] \notin DOMAIN s.cells
      /\ \A a, b \in T : copy[a] = copy[b] => a = b
      /\ DOMAIN copy = T
      /\ Range(copy) = {copy[b] : b \in T}
  BY <1>2 DEF Injection, IsInjective, Unused, Range
<1>6. \A b \in T : of(copy[b]) = b
  BY <1>5
<1>7. \A y : Copied(y) = [f \in Field |-> CopyOf(copy, y[f])]
  BY DEF IsDuplicated, CopyOf
<1> HIDE DEF of, Copied
<1>8. DOMAIN c = DOMAIN s.cells \cup {copy[b] : b \in T} /\ D \in SUBSET Buffer
      /\ \A d \in DOMAIN s.cells : c[d] = s.cells[d]
  <2>1. DOMAIN s.cells \in SUBSET Buffer
    BY <1>4, StateIs
  <2> QED
    BY <1>5, <1>6, <2>1
<1>9. ASSUME NEW b \in T
       PROVE  copy[b] \in DOMAIN c /\ DOMAIN c[copy[b]] = DOMAIN s.cells[b]
              /\ \A n \in DOMAIN s.cells[b] : c[copy[b]][n] = Copied(s.cells[b][n])
  <2>1. copy[b] \in D /\ copy[b] \notin DOMAIN s.cells /\ of(copy[b]) = b
    BY <1>5, <1>6
  <2>2. c[copy[b]] = [n \in DOMAIN s.cells[b] |-> Copied(s.cells[b][n])]
    BY <2>1
  <2> QED
    BY <2>1, <2>2
<1>10. ASSUME NEW d \in DOMAIN c, d \notin DOMAIN s.cells PROVE \E b \in T : d = copy[b]
  <2> HIDE DEF c
  <2> QED
    BY <1>8, <1>10
<1>11. ASSUME NEW p \in Pointer, p.kind \in Owning => p.ptr \in T PROVE CopyOf(copy, p) \in Pointer
  BY <1>5, <1>11 DEF CopyOf, Pointer
<1>12. ASSUME NEW b \in T, NEW n \in DOMAIN s.cells[b]
      PROVE  /\ <<b, n>> \in Slots(s) /\ PointersOf(s, <<b, n>>) = s.cells[b][n]
             /\ Copied(s.cells[b][n]) \in SlotType
             /\ \A f \in Field : Copied(s.cells[b][n])[f] = CopyOf(copy, PointersOf(s, <<b, n>>)[f])
  <2>1. <<b, n>> \in Slots(s) /\ PointersOf(s, <<b, n>>) = s.cells[b][n] /\ In(<<b, n>>, T)
    BY <1>4, SlotsAre DEF In
  <2>2. s.cells[b][n] \in [Field -> Pointer]
    BY <1>4, <2>1, SlotsAre DEF SlotType
  <2>3. ASSUME NEW f \in Field PROVE CopyOf(copy, s.cells[b][n][f]) \in Pointer
    <3>1. s.cells[b][n][f].kind \in Owning => s.cells[b][n][f].ptr \in T
      BY <1>4, <2>1 DEF Holds, Owns, Owned
    <3> QED
      BY <1>11, <2>2, <3>1
  <2> QED
    BY <1>7, <2>1, <2>3 DEF SlotType
<1>13. x \in SlotType /\ \A f \in Field :
         x[f] = IF f \in F THEN CopyOf(copy, PointersOf(s, l)[f]) ELSE PointersOf(s, k)[f]
  <2>1. \A f \in Field : x[f] = IF f \in F THEN CopyOf(copy, PointersOf(s, l)[f]) ELSE PointersOf(s, k)[f]
    BY <1>7 DEF Mixed
  <2>2. ASSUME NEW f \in F PROVE CopyOf(copy, PointersOf(s, l)[f]) \in Pointer
    <3>1. PointersOf(s, l)[f].kind \in Owning => PointersOf(s, l)[f].ptr \in T
      BY <1>4 DEF Holds, Owns, Owned
    <3> QED
      BY <1>4, <1>11, <3>1
  <2>3. \A f \in Field : x[f] \in Pointer
    BY <1>4, <2>1, <2>2
  <2> QED
    BY <2>1, <2>3 DEF Mixed, SlotType
<1>14. c \in [D -> MapType]
  <2>1. ASSUME NEW d \in DOMAIN s.cells PROVE c[d] \in MapType
    BY <1>4, <1>8, StateIs
  <2>2. ASSUME NEW b \in T PROVE c[copy[b]] \in MapType
    <3> DEFINE e == [n \in DOMAIN s.cells[b] |-> Copied(s.cells[b][n])]
    <3>1. c[copy[b]] = e
      BY <1>5, <1>6
    <3>2. e \in [DOMAIN s.cells[b] -> SlotType]
      BY <1>12
    <3>3. DOMAIN s.cells[b] \in SUBSET Member
      BY <1>4, StateIs
    <3> HIDE DEF e
    <3> QED
      BY <3>1, <3>2, <3>3 DEF MapType
  <2>3. \A d \in D : d \in DOMAIN s.cells \/ \E b \in T : d = copy[b]
    BY <1>5
  <2>4. \A d \in D : c[d] \in MapType
    <3> HIDE DEF c
    <3> QED
      BY <2>1, <2>2, <2>3
  <2>5. c = [d \in D |-> c[d]]
    OBVIOUS
  <2> HIDE DEF c
  <2> QED
    BY <2>4, <2>5
<1>15. u \in StateType /\ u.vars = s.vars /\ u.cells = c /\ u.bad = s.bad
  <2>1. u = [s EXCEPT !.cells = c]
    OBVIOUS
  <2> HIDE DEF c, D, u
  <2> QED
    BY <1>4, <1>8, <1>14, <2>1, CellsAre
<1> HIDE DEF c, D, u, x
<1>16. \A m \in Slots(s) : m \in Slots(u) /\ PointersOf(u, m) = PointersOf(s, m)
  <2> SUFFICES ASSUME NEW m \in Slots(s) PROVE m \in Slots(u) /\ PointersOf(u, m) = PointersOf(s, m)
    OBVIOUS
  <2>1. CASE m[2] = None
    BY <1>4, <1>15, <2>1, EntryIs
  <2>2. CASE m[2] # None
    <3>1. m = <<m[1], m[2]>> /\ m[1] \in DOMAIN s.cells /\ m[2] \in DOMAIN s.cells[m[1]]
          /\ PointersOf(s, m) = s.cells[m[1]][m[2]]
      BY <1>4, <2>2, EntryIs
    <3>2. m[1] \in DOMAIN c /\ c[m[1]] = s.cells[m[1]]
      BY <1>8, <3>1
    <3> QED
      BY <1>15, <2>2, <3>1, <3>2, EntryIs
  <2> QED
    BY <2>1, <2>2
<1>17. ASSUME NEW b \in T, NEW n \in DOMAIN s.cells[b]
       PROVE  <<copy[b], n>> \in Slots(u) /\ PointersOf(u, <<copy[b], n>>) = Copied(s.cells[b][n])
  <2>1. copy[b] \in DOMAIN u.cells /\ n \in DOMAIN u.cells[copy[b]]
    BY <1>15, <1>9
  <2>2. <<copy[b], n>> \in Slots(u) /\ PointersOf(u, <<copy[b], n>>) = u.cells[copy[b]][n]
    BY <1>15, <2>1, SlotsAre
  <2> QED
    BY <1>15, <1>9, <2>2
<1>18. \A m \in Slots(u) : m \in Slots(s) \/ \E b \in T : \E n \in DOMAIN s.cells[b] : m = <<copy[b], n>>
  <2> SUFFICES ASSUME NEW m \in Slots(u)
               PROVE  m \in Slots(s) \/ \E b \in T : \E n \in DOMAIN s.cells[b] : m = <<copy[b], n>>
    OBVIOUS
  <2>1. CASE m[2] = None
    BY <1>4, <1>15, <2>1, EntryIs
  <2>2. CASE m[2] # None
    <3>1. m = <<m[1], m[2]>> /\ m[1] \in DOMAIN c /\ m[2] \in DOMAIN c[m[1]]
      BY <1>15, <2>2, EntryIs
    <3>2. CASE m[1] \in DOMAIN s.cells
      BY <1>4, <1>8, <2>2, <3>1, <3>2, EntryIs
    <3>3. CASE m[1] \notin DOMAIN s.cells
      <4>1. PICK b \in T : m[1] = copy[b]
        BY <1>10, <3>1, <3>3
      <4>2. m[2] \in DOMAIN s.cells[b]
        BY <1>9, <3>1, <4>1
      <4> QED
        BY <3>1, <4>1, <4>2
    <3> QED
      BY <3>2, <3>3
  <2> QED
    BY <2>1, <2>2
<1>19. t \in StateType /\ t.bad = u.bad /\ Alike(t, u)
       /\ \A m \in Slots(u) : PointersOf(t, m) = IF m = k THEN x ELSE PointersOf(u, m)
  BY <1>1, <1>13, <1>15, <1>16, AssignedIs
<1>20. /\ DOMAIN t.cells = DOMAIN s.cells \cup {copy[b] : b \in T}
       /\ \A b \in DOMAIN s.cells : DOMAIN t.cells[b] = DOMAIN s.cells[b]
       /\ \A b \in T : DOMAIN t.cells[copy[b]] = DOMAIN s.cells[b]
       /\ Slots(t) = Slots(u)
  <2>1. DOMAIN t.cells = DOMAIN c /\ Slots(t) = Slots(u) /\ \A d \in DOMAIN c : DOMAIN t.cells[d] = DOMAIN c[d]
    BY <1>15, <1>19 DEF Alike
  <2>2. \A b \in DOMAIN s.cells : DOMAIN t.cells[b] = DOMAIN s.cells[b]
    BY <1>8, <2>1
  <2>3. \A b \in T : DOMAIN t.cells[copy[b]] = DOMAIN s.cells[b]
    BY <1>9, <2>1
  <2> QED
    BY <1>8, <2>1, <2>2, <2>3
<1>21. \A m \in Slots(s), f \in Field : PointersOf(t, m)[f] =
         IF m = k /\ f \in F THEN CopyOf(copy, PointersOf(s, l)[f]) ELSE PointersOf(s, m)[f]
  BY <1>13, <1>16, <1>19
<1>22. ASSUME NEW b \in T, NEW n \in DOMAIN s.cells[b]
       PROVE  /\ <<b, n>> \in Slots(s) /\ <<copy[b], n>> \in Slots(t) /\ <<copy[b], n>> \notin Slots(s)
              /\ \A f \in Field : PointersOf(t, <<copy[b], n>>)[f] = CopyOf(copy, PointersOf(s, <<b, n>>)[f])
  <2>1. n # None
    BY <1>4, SlotsAre
  <2>2. <<copy[b], n>> \notin Slots(s)
    BY <1>4, <1>5, <2>1, EntryIs
  <2> QED
    BY <1>12, <1>17, <1>19, <1>20, <2>2
\* An owner of t is one of s, the slot k, or a copy of an owner in T.
<1>23. \A m \in Slots(s), f \in Field : ~(m = k /\ f \in F) =>
         (Owns(t, m, f) <=> Owns(s, m, f)) /\ Owned(t, m, f) = Owned(s, m, f)
  BY <1>21 DEF Owns, Owned
<1>24. \A p \in Pointer : /\ CopyOf(copy, p).kind = p.kind
                          /\ p.kind \in Owning => CopyOf(copy, p).ptr = copy[p.ptr]
  BY DEF CopyOf, Pointer
<1>25. \A f \in F : /\ Owns(t, k, f) <=> Owns(s, l, f)
                    /\ Owns(t, k, f) => Owned(s, l, f) \in T /\ Owned(t, k, f) = copy[Owned(s, l, f)]
  BY <1>4, <1>21, <1>24 DEF Owns, Owned, Holds
<1>26. ASSUME NEW b \in T, NEW n \in DOMAIN s.cells[b], NEW f \in Field
       PROVE  /\ Owns(t, <<copy[b], n>>, f) <=> Owns(s, <<b, n>>, f)
              /\ Owns(t, <<copy[b], n>>, f) =>
                   Owned(s, <<b, n>>, f) \in T /\ Owned(t, <<copy[b], n>>, f) = copy[Owned(s, <<b, n>>, f)]
  <2>1. PointersOf(s, <<b, n>>)[f] \in Pointer
    BY <1>4, <1>22, SlotsAre DEF SlotType
  <2>2. In(<<b, n>>, T)
    <3>1. n # None
      BY <1>4, SlotsAre
    <3> QED
      BY <3>1 DEF In
  <2> QED
    BY <1>4, <1>22, <1>24, <2>1, <2>2 DEF Owns, Owned, Holds
<1>27. ASSUME NEW m \in Slots(t), NEW f \in Field, Owns(t, m, f)
       PROVE  \/ m \in Slots(s) /\ Owns(s, m, f) /\ Owned(t, m, f) = Owned(s, m, f)
              \/ \E w \in Slots(s) : /\ Owns(s, w, f) /\ Owned(s, w, f) \in T /\ Owned(t, m, f) = copy[Owned(s, w, f)]
                                     /\ (m = k /\ w = l) \/ (In(w, T) /\ m = <<copy[w[1]], w[2]>>)
  <2>1. CASE m = k /\ f \in F
    BY <1>25, <1>27, <2>1
  <2>2. CASE m \in Slots(s) /\ ~(m = k /\ f \in F)
    BY <1>23, <1>27, <2>2
  <2>3. CASE m \notin Slots(s)
    <3>1. PICK b \in T : \E n \in DOMAIN s.cells[b] : m = <<copy[b], n>>
      BY <1>18, <1>20, <2>3
    <3>2. PICK n \in DOMAIN s.cells[b] : m = <<copy[b], n>>
      BY <3>1
    <3>3. <<b, n>> \in Slots(s) /\ n # None
      BY <1>4, <1>22, SlotsAre
    <3> QED
      BY <1>26, <1>27, <3>2, <3>3 DEF In
  <2> QED
    BY <2>1, <2>2, <2>3
<1>28. \A m \in Slots(t), f \in Field : Owns(t, m, f) => Owned(t, m, f) \in DOMAIN t.cells
  BY <1>20, <1>27 DEF Sound
<1>29. ASSUME NEW m \in Slots(t), NEW n \in Slots(t), NEW f \in Field, NEW g \in Field,
              Owns(t, m, f), Owns(t, n, g), Owned(t, m, f) = Owned(t, n, g)
       PROVE  m = n /\ f = g
  <2>1. CASE /\ m \in Slots(s) /\ Owns(s, m, f) /\ Owned(t, m, f) = Owned(s, m, f)
             /\ n \in Slots(s) /\ Owns(s, n, g) /\ Owned(t, n, g) = Owned(s, n, g)
    BY <1>29, <2>1 DEF Sound
  <2>2. ASSUME NEW w \in Slots(s), NEW z \in Slots(s),
               Owns(s, w, f), Owned(s, w, f) \in T, Owned(t, m, f) = copy[Owned(s, w, f)],
               (m = k /\ w = l) \/ (In(w, T) /\ m = <<copy[w[1]], w[2]>>),
               Owns(s, z, g), Owned(s, z, g) \in T, Owned(t, n, g) = copy[Owned(s, z, g)],
               (n = k /\ z = l) \/ (In(z, T) /\ n = <<copy[z[1]], z[2]>>)
        PROVE  m = n /\ f = g
    <3>1. Owned(s, w, f) = Owned(s, z, g)
      BY <1>5, <1>29, <2>2
    <3>2. w = z /\ f = g
      BY <2>2, <3>1 DEF Sound
    <3> QED
      BY <1>4, <2>2, <3>2
  <2>3. ASSUME NEW w \in Slots(s), NEW p \in Slots(s), NEW h \in Field, Owns(s, p, h), Owned(s, w, f) \in T
        PROVE  Owned(s, p, h) # copy[Owned(s, w, f)]
    BY <1>5, <2>3 DEF Sound
  <2>4. ASSUME NEW w \in Slots(s), NEW p \in Slots(s), NEW h \in Field, Owns(s, p, h), Owned(s, w, g) \in T
        PROVE  Owned(s, p, h) # copy[Owned(s, w, g)]
    BY <1>5, <2>4 DEF Sound
  <2> QED
    BY <1>27, <1>29, <2>1, <2>2, <2>3, <2>4
<1>30. ASSUME NEW B \in SUBSET DOMAIN t.cells, Grounded(t, B)
       PROVE  B = DOMAIN t.cells
  <2>1. ASSUME NEW m \in Slots(s), NEW f \in Field, m[2] = None \/ m[1] \in B \cap DOMAIN s.cells, Owns(s, m, f)
        PROVE  Owned(s, m, f) \in B \cap DOMAIN s.cells
    <3>1. m \in Slots(t) /\ Owns(t, m, f) /\ Owned(t, m, f) = Owned(s, m, f)
      BY <1>16, <1>20, <1>23, <2>1
    <3>2. Owned(s, m, f) \in DOMAIN s.cells
      BY <2>1 DEF Sound
    <3> QED
      BY <1>30, <2>1, <3>1, <3>2 DEF Grounded
  <2>2. Grounded(s, B \cap DOMAIN s.cells)
    BY <2>1 DEF Grounded
  <2>3. DOMAIN s.cells \subseteq B
    BY <2>2 DEF Sound
  <2> DEFINE C == {b \in T : copy[b] \in B}
  <2>4. ASSUME NEW f \in F, Owns(s, l, f) PROVE Owned(s, l, f) \in C
    <3>1. k \in Slots(t) /\ (k[2] = None \/ k[1] \in B)
      BY <1>4, <1>16, <1>20, <2>3, EntryIs
    <3>2. Owned(t, k, f) \in B
      BY <1>25, <1>30, <2>4, <3>1 DEF Grounded
    <3> QED
      BY <1>25, <2>4, <3>2
  <2>5. ASSUME NEW m \in Slots(s), NEW f \in Field, In(m, C), Owns(s, m, f) PROVE Owned(s, m, f) \in C
    <3>1. m = <<m[1], m[2]>> /\ m[1] \in T /\ m[2] \in DOMAIN s.cells[m[1]] /\ copy[m[1]] \in B
      BY <1>4, <2>5, EntryIs DEF In
    <3>2. <<copy[m[1]], m[2]>> \in Slots(t) /\ Owns(t, <<copy[m[1]], m[2]>>, f)
          /\ Owned(s, m, f) \in T /\ Owned(t, <<copy[m[1]], m[2]>>, f) = copy[Owned(s, m, f)]
      BY <1>22, <1>26, <2>5, <3>1
    <3>3. copy[Owned(s, m, f)] \in B
      BY <1>30, <3>1, <3>2 DEF Grounded
    <3> QED
      BY <3>2, <3>3
  <2>6. Holds(s, l, F, C)
    BY <2>4, <2>5 DEF Holds
  <2>7. T \subseteq C
    <3>1. C \in SUBSET DOMAIN s.cells
      BY <1>4
    <3> HIDE DEF C
    <3> QED
      BY <1>3, <1>4, <2>6, <3>1, TreeIs
  <2> QED
    BY <1>20, <2>3, <2>7
<1>31. t.bad = FALSE
  BY <1>4, <1>15, <1>19, StateIs DEF Sound
<1>32. Sound(t)
  BY <1>19, <1>28, <1>29, <1>30, <1>31 DEF Sound
<1>33. \A m \in Slots(s) : m \in Slots(t)
  BY <1>16, <1>20
<1>34. /\ \A b \in DOMAIN s.cells : DOMAIN t.cells[b] = DOMAIN s.cells[b]
       /\ \A b \in T : DOMAIN t.cells[copy[b]] = DOMAIN s.cells[b]
       /\ DOMAIN t.cells = DOMAIN s.cells \cup {copy[b] : b \in T}
  BY <1>20
<1> HIDE DEF c, x, u, D
<1>35. DuplicatedTo(t, s, l, k, F, T, copy)
  BY <1>21, <1>22, <1>32, <1>33, <1>34 DEF DuplicatedTo
<1> QED
  BY <1>2, <1>35 DEF T

\* What owns nothing may come and go.
LEMMA BareIs ==
  ASSUME NEW s, Sound(s), NEW l \in Slots(s), NEW x \in SlotType,
         \A f \in Field : ~Owns(s, l, f) /\ x[f].kind \notin Owning, NEW t, t = Assigned(s, l, x)
  PROVE  /\ Sound(t) /\ Alike(t, s)
         /\ \A m \in Slots(s) : PointersOf(t, m) = IF m = l THEN x ELSE PointersOf(s, m)
<1>1. s \in StateType /\ s.bad = FALSE
  BY StateIs DEF Sound
<1>2. /\ t \in StateType /\ t.bad = s.bad /\ Alike(t, s)
      /\ \A m \in Slots(s) : PointersOf(t, m) = IF m = l THEN x ELSE PointersOf(s, m)
  BY <1>1, AssignedIs
<1>3. DOMAIN t.cells = DOMAIN s.cells /\ Slots(t) = Slots(s)
  BY <1>2 DEF Alike
<1>4. \A m \in Slots(s), f \in Field :
        (Owns(t, m, f) <=> Owns(s, m, f)) /\ (Owns(t, m, f) => Owned(t, m, f) = Owned(s, m, f))
  BY <1>2 DEF Owns, Owned
<1>5. \A B : Grounded(t, B) => Grounded(s, B)
  BY <1>3, <1>4 DEF Grounded
<1> QED
  BY <1>1, <1>2, <1>3, <1>4, <1>5 DEF Sound

\* t is s with an entry n in map b, a null value.
AddedTo(t, s, b, n) ==
  /\ Sound(t) /\ DOMAIN t.cells = DOMAIN s.cells
  /\ \A c \in DOMAIN s.cells : DOMAIN t.cells[c] = IF c = b THEN DOMAIN s.cells[c] \cup {n} ELSE DOMAIN s.cells[c]
  /\ Slots(t) = Slots(s) \cup {<<b, n>>}
  /\ \A m \in Slots(s) : PointersOf(t, m) = PointersOf(s, m)
  /\ PointersOf(t, <<b, n>>) = NullValue

\* A null entry is added to a map.
LEMMA AddedIs ==
  ASSUME NEW s, Sound(s), NEW b \in DOMAIN s.cells, NEW n \in Member, n \notin DOMAIN s.cells[b],
         NEW t, t = [s EXCEPT !.cells[b] = [m \in DOMAIN @ \cup {n} |-> IF m = n THEN NullValue ELSE @[m]]]
  PROVE  AddedTo(t, s, b, n)
<1> DEFINE e == [m \in DOMAIN s.cells[b] \cup {n} |-> IF m = n THEN NullValue ELSE s.cells[b][m]]
           c == [s.cells EXCEPT ![b] = e]
<1>1. s \in StateType /\ s.bad = FALSE
  BY StateIs DEF Sound
<1>2. /\ DOMAIN s.cells \in SUBSET Buffer /\ s.cells \in [DOMAIN s.cells -> MapType]
      /\ DOMAIN s.cells[b] \in SUBSET Member /\ s.cells[b] \in [DOMAIN s.cells[b] -> SlotType]
  BY <1>1, StateIs
<1>3. e \in MapType
  <2>1. e \in [DOMAIN s.cells[b] \cup {n} -> SlotType]
    BY <1>2, NullIs
  <2>2. DOMAIN s.cells[b] \cup {n} \in SUBSET Member
    BY <1>2
  <2> HIDE DEF e
  <2> QED
    BY <2>1, <2>2 DEF MapType
<1>4. t = [s EXCEPT !.cells = c]
  <2>1. t = [s EXCEPT !.cells[b] = e]
    OBVIOUS
  <2> HIDE DEF e
  <2> QED
    BY <1>1, <2>1 DEF StateType
<1>5. DOMAIN e = DOMAIN s.cells[b] \cup {n} /\ e[n] = NullValue
      /\ \A m \in DOMAIN s.cells[b] : e[m] = s.cells[b][m]
  OBVIOUS
<1> HIDE DEF e
<1>6. t \in StateType /\ t.vars = s.vars /\ t.cells = c /\ t.bad = s.bad
  <2>1. c \in [DOMAIN s.cells -> MapType]
    BY <1>2, <1>3
  <2>2. s \in StateType /\ DOMAIN s.cells \in SUBSET Buffer
    BY <1>1, <1>2
  <2> HIDE DEF c
  <2> QED
    BY ONLY <1>4, <2>1, <2>2, CellsAre
<1>7. PICK u : u = t
  OBVIOUS
<1>8. u \in StateType /\ u.vars = s.vars /\ u.cells = c /\ u.bad = s.bad
  BY <1>6, <1>7
<1>9. DOMAIN c = DOMAIN s.cells /\ c[b] = e /\ \A d \in DOMAIN s.cells : d # b => c[d] = s.cells[d]
  BY <1>2
<1> HIDE DEF c
<1>10. n # None
  BY MemoryAssumption DEF None
<1>11. ASSUME NEW m PROVE m \in Slots(u) <=> m \in Slots(s) \cup {<<b, n>>}
  <2>1. CASE m[2] = None
    BY <1>1, <1>8, <1>10, <2>1, EntryIs
  <2>2. CASE m[2] # None
    <3>1. m \in Slots(u) <=> m = <<m[1], m[2]>> /\ m[1] \in DOMAIN c /\ m[2] \in DOMAIN c[m[1]]
      BY <1>8, <2>2, EntryIs
    <3>2. m \in Slots(s) <=> m = <<m[1], m[2]>> /\ m[1] \in DOMAIN s.cells /\ m[2] \in DOMAIN s.cells[m[1]]
      BY <1>1, <2>2, EntryIs
    <3> QED
      BY <1>5, <1>9, <3>1, <3>2
  <2> QED
    BY <2>1, <2>2
<1>12. Slots(u) = Slots(s) \cup {<<b, n>>}
  BY <1>11 DEF Slots
<1>13. ASSUME NEW m \in Slots(s) PROVE PointersOf(u, m) = PointersOf(s, m)
  <2>1. CASE m[2] = None
    <3>1. m \in Slots(s) /\ m \in Slots(u)
      BY <1>11
    <3>2. PointersOf(u, m) = u.vars[m[1]] /\ PointersOf(s, m) = s.vars[m[1]]
      BY <1>1, <1>8, <2>1, <3>1, EntryIs
    <3> QED
      BY <1>8, <3>2
  <2>2. CASE m[2] # None
    <3>1. m[1] \in DOMAIN s.cells /\ m[2] \in DOMAIN s.cells[m[1]] /\ PointersOf(s, m) = s.cells[m[1]][m[2]]
      BY <1>1, <2>2, EntryIs
    <3>2. PointersOf(u, m) = c[m[1]][m[2]]
      BY <1>8, <1>11, <2>2, EntryIs
    <3> QED
      BY <1>5, <1>9, <3>1, <3>2
  <2> QED
    BY <2>1, <2>2
<1>14. PointersOf(u, <<b, n>>) = NullValue
  <2>1. <<b, n>> \in Slots(u) /\ PointersOf(u, <<b, n>>) = c[b][n]
    <3>1. b \in DOMAIN u.cells /\ n \in DOMAIN u.cells[b]
      BY <1>5, <1>8, <1>9
    <3>2. <<b, n>> \in Slots(u) /\ PointersOf(u, <<b, n>>) = u.cells[b][n]
      BY <1>8, <3>1, SlotsAre
    <3> QED
      BY <1>8, <3>2
  <2> QED
    BY <1>5, <1>9, <2>1
<1>15. \A m \in Slots(u), f \in Field : Owns(u, m, f) =>
         m \in Slots(s) /\ Owns(s, m, f) /\ Owned(u, m, f) = Owned(s, m, f)
  BY <1>12, <1>13, <1>14, NullIs DEF Owns, Owned
<1>16. \A m \in Slots(s), f \in Field : Owns(s, m, f) => Owns(u, m, f) /\ Owned(u, m, f) = Owned(s, m, f)
  BY <1>13 DEF Owns, Owned
<1>17. \A B : Grounded(u, B) => Grounded(s, B)
  BY <1>12, <1>16 DEF Grounded
<1>18. Sound(u)
  <2>1. u.bad = FALSE
    BY <1>1, <1>8
  <2>2. DOMAIN u.cells = DOMAIN s.cells
    BY <1>8, <1>9
  <2>3. \A k \in Slots(u), g \in Field : Owns(u, k, g) => Owned(u, k, g) \in DOMAIN u.cells
    BY <1>15, <2>2 DEF Sound
  <2>4. \A k, m \in Slots(u), g, h \in Field :
          Owns(u, k, g) /\ Owns(u, m, h) /\ Owned(u, k, g) = Owned(u, m, h) => k = m /\ g = h
    BY <1>15 DEF Sound
  <2>5. \A B \in SUBSET DOMAIN u.cells : Grounded(u, B) => B = DOMAIN u.cells
    BY <1>17, <2>2 DEF Sound
  <2> QED
    BY <1>8, <2>1, <2>3, <2>4, <2>5 DEF Sound
<1> QED
  <2>1. DOMAIN u.cells = DOMAIN s.cells /\ \A d \in DOMAIN s.cells :
          DOMAIN u.cells[d] = IF d = b THEN DOMAIN s.cells[d] \cup {n} ELSE DOMAIN s.cells[d]
    BY <1>5, <1>8, <1>9
  <2>2. AddedTo(u, s, b, n)
    BY <1>12, <1>13, <1>14, <1>18, <2>1 DEF AddedTo
  <2> QED
    BY <1>7, <2>2

\* t is s without the entry n of map b.
DroppedFrom(t, s, b, n) ==
  /\ Sound(t) /\ DOMAIN t.cells = DOMAIN s.cells
  /\ \A c \in DOMAIN s.cells : DOMAIN t.cells[c] = IF c = b THEN DOMAIN s.cells[c] \ {n} ELSE DOMAIN s.cells[c]
  /\ Slots(t) = Slots(s) \ {<<b, n>>}
  /\ \A m \in Slots(t) : PointersOf(t, m) = PointersOf(s, m)

\* An entry that owns nothing is dropped from a map.
LEMMA DroppedIs ==
  ASSUME NEW s, Sound(s), NEW b \in DOMAIN s.cells, NEW n \in DOMAIN s.cells[b],
         \A f \in Field : ~Owns(s, <<b, n>>, f),
         NEW t, t = [s EXCEPT !.cells[b] = [m \in DOMAIN @ \ {n} |-> @[m]]]
  PROVE  DroppedFrom(t, s, b, n)
<1> DEFINE e == [m \in DOMAIN s.cells[b] \ {n} |-> s.cells[b][m]]
           c == [s.cells EXCEPT ![b] = e]
<1>1. s \in StateType /\ s.bad = FALSE
  BY StateIs DEF Sound
<1>2. /\ DOMAIN s.cells \in SUBSET Buffer /\ s.cells \in [DOMAIN s.cells -> MapType]
      /\ DOMAIN s.cells[b] \in SUBSET Member /\ s.cells[b] \in [DOMAIN s.cells[b] -> SlotType]
  BY <1>1, StateIs
<1>3. e \in MapType
  <2>1. e \in [DOMAIN s.cells[b] \ {n} -> SlotType]
    BY <1>2
  <2>2. DOMAIN s.cells[b] \ {n} \in SUBSET Member
    BY <1>2
  <2> HIDE DEF e
  <2> QED
    BY <2>1, <2>2 DEF MapType
<1>4. t = [s EXCEPT !.cells = c]
  <2>1. t = [s EXCEPT !.cells[b] = e]
    OBVIOUS
  <2> HIDE DEF e
  <2> QED
    BY <1>1, <2>1 DEF StateType
<1>5. DOMAIN e = DOMAIN s.cells[b] \ {n} /\ \A m \in DOMAIN e : e[m] = s.cells[b][m]
  OBVIOUS
<1> HIDE DEF e
<1>6. t \in StateType /\ t.vars = s.vars /\ t.cells = c /\ t.bad = s.bad
  <2>1. c \in [DOMAIN s.cells -> MapType]
    BY <1>2, <1>3
  <2>2. s \in StateType /\ DOMAIN s.cells \in SUBSET Buffer
    BY <1>1, <1>2
  <2> HIDE DEF c
  <2> QED
    BY ONLY <1>4, <2>1, <2>2, CellsAre
<1>7. PICK u : u = t
  OBVIOUS
<1>8. u \in StateType /\ u.vars = s.vars /\ u.cells = c /\ u.bad = s.bad
  BY <1>6, <1>7
<1>9. DOMAIN c = DOMAIN s.cells /\ c[b] = e /\ \A d \in DOMAIN s.cells : d # b => c[d] = s.cells[d]
  BY <1>2
<1> HIDE DEF c
<1>10. n # None
  BY <1>1, StateIs, MemoryAssumption DEF None
<1>11. ASSUME NEW m PROVE m \in Slots(u) <=> m \in Slots(s) \ {<<b, n>>}
  <2>1. CASE m[2] = None
    BY <1>1, <1>8, <1>10, <2>1, EntryIs
  <2>2. CASE m[2] # None
    <3>1. m \in Slots(u) <=> m = <<m[1], m[2]>> /\ m[1] \in DOMAIN c /\ m[2] \in DOMAIN c[m[1]]
      BY <1>8, <2>2, EntryIs
    <3>2. m \in Slots(s) <=> m = <<m[1], m[2]>> /\ m[1] \in DOMAIN s.cells /\ m[2] \in DOMAIN s.cells[m[1]]
      BY <1>1, <2>2, EntryIs
    <3> QED
      BY <1>5, <1>9, <3>1, <3>2
  <2> QED
    BY <2>1, <2>2
<1>12. Slots(u) = Slots(s) \ {<<b, n>>}
  BY <1>11 DEF Slots
<1>13. ASSUME NEW m \in Slots(u) PROVE PointersOf(u, m) = PointersOf(s, m)
  <2>1. CASE m[2] = None
    <3>1. m \in Slots(s) /\ m \in Slots(u)
      BY <1>11
    <3>2. PointersOf(u, m) = u.vars[m[1]] /\ PointersOf(s, m) = s.vars[m[1]]
      BY <1>1, <1>8, <2>1, <3>1, EntryIs
    <3> QED
      BY <1>8, <3>2
  <2>2. CASE m[2] # None
    <3>1. m[1] \in DOMAIN c /\ m[2] \in DOMAIN c[m[1]] /\ PointersOf(u, m) = c[m[1]][m[2]]
      BY <1>8, <2>2, EntryIs
    <3>2. PointersOf(s, m) = s.cells[m[1]][m[2]]
      BY <1>1, <1>11, <2>2, EntryIs
    <3> QED
      BY <1>5, <1>9, <3>1, <3>2
  <2> QED
    BY <2>1, <2>2
<1>14. \A m \in Slots(u), f \in Field : Owns(u, m, f) =>
         m \in Slots(s) /\ Owns(s, m, f) /\ Owned(u, m, f) = Owned(s, m, f)
  BY <1>12, <1>13 DEF Owns, Owned
<1>15. \A m \in Slots(s), f \in Field :
         Owns(s, m, f) => m \in Slots(u) /\ Owns(u, m, f) /\ Owned(u, m, f) = Owned(s, m, f)
  BY <1>12, <1>13 DEF Owns, Owned
<1>16. \A B : Grounded(u, B) => Grounded(s, B)
  BY <1>15 DEF Grounded
<1>17. Sound(u)
  <2>1. u.bad = FALSE
    BY <1>1, <1>8
  <2>2. DOMAIN u.cells = DOMAIN s.cells
    BY <1>8, <1>9
  <2>3. \A k \in Slots(u), g \in Field : Owns(u, k, g) => Owned(u, k, g) \in DOMAIN u.cells
    BY <1>14, <2>2 DEF Sound
  <2>4. \A k, m \in Slots(u), g, h \in Field :
          Owns(u, k, g) /\ Owns(u, m, h) /\ Owned(u, k, g) = Owned(u, m, h) => k = m /\ g = h
    BY <1>14 DEF Sound
  <2>5. \A B \in SUBSET DOMAIN u.cells : Grounded(u, B) => B = DOMAIN u.cells
    BY <1>16, <2>2 DEF Sound
  <2> QED
    BY <1>8, <2>1, <2>3, <2>4, <2>5 DEF Sound
<1> QED
  <2>1. DOMAIN u.cells = DOMAIN s.cells /\ \A d \in DOMAIN s.cells :
          DOMAIN u.cells[d] = IF d = b THEN DOMAIN s.cells[d] \ {n} ELSE DOMAIN s.cells[d]
    BY <1>5, <1>8, <1>9
  <2>2. DroppedFrom(u, s, b, n)
    BY <1>12, <1>13, <1>17, <2>1 DEF DroppedFrom
  <2> QED
    BY <1>7, <2>2

\* Buffers in use.
Live(s) == Cardinality(DOMAIN s.cells)

\* There is memory for one more buffer, or for a copy of some.
LEMMA RoomIs ==
  ASSUME NEW D \in SUBSET Buffer
  PROVE  /\ IsFiniteSet(D) /\ Cardinality(D) \in Nat
         /\ Cardinality(D) < Cardinality(Buffer) => Buffer \ D # {}
         /\ \A T \in SUBSET D : 2 * Cardinality(D) <= Cardinality(Buffer) => Injection(T, Buffer \ D) # {}
         /\ \A T \in SUBSET D : Cardinality(D \ T) <= Cardinality(D)
<1>1. /\ IsFiniteSet(Buffer) /\ IsFiniteSet(D) /\ IsFiniteSet(Buffer \ D)
      /\ Cardinality(Buffer) \in Nat /\ Cardinality(D) \in Nat /\ Cardinality(Buffer \ D) \in Nat
  BY MemoryAssumption, FS_Subset, FS_CardinalityType
<1>2. Cardinality(Buffer \ D) = Cardinality(Buffer) - Cardinality(D)
  <2>1. Buffer \cap D = D
    OBVIOUS
  <2> QED
    BY <1>1, <2>1, FS_Difference
<1>3. Cardinality(D) < Cardinality(Buffer) => Buffer \ D # {}
  BY <1>1, <1>2, FS_EmptySet
<1>4. ASSUME NEW T \in SUBSET D, 2 * Cardinality(D) <= Cardinality(Buffer)
      PROVE  Injection(T, Buffer \ D) # {}
  <2> DEFINE n == Cardinality(T)
             m == Cardinality(Buffer \ D)
  <2>1. IsFiniteSet(T) /\ n \in Nat /\ n <= Cardinality(D)
    BY <1>1, FS_Subset, FS_CardinalityType
  <2>2. n <= m
    BY <1>1, <1>2, <1>4, <2>1
  <2>3. ExistsBijection(1 .. n, T) /\ ExistsBijection(1 .. m, Buffer \ D)
    BY <1>1, <2>1, FS_CardinalityType
  <2>4. ExistsInjection(1 .. n, 1 .. m)
    BY <1>1, <2>1, <2>2, Fun_NatInjLeq
  <2>5. ExistsInjection(T, 1 .. n)
    BY <2>3, Fun_ExistsBijEquiv, Fun_ExistsBijSymmetric
  <2>6. ExistsInjection(1 .. m, Buffer \ D)
    BY <2>3, Fun_ExistsBijEquiv
  <2> HIDE DEF n, m
  <2>7. ExistsInjection(T, Buffer \ D)
    <3>1. ExistsInjection(T, 1 .. m)
      BY <2>4, <2>5, Fun_ExistsInjTransitive
    <3> QED
      BY <2>6, <3>1, Fun_ExistsInjTransitive
  <2> QED
    BY <2>7 DEF ExistsInjection
<1>5. ASSUME NEW T \in SUBSET D PROVE Cardinality(D \ T) <= Cardinality(D)
  BY <1>1, FS_Subset
<1> QED
  BY <1>1, <1>3, <1>4, <1>5

\* Copies of a part of what is in use at most double it.
LEMMA CopiesAre ==
  ASSUME NEW D \in SUBSET Buffer, NEW T \in SUBSET D, NEW copy \in Injection(T, Buffer \ D)
  PROVE  Cardinality(D \cup {copy[b] : b \in T}) <= 2 * Cardinality(D)
<1> DEFINE C == {copy[b] : b \in T}
<1>1. IsFiniteSet(Buffer) /\ IsFiniteSet(D) /\ Cardinality(D) \in Nat /\ IsFiniteSet(T)
      /\ Cardinality(T) \in Nat /\ Cardinality(T) <= Cardinality(D)
  BY MemoryAssumption, FS_Subset, FS_CardinalityType
<1>2. IsFiniteSet(C) /\ Cardinality(C) \in Nat /\ Cardinality(C) <= Cardinality(T)
  <2>1. copy \in Surjection(T, C)
    BY DEF Injection, Surjection
  <2> HIDE DEF C
  <2> QED
    BY <1>1, <2>1, FS_Surjection, FS_CardinalityType
<1>3. D \cap C = {}
  BY DEF Injection
<1> HIDE DEF C
<1>4. Cardinality(D \cup C) = Cardinality(D) + Cardinality(C)
  BY <1>1, <1>2, <1>3, FS_Union, FS_EmptySet
<1> QED
  BY <1>1, <1>2, <1>4 DEF C

\* No temporary value is left.
Steady(s) == Sound(s) /\ \A f \in Field : PointersOf(s, Temporary)[f] = Nothing

\* What holds of any sound state.
LEMMA SteadyIs ==
  ASSUME NEW s, Sound(s)
  PROVE  /\ s \in StateType /\ Live(s) \in Nat
         /\ Temporary \in Slots(s) /\ Temporary[2] = None
         /\ \A v \in Var : Variable(v) \in Slots(s) /\ Variable(v) # Temporary /\ Variable(v)[2] = None
         /\ \A l \in Slots(s), f \in Field : PointersOf(s, l)[f].kind = "object" => Owns(s, l, f)
<1>1. s \in StateType
  BY DEF Sound
<1>2. Live(s) \in Nat
  BY <1>1, StateIs, RoomIs DEF Live
<1> QED
  BY <1>1, <1>2, SlotsAre, MemoryAssumption DEF Temporary, Variable, Owns, Owning

\* t is s, in which slot l got F of the temporary value and T is freed.
Replaced(t, s, l, F, T) ==
  /\ Steady(t) /\ Live(t) <= Live(s)
  /\ T \in SUBSET DOMAIN s.cells /\ DOMAIN t.cells = DOMAIN s.cells \ T
  /\ \A b \in DOMAIN t.cells : DOMAIN t.cells[b] = DOMAIN s.cells[b]
  /\ l \in Slots(t) /\ \A m : m \in Slots(t) <=> m \in Slots(s) /\ ~In(m, T)
  /\ \A m \in Slots(t), f \in Field : PointersOf(t, m)[f] =
       IF m = l /\ f \in F THEN PointersOf(s, Temporary)[f]
       ELSE IF m = Temporary THEN Nothing ELSE PointersOf(s, m)[f]

\* operator=: slot l gets the pointers of the temporary value, and what it owned is freed.
LEMMA ExchangeIs ==
  ASSUME NEW s, Sound(s), NEW l, Placed(s, l), NEW F \in SUBSET Field, NEW t, t = Exchange(s, l, F)
  PROVE  \E T : Replaced(t, s, l, F, T)
<1> DEFINE k == Temporary
           u == Exchanged(s, l, k, F)
           T == Tree(u, Owners(u, {k}, Field))
<1>1. l \in Slots(s) /\ k \in Slots(s) /\ l # k /\ k[2] = None
  BY SteadyIs DEF Placed
<1>2. Traded(u, s, l, k, F)
  <2> HIDE DEF k
  <2> QED
    BY <1>1, ExchangedIs DEF k
<1>3. DOMAIN u.cells = DOMAIN s.cells /\ Slots(u) = Slots(s)
      /\ \A b \in DOMAIN s.cells : DOMAIN u.cells[b] = DOMAIN s.cells[b]
  BY <1>2 DEF Alike, Traded
<1>4. t = Freed(u, k, Field)
  BY DEF Exchange
<1> HIDE DEF u
<1>5. T = Tree(u, Owners(u, {k}, Field))
  OBVIOUS
<1> HIDE DEF T, k
<1>6. FreedFrom(t, u, k, Field, T)
  BY <1>1, <1>2, <1>3, <1>4, <1>5, FreedIs DEF Traded
<1>7. \A m \in Slots(t), f \in Field : PointersOf(t, m)[f] =
              IF m = l /\ f \in F THEN PointersOf(s, k)[f]
              ELSE IF m = k THEN Nothing ELSE PointersOf(s, m)[f]
  BY <1>1, <1>2, <1>3, <1>6 DEF FreedFrom, Traded
<1>8. Live(t) <= Live(s)
  BY <1>2, <1>3, <1>6, SteadyIs, StateIs, RoomIs DEF Live, FreedFrom, Traded
<1>9. Steady(t)
  BY <1>1, <1>6, <1>7 DEF Steady, FreedFrom, k
<1>10. l \in Slots(t)
  <2>1. CASE l[2] = None
    BY <1>1, <1>3, <1>6, <2>1 DEF In, FreedFrom
  <2>2. CASE l[2] # None
    <3>1. PICK v \in Var : Owns(s, Variable(v), "payload") /\ Owned(s, Variable(v), "payload") = l[1]
      BY <2>2 DEF Placed
    <3>2. Variable(v) \in Slots(t) /\ Variable(v) # l /\ Variable(v) # k
      BY <1>6, <2>2, SteadyIs DEF FreedFrom, k
    <3>3. Owns(t, Variable(v), "payload") /\ Owned(t, Variable(v), "payload") = l[1]
      BY <1>7, <3>1, <3>2 DEF Owns, Owned, Field
    <3>4. l[1] \in DOMAIN t.cells
      BY <1>6, <3>2, <3>3 DEF FreedFrom, Sound, Field
    <3> QED
      BY <1>1, <1>3, <1>6, <3>4 DEF In, FreedFrom
  <2> QED
    BY <2>1, <2>2
<1> QED
  <2>1. Replaced(t, s, l, F, T)
    BY <1>3, <1>6, <1>7, <1>8, <1>9, <1>10 DEF FreedFrom, Replaced, k
  <2> QED
    BY <2>1

\* t is s, in which the temporary value is x.
Holding(t, s, x) ==
  /\ Sound(t) /\ Live(t) <= Live(s) + 1 /\ Slots(t) = Slots(s)
  /\ \A b \in DOMAIN s.cells : b \in DOMAIN t.cells /\ DOMAIN t.cells[b] = DOMAIN s.cells[b]
  /\ \A m \in Slots(s), f \in Field : m # Temporary => PointersOf(t, m)[f] = PointersOf(s, m)[f]
  /\ \A f \in Field : f # "payload" => PointersOf(t, Temporary)[f] = Nothing
  /\ PointersOf(t, Temporary)["payload"].kind = x
  /\ x = "object" => DOMAIN t.cells[Owned(t, Temporary, "payload")] = {}

\* What a constructor makes of a null temporary value, with at most one new buffer.
LEMMA ConstructedIs ==
  ASSUME NEW s, Steady(s), Live(s) < Cardinality(Buffer), NEW x \in {"null", "literal", "string", "object"},
         NEW t, t = Constructed(s, x)
  PROVE  Holding(t, s, x)
<1>1. Sound(s) /\ Temporary \in Slots(s) /\ Live(s) \in Nat /\ \A f \in Field : PointersOf(s, Temporary)[f] = Nothing
  BY SteadyIs DEF Steady
<1>2. \A f \in Field : ~Owns(s, Temporary, f)
  BY <1>1, NullIs DEF Owns
<1>3. CASE x = "null"
  BY <1>1, <1>3 DEF Constructed, Nothing, Field, Holding
<1>4. CASE x = "literal"
  <2> DEFINE y == [NullValue EXCEPT !["payload"] = [kind |-> "literal", ptr |-> Literal]]
  <2>1. t = Assigned(s, Temporary, y)
    BY <1>4 DEF Constructed
  <2>2. y \in SlotType /\ y["payload"].kind = "literal" /\ \A f \in Field : f # "payload" => y[f] = Nothing
    BY DEF NullValue, SlotType, Pointer, Nothing, Field
  <2>3. \A f \in Field : y[f].kind \notin Owning
    BY <2>2, NullIs DEF Owning
  <2> HIDE DEF y
  <2>4. /\ Sound(t) /\ Alike(t, s)
        /\ \A m \in Slots(s) : PointersOf(t, m) = IF m = Temporary THEN y ELSE PointersOf(s, m)
    BY <1>1, <1>2, <2>1, <2>2, <2>3, BareIs
  <2> QED
    BY <1>1, <1>4, <2>2, <2>4 DEF Alike, Live, Holding
<1>5. CASE x \in {"string", "object"}
  <2>1. t = Make(s, Temporary, "payload", x)
    BY <1>5 DEF Constructed
  <2>2. Unused(s) # {} /\ "payload" \in Field /\ x \in Owning
    BY <1>1, <1>5, SteadyIs, StateIs, RoomIs DEF Unused, Live, Field, Owning
  <2>3. PICK b \in Unused(s) : MadeIn(t, s, Temporary, "payload", x, b)
    BY <1>1, <1>2, <2>1, <2>2, MakeIs
  <2>4. Live(t) <= Live(s) + 1
    <3>1. IsFiniteSet(DOMAIN s.cells)
      BY <1>1, SteadyIs, StateIs, RoomIs
    <3>2. Cardinality(DOMAIN s.cells \cup {b}) <= Cardinality(DOMAIN s.cells) + 1
      <4>1. Cardinality(DOMAIN s.cells) \in Nat
        BY <1>1 DEF Live
      <4>2. Cardinality(DOMAIN s.cells \cup {b}) =
              IF b \in DOMAIN s.cells THEN Cardinality(DOMAIN s.cells) ELSE Cardinality(DOMAIN s.cells) + 1
        BY <3>1, FS_AddElement
      <4> QED
        BY <4>1, <4>2
    <3> QED
      BY <2>3, <3>2 DEF Live, MadeIn
  <2> QED
    BY <1>1, <2>3, <2>4 DEF Field, MadeIn, Holding, Owned
<1> QED
  BY <1>3, <1>4, <1>5

\* Slot l is variable v, or an entry of its map.
On(s, l, v) ==
  /\ l \in Slots(s)
  /\ l = Variable(v) \/ (l[2] # None /\ Owns(s, Variable(v), "payload") /\ Owned(s, Variable(v), "payload") = l[1])

\* A slot on a variable is a place to put a value.
LEMMA OnIs ==
  ASSUME NEW s, Sound(s), NEW v \in Var, NEW l, On(s, l, v)
  PROVE  Placed(s, l) /\ l \in Slots(s) /\ l # Temporary
         /\ (l = Variable(v) \/ \A w \in Var : l # Variable(w))
BY SteadyIs DEF On, Placed

\* A place of the program stays one while its variable keeps its payload.
LEMMA OnStays ==
  ASSUME NEW s, Sound(s), NEW t, Sound(t), NEW v \in Var, NEW l, On(s, l, v),
         \A m \in Slots(s) : m[2] = None \/ m[1] \in DOMAIN t.cells => m \in Slots(t),
         l = Variable(v) \/ PointersOf(t, Variable(v))["payload"] = PointersOf(s, Variable(v))["payload"]
  PROVE  On(t, l, v)
<1>1. l \in Slots(s) /\ Variable(v) \in Slots(t) /\ Variable(v)[2] = None /\ "payload" \in Field
  BY SteadyIs DEF On, Field
<1>2. CASE l = Variable(v)
  BY <1>1, <1>2 DEF On
<1>3. CASE l # Variable(v)
  <2>1. Owns(t, Variable(v), "payload") /\ Owned(t, Variable(v), "payload") = l[1] /\ l[2] # None
    BY <1>3 DEF On, Owns, Owned
  <2>2. l[1] \in DOMAIN t.cells
    BY <1>1, <2>1 DEF Sound
  <2> QED
    BY <1>1, <2>1, <2>2 DEF On
<1> QED
  BY <1>2, <1>3

\* The slot of a place.
LEMMA PlaceIs ==
  ASSUME NEW s, Sound(s), NEW p \in Places(s)
  PROVE  /\ p[1] \in Var /\ On(s, Slot(s, p), p[1])
         /\ p[2] = << >> => Slot(s, p) = Variable(p[1])
         /\ p[2] # << >> => /\ PointersOf(s, Variable(p[1]))["payload"].kind = "object"
                            /\ Slot(s, p) = <<Owned(s, Variable(p[1]), "payload"), p[2][1]>>
                            /\ Slot(s, p)[2] # None
<1>1. p[1] \in Var /\ Variable(p[1]) \in Slots(s) /\ Variable(p[1]) # Temporary /\ Variable(p[1])[2] = None
  BY SteadyIs DEF Places, V!Place
<1>2. PointersOf(s, Variable(p[1])) = s.vars[p[1]]
  BY <1>1, SteadyIs, SlotsAre
<1>3. CASE p[2] = << >>
  BY <1>1, <1>3 DEF Slot, On
<1>4. CASE p[2] # << >>
  <2> DEFINE b == s.vars[p[1]]["payload"].ptr
  <2>1. s.vars[p[1]]["payload"].kind = "object" /\ p[2][1] \in DOMAIN s.cells[b] /\ Slot(s, p) = <<b, p[2][1]>>
    BY <1>4 DEF Places, Slot
  <2>2. Owns(s, Variable(p[1]), "payload") /\ Owned(s, Variable(p[1]), "payload") = b
    BY <1>2, <2>1 DEF Owns, Owned, Owning
  <2>3. b \in DOMAIN s.cells
    BY <1>1, <2>2 DEF Sound, Field
  <2>4. Slot(s, p) \in Slots(s) /\ p[2][1] # None
    BY <2>1, <2>3, SteadyIs, SlotsAre
  <2> HIDE DEF b
  <2> QED
    BY <1>1, <1>2, <1>4, <2>1, <2>2, <2>4 DEF On
<1> QED
  BY <1>1, <1>3, <1>4

\* The bounds, and the sets of fields that operations take.
LEMMA BoundsAre ==
  /\ MaxLive \in Nat /\ Cardinality(Buffer) \in Nat /\ 4 * MaxLive + 3 < Cardinality(Buffer)
  /\ Content \in SUBSET Field /\ {"payload"} \in SUBSET Field /\ {"comments"} \in SUBSET Field /\ Field \in SUBSET Field
BY MemoryAssumption, FS_CardinalityType DEF Content, Field

\* p = Value(x), and swapPayload of one.
LEMMA AssignIs ==
  ASSUME NEW s, Steady(s), Live(s) <= MaxLive, NEW v \in Var, NEW l, On(s, l, v),
         NEW x \in {"null", "literal", "string", "object"}, NEW F \in SUBSET Field, NEW t, t = Exchange(Constructed(s, x), l, F)
  PROVE  \E u, T : Holding(u, s, x) /\ On(u, l, v) /\ Replaced(t, u, l, F, T)
<1> DEFINE u == Constructed(s, x)
<1>1. Sound(s) /\ Live(s) < Cardinality(Buffer)
  BY BoundsAre, SteadyIs DEF Steady
<1>2. Holding(u, s, x)
  BY <1>1, ConstructedIs
<1>3. t = Exchange(u, l, F)
  OBVIOUS
<1> HIDE DEF u
<1>4. On(u, l, v)
  BY <1>1, <1>2, OnStays, SteadyIs DEF Holding, Field
<1>5. \E T : Replaced(t, u, l, F, T)
  BY <1>2, <1>3, <1>4, OnIs, ExchangeIs DEF Holding
<1> QED
  BY <1>2, <1>4, <1>5

\* There is memory for the copies of a duplicate.
LEMMA DuplicateIs ==
  ASSUME NEW s, Sound(s), 2 * Live(s) <= Cardinality(Buffer), NEW l \in Slots(s), NEW k \in Slots(s),
         NEW F \in SUBSET Field, \A f \in F : PointersOf(s, k)[f] = Nothing,
         NEW t, t = Duplicated(s, l, k, F)
  PROVE  /\ Sound(t) /\ Live(t) <= 2 * Live(s)
         /\ LET T == Tree(s, Owners(s, {l}, F)) IN
            /\ T \in SUBSET DOMAIN s.cells
            /\ \E copy \in Injection(T, Unused(s)) : DuplicatedTo(t, s, l, k, F, T, copy)
<1> DEFINE T == Tree(s, Owners(s, {l}, F))
<1>1. s \in StateType /\ DOMAIN s.cells \in SUBSET Buffer /\ T \in SUBSET DOMAIN s.cells
  BY SteadyIs, StateIs DEF Tree
<1>2. Injection(T, Unused(s)) # {}
  <2> HIDE DEF T
  <2> QED
    BY <1>1, RoomIs DEF Unused, Live
<1>3. \A f \in F : ~Owns(s, k, f)
  BY NullIs DEF Owns
<1>4. PICK copy \in Injection(T, Unused(s)) : DuplicatedTo(t, s, l, k, F, T, copy)
  BY <1>2, <1>3, DuplicatedIs
<1> HIDE DEF T
<1>5. Live(t) <= 2 * Live(s)
  BY <1>1, <1>4, CopiesAre DEF DuplicatedTo, Live, Unused
<1>6. Sound(t)
  BY <1>4 DEF DuplicatedTo
<1> QED
  BY <1>1, <1>4, <1>5, <1>6 DEF T

\* p = q: q is duplicated before p is freed.
LEMMA CopyIs ==
  ASSUME NEW s, Steady(s), Live(s) <= MaxLive, NEW v \in Var, NEW l, On(s, l, v), NEW k \in Slots(s),
         NEW d, d = Duplicated(s, k, Temporary, Content), NEW t, t = Exchange(d, l, Content)
  PROVE  LET T == Tree(s, Owners(s, {k}, Content)) IN
         /\ \E copy \in Injection(T, Unused(s)) : DuplicatedTo(d, s, k, Temporary, Content, T, copy)
         /\ On(d, l, v)
         /\ \E U : Replaced(t, d, l, Content, U)
<1> DEFINE T == Tree(s, Owners(s, {k}, Content))
<1>1. /\ Sound(s) /\ 2 * Live(s) <= Cardinality(Buffer) /\ Temporary \in Slots(s)
      /\ \A f \in Content : PointersOf(s, Temporary)[f] = Nothing
  BY BoundsAre, SteadyIs DEF Steady
<1>2. Sound(d) /\ \E copy \in Injection(T, Unused(s)) : DuplicatedTo(d, s, k, Temporary, Content, T, copy)
  BY <1>1, BoundsAre, DuplicateIs
<1> HIDE DEF T
<1>3. PICK copy \in Injection(T, Unused(s)) : DuplicatedTo(d, s, k, Temporary, Content, T, copy)
  BY <1>2
<1>4. On(d, l, v)
  BY <1>1, <1>2, <1>3, OnStays, SteadyIs DEF DuplicatedTo, Field
<1>5. \E U : Replaced(t, d, l, Content, U)
  BY <1>2, <1>4, BoundsAre, OnIs, ExchangeIs
<1> QED
  BY <1>2, <1>4, <1>5 DEF T

\* p = std::move(q): what is at q is taken before p is freed.
LEMMA MoveIs ==
  ASSUME NEW s, Steady(s), NEW v \in Var, NEW l, On(s, l, v), NEW w \in Var, NEW k, On(s, k, w),
         l = Variable(v) \/ k # Variable(v),
         NEW u, u = MoveConstructed(s, k), NEW t, t = Exchange(u, l, Content)
  PROVE  Traded(u, s, k, Temporary, Content) /\ On(u, l, v) /\ \E T : Replaced(t, u, l, Content, T)
<1>1. Sound(s) /\ Temporary \in Slots(s) /\ Temporary[2] = None /\ Placed(s, k) /\ k # Temporary /\ k \in Slots(s)
  BY SteadyIs, OnIs DEF Steady
<1>2. Traded(u, s, k, Temporary, Content)
  BY <1>1, BoundsAre, ExchangedIs DEF MoveConstructed
<1>3. On(u, l, v)
  <2>1. Sound(u) /\ Slots(u) = Slots(s)
    BY <1>2 DEF Traded, Alike
  <2>2. l = Variable(v) \/ PointersOf(u, Variable(v))["payload"] = PointersOf(s, Variable(v))["payload"]
    BY <1>1, <1>2, SteadyIs DEF Traded, Field
  <2> QED
    BY <1>1, <2>1, <2>2, OnStays
<1> QED
  BY <1>2, <1>3, BoundsAre, OnIs, ExchangeIs DEF Traded

\* swap of two variables.
LEMMA SwapIs ==
  ASSUME NEW s, Steady(s), NEW v \in Var, NEW w \in Var, v # w
  PROVE  LET t == Exchanged(s, Variable(v), Variable(w), Content) IN
         Traded(t, s, Variable(v), Variable(w), Content) /\ Steady(t)
<1> DEFINE t == Exchanged(s, Variable(v), Variable(w), Content)
<1>1. /\ Sound(s) /\ Variable(v) \in Slots(s) /\ Variable(w) \in Slots(s) /\ Variable(v) # Variable(w)
      /\ Variable(v)[2] = None /\ Variable(w)[2] = None
      /\ Temporary \in Slots(s) /\ Variable(v) # Temporary /\ Variable(w) # Temporary
  BY SteadyIs DEF Steady, Variable
<1>2. Traded(t, s, Variable(v), Variable(w), Content)
  BY <1>1, BoundsAre, ExchangedIs
<1> HIDE DEF t
<1>3. Steady(t)
  BY <1>1, <1>2 DEF Traded, Steady
<1> QED
  BY <1>2, <1>3 DEF t

\* The payload or the comments of a slot are freed: the places of other variables stay.
LEMMA ReleasedIs ==
  ASSUME NEW s, Steady(s), NEW v \in Var, NEW l, On(s, l, v), NEW F \in SUBSET Field,
         NEW t, t = Freed(s, l, F)
  PROVE  /\ \E T : FreedFrom(t, s, l, F, T)
         /\ Steady(t) /\ Live(t) <= Live(s) /\ On(t, l, v)
         /\ \A w \in Var : \A k : w # v /\ On(s, k, w) => On(t, k, w)
<1> DEFINE T == Tree(s, Owners(s, {l}, F))
<1>1. Sound(s) /\ l \in Slots(s) /\ l # Temporary /\ (l = Variable(v) \/ \A w \in Var : l # Variable(w))
  BY OnIs DEF Steady
<1>2. FreedFrom(t, s, l, F, T)
  BY <1>1, FreedIs
<1> HIDE DEF T
<1>3. Steady(t)
  BY <1>1, <1>2, SteadyIs DEF FreedFrom, Steady
<1>4. Live(t) <= Live(s)
  BY <1>1, <1>2, SteadyIs, StateIs, RoomIs DEF FreedFrom, Live
<1>5. \A m \in Slots(s) : m[2] = None \/ m[1] \in DOMAIN t.cells => m \in Slots(t)
  BY <1>2 DEF FreedFrom, In
<1>6. \A w \in Var : Variable(w) # l => PointersOf(t, Variable(w))["payload"] = PointersOf(s, Variable(w))["payload"]
  BY <1>2, SteadyIs DEF FreedFrom, Field
<1>7. On(t, l, v)
  BY <1>1, <1>2, <1>5, <1>6, OnStays DEF FreedFrom
<1>8. ASSUME NEW w \in Var, NEW k, w # v, On(s, k, w) PROVE On(t, k, w)
  <2>1. Variable(w) # l
    BY <1>1, <1>8 DEF Variable
  <2> QED
    BY <1>1, <1>2, <1>5, <1>6, <1>8, <2>1, OnStays DEF FreedFrom
<1> QED
  BY <1>2, <1>3, <1>4, <1>7, <1>8

\* The pointer f of slot l, which is on v, was freed and that of slot k, which is
\* on another variable w, copied to it: from s by way of a to t.
PartCopied(t, a, s, l, v, k, w, f) ==
  LET T == Tree(a, Owners(a, {k}, {f})) IN
  /\ \E U : FreedFrom(a, s, l, {f}, U)
  /\ \E copy \in Injection(T, Unused(a)) : DuplicatedTo(t, a, k, l, {f}, T, copy)
  /\ On(a, k, w) /\ On(a, l, v)
  /\ Steady(t) /\ Live(t) <= 2 * Live(s) /\ On(t, l, v) /\ On(t, k, w)

\* A part of a value is freed and copied from another place.
LEMMA CopiedPartIs ==
  ASSUME NEW s, Steady(s), 2 * Live(s) <= Cardinality(Buffer), NEW v \in Var, NEW l, On(s, l, v),
         NEW w \in Var, NEW k, On(s, k, w), v # w, NEW f \in Content,
         NEW a, a = Freed(s, l, {f}), NEW t, t = Duplicated(a, k, l, {f})
  PROVE  PartCopied(t, a, s, l, v, k, w, f)
<1> DEFINE T == Tree(a, Owners(a, {k}, {f}))
<1>1. {f} \in SUBSET Field /\ f \in Field /\ Live(s) \in Nat
  BY SteadyIs DEF Content, Field, Steady
<1>2. PICK U : FreedFrom(a, s, l, {f}, U)
  BY <1>1, ReleasedIs
<1>3. Steady(a) /\ Live(a) <= Live(s) /\ On(a, l, v) /\ On(a, k, w)
  BY <1>1, ReleasedIs
<1>4. Sound(a) /\ Live(a) \in Nat /\ 2 * Live(a) <= Cardinality(Buffer)
  BY <1>1, <1>3, BoundsAre, SteadyIs DEF Steady
<1>5. PointersOf(a, l)[f] = Nothing
  BY <1>1, <1>2 DEF FreedFrom
<1>6. k \in Slots(a) /\ l \in Slots(a) /\ l # Temporary
      /\ (l = Variable(v) \/ \A z \in Var : l # Variable(z))
  BY <1>3, <1>4, OnIs
<1>7. /\ Sound(t) /\ Live(t) <= 2 * Live(a)
      /\ \E copy \in Injection(T, Unused(a)) : DuplicatedTo(t, a, k, l, {f}, T, copy)
  BY <1>1, <1>4, <1>5, <1>6, DuplicateIs
<1> HIDE DEF T
<1>8. PICK copy \in Injection(T, Unused(a)) : DuplicatedTo(t, a, k, l, {f}, T, copy)
  BY <1>7
<1>9. Steady(t)
  <2>1. Temporary \in Slots(a)
    BY <1>4, SteadyIs
  <2>2. \A g \in Field : PointersOf(t, Temporary)[g] = PointersOf(a, Temporary)[g]
    BY <1>6, <1>8, <2>1 DEF DuplicatedTo
  <2> QED
    BY <1>3, <1>7, <2>2 DEF Steady
<1>10. On(t, l, v) /\ On(t, k, w)
  <2>1. \A m \in Slots(a) : m \in Slots(t)
    BY <1>8 DEF DuplicatedTo
  <2>2. \A z \in Var : Variable(z) # l => PointersOf(t, Variable(z))["payload"] = PointersOf(a, Variable(z))["payload"]
    BY <1>4, <1>8, SteadyIs DEF DuplicatedTo, Field
  <2>3. Variable(w) # l
    BY <1>6 DEF Variable
  <2> QED
    BY <1>3, <1>4, <1>6, <1>7, <2>1, <2>2, <2>3, OnStays
<1>11. Live(t) <= 2 * Live(s)
  BY <1>1, <1>3, <1>4, <1>7, SteadyIs
<1> QED
  BY <1>2, <1>3, <1>7, <1>9, <1>10, <1>11 DEF T, PartCopied

\* setComment: the old comment is freed and the new one made.
LEMMA CommentIs ==
  ASSUME NEW s, Steady(s), Live(s) <= MaxLive, NEW v \in Var, NEW l, On(s, l, v),
         NEW a, a = Freed(s, l, {"comments"}), NEW t, t = Make(a, l, "comments", "comment")
  PROVE  /\ \E U : FreedFrom(a, s, l, {"comments"}, U)
         /\ \E b \in Unused(a) : MadeIn(t, a, l, "comments", "comment", b)
         /\ Steady(t)
<1>1. "comments" \in Field /\ {"comments"} \in SUBSET Field /\ "comment" \in Owning
  BY DEF Field, Owning
<1>2. PICK U : FreedFrom(a, s, l, {"comments"}, U)
  BY <1>1, ReleasedIs
<1>3. Steady(a) /\ Live(a) <= Live(s) /\ On(a, l, v)
  BY <1>1, ReleasedIs
<1>4. Sound(a) /\ Unused(a) # {}
  <2>1. Sound(a) /\ Live(s) \in Nat /\ Live(a) \in Nat /\ DOMAIN a.cells \in SUBSET Buffer
    BY <1>3, SteadyIs, StateIs DEF Steady
  <2> QED
    <3>1. Live(a) < Cardinality(Buffer)
      BY <1>3, <2>1, BoundsAre
    <3> QED
      BY <2>1, <3>1, RoomIs DEF Unused, Live
<1>5. ~Owns(a, l, "comments") /\ l \in Slots(a) /\ l # Temporary
  BY <1>1, <1>2, <1>3, <1>4, NullIs, OnIs DEF FreedFrom, Owns
<1>6. PICK b \in Unused(a) : MadeIn(t, a, l, "comments", "comment", b)
  BY <1>1, <1>4, <1>5, MakeIs
<1>7. Steady(t)
  BY <1>3, <1>4, <1>5, <1>6, SteadyIs DEF MadeIn, Steady
<1> QED
  BY <1>2, <1>6, <1>7

\* map_->erase: all the pointers of an entry are freed, and it is dropped.
LEMMA ErasedIs ==
  ASSUME NEW s, Steady(s), NEW v \in Var, NEW l, On(s, l, v), l # Variable(v),
         NEW t, t = Erased(s, l)
  PROVE  \E a : /\ \E U : FreedFrom(a, s, l, Field, U)
                /\ Steady(a) /\ On(a, l, v)
                /\ Steady(t) /\ DroppedFrom(t, a, l[1], l[2])
<1> DEFINE a == Freed(s, l, Field)
<1>1. t = [a EXCEPT !.cells[l[1]] = [m \in DOMAIN @ \ {l[2]} |-> @[m]]]
  BY DEF Erased
<1>2. PICK U : FreedFrom(a, s, l, Field, U)
  BY BoundsAre, ReleasedIs
<1>3. Steady(a) /\ On(a, l, v)
  BY BoundsAre, ReleasedIs
<1> HIDE DEF a
<1>4. Sound(a) /\ l \in Slots(a) /\ l # Temporary /\ l[2] # None
  BY <1>3, OnIs DEF On, Steady
<1>5. l[1] \in DOMAIN a.cells /\ l[2] \in DOMAIN a.cells[l[1]] /\ l = <<l[1], l[2]>>
  BY <1>4, SteadyIs, EntryIs
<1>6. \A f \in Field : ~Owns(a, l, f)
  BY <1>2, <1>4, NullIs DEF FreedFrom, Owns
<1>7. DroppedFrom(t, a, l[1], l[2])
  <2> DEFINE b == l[1]
             n == l[2]
  <2>1. t = [a EXCEPT !.cells[b] = [m \in DOMAIN @ \ {n} |-> @[m]]]
    BY <1>1
  <2>2. b \in DOMAIN a.cells /\ n \in DOMAIN a.cells[b] /\ \A f \in Field : ~Owns(a, <<b, n>>, f)
    BY <1>5, <1>6
  <2> HIDE DEF b, n
  <2>3. DroppedFrom(t, a, b, n)
    BY ONLY <1>4, <2>1, <2>2, DroppedIs
  <2> QED
    BY <2>3 DEF b, n
<1>8. Steady(t)
  BY <1>3, <1>4, <1>5, <1>7, SteadyIs DEF DroppedFrom, Steady
<1> QED
  BY <1>2, <1>3, <1>7, <1>8

\* t is s, in which a temporary key is of the program or owns a buffer of its own.
Keyed(t, s) ==
  /\ Sound(t) /\ Live(t) <= Live(s) + 1 /\ Slots(t) = Slots(s)
  /\ \A b \in DOMAIN s.cells : b \in DOMAIN t.cells /\ DOMAIN t.cells[b] = DOMAIN s.cells[b]
  /\ \A m \in Slots(s), f \in Field :
       m # Temporary \/ f # "key" => PointersOf(t, m)[f] = PointersOf(s, m)[f]
  /\ Owns(t, Temporary, "key") =>
       /\ Owned(t, Temporary, "key") \notin DOMAIN s.cells
       /\ DOMAIN t.cells[Owned(t, Temporary, "key")] = {}

\* The key of a pair is of the program or a copy.
LEMMA KeyCopiedIs ==
  ASSUME NEW s, Steady(s), Live(s) < Cardinality(Buffer), NEW policy \in {"noDuplication", "duplicateOnCopy"},
         NEW t, t = KeyCopied(s, ActualKey(policy))
  PROVE  Keyed(t, s)
<1>1. Sound(s) /\ Temporary \in Slots(s) /\ Live(s) \in Nat /\ \A f \in Field : PointersOf(s, Temporary)[f] = Nothing
  BY SteadyIs DEF Steady
<1>2. \A f \in Field : ~Owns(s, Temporary, f)
  BY <1>1, NullIs DEF Owns
<1>3. CASE policy = "noDuplication"
  <2> DEFINE y == [NullValue EXCEPT !["key"] = ActualKey(policy)]
  <2>1. ActualKey(policy) = [kind |-> "noDuplication", ptr |-> Literal]
    BY <1>3 DEF ActualKey
  <2>2. t = Assigned(s, Temporary, y)
    BY <2>1 DEF KeyCopied
  <2>3. y \in SlotType /\ y["key"].kind = "noDuplication" /\ \A f \in Field : f # "key" => y[f] = Nothing
    BY <2>1 DEF NullValue, SlotType, Pointer, Nothing, Field
  <2>4. \A f \in Field : y[f].kind \notin Owning
    BY <2>3, NullIs DEF Owning
  <2> HIDE DEF y
  <2>5. /\ Sound(t) /\ Alike(t, s)
        /\ \A m \in Slots(s) : PointersOf(t, m) = IF m = Temporary THEN y ELSE PointersOf(s, m)
    BY <1>1, <1>2, <2>2, <2>3, <2>4, BareIs
  <2> QED
    <3>1. ~Owns(t, Temporary, "key")
      BY <1>1, <2>3, <2>4, <2>5 DEF Owns, Field
    <3> QED
      BY <1>1, <2>3, <2>5, <3>1 DEF Alike, Live, Keyed
<1>4. CASE policy = "duplicateOnCopy"
  <2>1. t = Make(s, Temporary, "key", "duplicate")
    BY <1>4 DEF KeyCopied, ActualKey
  <2>2. Unused(s) # {} /\ "key" \in Field /\ "duplicate" \in Owning
    BY <1>1, <1>4, SteadyIs, StateIs, RoomIs DEF Unused, Live, Field, Owning
  <2>3. PICK b \in Unused(s) : MadeIn(t, s, Temporary, "key", "duplicate", b)
    BY <1>1, <1>2, <2>1, <2>2, MakeIs
  <2>4. Live(t) <= Live(s) + 1
    <3>1. IsFiniteSet(DOMAIN s.cells)
      BY <1>1, SteadyIs, StateIs, RoomIs
    <3>2. Cardinality(DOMAIN s.cells) \in Nat
      BY <1>1 DEF Live
    <3>3. Cardinality(DOMAIN s.cells \cup {b}) =
            IF b \in DOMAIN s.cells THEN Cardinality(DOMAIN s.cells) ELSE Cardinality(DOMAIN s.cells) + 1
      BY <3>1, FS_AddElement
    <3> QED
      BY <2>3, <3>2, <3>3 DEF Live, MadeIn
  <2> QED
    <3>1. Owned(t, Temporary, "key") = b /\ b \notin DOMAIN s.cells
      BY <1>1, <2>2, <2>3 DEF MadeIn, Owned, Unused
    <3> QED
      BY <1>1, <2>3, <2>4, <3>1 DEF Field, MadeIn, Keyed
<1> QED
  BY <1>3, <1>4

\* t is s with an entry l, a null value.
Entered(t, s, l) ==
  /\ Steady(t)
  /\ l \notin Slots(s) /\ l \in Slots(t) /\ \A f \in Content : PointersOf(t, l)[f] = Nothing
  /\ \A b \in DOMAIN s.cells : /\ b \in DOMAIN t.cells
                               /\ DOMAIN t.cells[b] = IF b = l[1] THEN DOMAIN s.cells[b] \cup {l[2]} ELSE DOMAIN s.cells[b]
  /\ \A m \in Slots(s) : m \in Slots(t)
                         /\ \A f \in Field : f # "key" => PointersOf(t, m)[f] = PointersOf(s, m)[f]

\* The pair of a key and null is copied to a new entry and freed.
LEMMA InsertedIs ==
  ASSUME NEW s, Steady(s), 2 * Live(s) + 2 <= Cardinality(Buffer), NEW policy \in {"noDuplication", "duplicateOnCopy"},
         NEW v \in Var, PointersOf(s, Variable(v))["payload"].kind = "object",
         NEW b, b = Owned(s, Variable(v), "payload"), NEW n \in Member, n \notin DOMAIN s.cells[b],
         NEW t, t = Inserted(s, <<b, n>>, policy)
  PROVE  Entered(t, s, <<b, n>>)
<1> DEFINE pair == KeyCopied(s, ActualKey(policy))
           l == <<b, n>>
           entry == [pair EXCEPT !.cells[b] = [m \in DOMAIN @ \cup {n} |-> IF m = n THEN NullValue ELSE @[m]]]
           d == Duplicated(entry, Temporary, l, Field)
<1>1. t = Freed(d, Temporary, Field)
  BY DEF Inserted
<1>2. /\ Sound(s) /\ Live(s) \in Nat /\ Live(s) < Cardinality(Buffer) /\ Temporary \in Slots(s)
      /\ Variable(v) \in Slots(s) /\ b \in DOMAIN s.cells /\ n # None
  <2>1. Sound(s) /\ Live(s) \in Nat /\ Temporary \in Slots(s) /\ Variable(v) \in Slots(s)
        /\ Owns(s, Variable(v), "payload")
    BY SteadyIs DEF Steady, Field
  <2> QED
    BY <2>1, BoundsAre, MemoryAssumption DEF Sound, Field, None
<1>3. Keyed(pair, s)
  BY <1>2, KeyCopiedIs
<1> HIDE DEF pair
<1>4. AddedTo(entry, pair, b, n)
  <2>1. Sound(pair) /\ b \in DOMAIN pair.cells /\ n \notin DOMAIN pair.cells[b]
    BY <1>2, <1>3 DEF Keyed
  <2>2. entry = [pair EXCEPT !.cells[b] = [m \in DOMAIN @ \cup {n} |-> IF m = n THEN NullValue ELSE @[m]]]
    OBVIOUS
  <2> HIDE DEF entry
  <2> QED
    BY <2>1, <2>2, AddedIs
<1> HIDE DEF entry
<1>5. /\ 2 * Live(entry) <= Cardinality(Buffer) /\ l \in Slots(entry) /\ Temporary \in Slots(entry)
      /\ \A f \in Field : PointersOf(entry, l)[f] = Nothing
  <2>1. Live(entry) = Live(pair) /\ Live(pair) \in Nat
    BY <1>3, <1>4, SteadyIs DEF Live, Keyed, AddedTo
  <2> QED
    BY <1>2, <1>3, <1>4, <2>1, BoundsAre, NullIs DEF Keyed, AddedTo
<1>6. l # Temporary /\ l \notin Slots(s)
  <2>1. l[2] # None
    BY <1>2
  <2> QED
    BY <1>2, <2>1, SteadyIs, EntryIs
<1> HIDE DEF l
<1> DEFINE T == Tree(entry, Owners(entry, {Temporary}, Field))
<1>7. l[1] = b /\ l[2] = n
  BY DEF l
<1>8. \E copy \in Injection(T, Unused(entry)) : DuplicatedTo(d, entry, Temporary, l, Field, T, copy)
  BY <1>4, <1>5, BoundsAre, DuplicateIs DEF AddedTo
<1> HIDE DEF T, d
<1>9. PICK copy \in Injection(T, Unused(entry)) : DuplicatedTo(d, entry, Temporary, l, Field, T, copy)
  BY <1>8
<1>10. Sound(d) /\ Temporary \in Slots(d)
  BY <1>9, SteadyIs DEF DuplicatedTo
<1> DEFINE U == Tree(d, Owners(d, {Temporary}, Field))
<1>11. FreedFrom(t, d, Temporary, Field, U)
  BY <1>1, <1>10, BoundsAre, FreedIs
<1> HIDE DEF U
<1>12. Steady(t)
  BY <1>11 DEF FreedFrom, Steady
\* What the temporary pair owns is its key, which has no entries.
<1>13. \A f \in Field : PointersOf(d, Temporary)[f] = PointersOf(pair, Temporary)[f]
  BY <1>2, <1>3, <1>4, <1>6, <1>9 DEF Keyed, AddedTo, DuplicatedTo
<1>14. ASSUME NEW m, m[1] \in DOMAIN s.cells PROVE ~In(m, U)
  <2> DEFINE B == {c \in DOMAIN d.cells : c \notin DOMAIN s.cells /\ DOMAIN d.cells[c] = {}}
  <2>1. ASSUME NEW f \in Field, Owns(d, Temporary, f) PROVE Owned(d, Temporary, f) \in B
    <3>1. Owns(pair, Temporary, f) /\ Owned(d, Temporary, f) = Owned(pair, Temporary, f)
      BY <1>13, <2>1 DEF Owns, Owned
    <3>2. f = "key"
      BY <1>2, <1>3, <3>1, NullIs DEF Keyed, Steady, Owns
    <3> DEFINE c == Owned(pair, Temporary, f)
    <3>3. c \notin DOMAIN s.cells /\ DOMAIN pair.cells[c] = {}
      BY <1>3, <3>1, <3>2 DEF Keyed
    <3>4. c \in DOMAIN pair.cells
      BY <1>2, <1>3, <3>1 DEF Keyed, Sound
    <3>5. c # b
      BY <1>2, <3>3
    <3> HIDE DEF c
    <3>6. c \in DOMAIN entry.cells /\ DOMAIN entry.cells[c] = {}
      BY <1>4, <3>3, <3>4, <3>5 DEF AddedTo
    <3>7. c \in DOMAIN d.cells /\ DOMAIN d.cells[c] = {}
      BY <1>9, <3>6 DEF DuplicatedTo
    <3> QED
      BY <3>1, <3>3, <3>7 DEF c
  <2>2. ASSUME NEW k \in Slots(d), In(k, B) PROVE FALSE
    BY <1>10, <2>2, SteadyIs, EntryIs DEF In
  <2>3. Holds(d, Temporary, Field, B) /\ B \in SUBSET DOMAIN d.cells
    <3> HIDE DEF B
    <3>1. Holds(d, Temporary, Field, B)
      BY <2>1, <2>2 DEF Holds
    <3> QED
      BY <3>1 DEF B
  <2>4. U \subseteq B
    <3>1. U = Tree(d, Owners(d, {Temporary}, Field))
      BY DEF U
    <3> HIDE DEF B
    <3> QED
      BY <1>10, <2>3, <3>1, BoundsAre, TreeIs
  <2> QED
    BY <1>14, <2>4 DEF In
<1>15. ASSUME NEW m \in Slots(s) \cup {l} PROVE m \in Slots(t)
  <2>1. m \in Slots(d)
    BY <1>3, <1>4, <1>9, <1>15 DEF Keyed, AddedTo, DuplicatedTo, l
  <2>2. m[2] = None \/ m[1] \in DOMAIN s.cells
    BY <1>2, <1>7, <1>15, SteadyIs, EntryIs
  <2>3. ~In(m, U)
    BY <1>14, <2>2 DEF In
  <2> QED
    BY <1>11, <2>1, <2>3 DEF FreedFrom
<1>16. ASSUME NEW m \in Slots(s), NEW f \in Field, f # "key" PROVE PointersOf(t, m)[f] = PointersOf(s, m)[f]
  <2>1. CASE m = Temporary
    BY <1>2, <1>12, <2>1 DEF Steady
  <2>2. CASE m # Temporary
    <3>1. m \in Slots(t) /\ m # l /\ m \in Slots(pair) /\ m \in Slots(entry)
      BY <1>3, <1>4, <1>6, <1>15 DEF Keyed, AddedTo
    <3>2. PointersOf(t, m)[f] = PointersOf(d, m)[f]
      BY <1>11, <2>2, <3>1 DEF FreedFrom
    <3>3. PointersOf(d, m)[f] = PointersOf(entry, m)[f]
      BY <1>9, <3>1 DEF DuplicatedTo
    <3>4. PointersOf(entry, m) = PointersOf(pair, m) /\ PointersOf(pair, m)[f] = PointersOf(s, m)[f]
      BY <1>3, <1>4, <1>16, <2>2, <3>1 DEF Keyed, AddedTo
    <3> QED
      BY <3>2, <3>3, <3>4
  <2> QED
    BY <2>1, <2>2
<1>17. ASSUME NEW f \in Content PROVE PointersOf(t, l)[f] = Nothing
  <2>1. f \in Field /\ f # "key" /\ l \in Slots(t)
    BY <1>15 DEF Content, Field
  <2>2. PointersOf(t, l)[f] = PointersOf(d, l)[f]
    BY <1>6, <1>11, <2>1 DEF FreedFrom
  <2>3. PointersOf(d, l)[f] = CopyOf(copy, PointersOf(entry, Temporary)[f])
    BY <1>5, <1>9, <2>1 DEF DuplicatedTo
  <2>4. PointersOf(entry, Temporary)[f] = Nothing
    BY <1>2, <1>3, <1>4, <2>1 DEF Keyed, AddedTo, Steady
  <2> QED
    BY <2>2, <2>3, <2>4, NullIs DEF CopyOf
<1>18. ASSUME NEW c \in DOMAIN s.cells
       PROVE  /\ c \in DOMAIN t.cells
              /\ DOMAIN t.cells[c] = IF c = l[1] THEN DOMAIN s.cells[c] \cup {l[2]} ELSE DOMAIN s.cells[c]
  <2>1. c \in DOMAIN pair.cells /\ DOMAIN pair.cells[c] = DOMAIN s.cells[c]
    BY <1>3 DEF Keyed
  <2>2. /\ c \in DOMAIN entry.cells
        /\ DOMAIN entry.cells[c] = IF c = b THEN DOMAIN s.cells[c] \cup {n} ELSE DOMAIN s.cells[c]
    BY <1>4, <2>1 DEF AddedTo
  <2>3. c \in DOMAIN d.cells /\ DOMAIN d.cells[c] = DOMAIN entry.cells[c]
    BY <1>9, <2>2 DEF DuplicatedTo
  <2>4. c \notin U
    <3>1. ~In(<<c, n>>, U)
      BY <1>14
    <3> QED
      BY <1>2, <3>1 DEF In
  <2> QED
    BY <1>11, <1>7, <2>2, <2>3, <2>4 DEF FreedFrom
<1>19. l \in Slots(t) /\ \A m \in Slots(s) : m \in Slots(t)
  BY <1>15
<1>20. Entered(t, s, l)
  BY <1>6, <1>12, <1>16, <1>17, <1>18, <1>19 DEF Entered
<1> QED
  BY <1>20 DEF l

\* p.copy(q): the payload of p is freed and that of q is copied, then the comments.
LEMMA CopiedIntoIs ==
  ASSUME NEW s, Steady(s), Live(s) <= MaxLive, NEW v \in Var, NEW l, On(s, l, v),
         NEW w \in Var, NEW k, On(s, k, w), v # w,
         NEW a, a = Freed(s, l, {"payload"}), NEW d, d = Duplicated(a, k, l, {"payload"}),
         NEW b, b = Freed(d, l, {"comments"}), NEW t, t = Duplicated(b, k, l, {"comments"})
  PROVE  Steady(t)
<1>1. Live(s) \in Nat /\ 2 * Live(s) <= Cardinality(Buffer) /\ 4 * Live(s) <= Cardinality(Buffer)
  BY SteadyIs, BoundsAre DEF Steady
<1>2. "payload" \in Content /\ "comments" \in Content
  BY DEF Content
<1>3. PartCopied(d, a, s, l, v, k, w, "payload")
  BY <1>1, <1>2, CopiedPartIs
<1>4. Steady(d) /\ Live(d) <= 2 * Live(s) /\ On(d, l, v) /\ On(d, k, w)
  BY <1>3 DEF PartCopied
<1>5. Live(d) \in Nat /\ 2 * Live(d) <= Cardinality(Buffer)
  BY <1>1, <1>4, BoundsAre, SteadyIs DEF Steady
<1>6. PartCopied(t, b, d, l, v, k, w, "comments")
  BY <1>2, <1>4, <1>5, CopiedPartIs
<1> QED
  BY <1>6 DEF PartCopied

\* A member is moved out to a variable, and its node is erased.
LEMMA RemovedIs ==
  ASSUME NEW s, Steady(s), NEW v \in Var, NEW l, On(s, l, v), l # Variable(v), NEW w \in Var, v # w,
         NEW u, u = MoveConstructed(s, l), NEW a, a = Exchange(u, Variable(w), Content),
         NEW t, t = Erased(a, l)
  PROVE  /\ Traded(u, s, l, Temporary, Content)
         /\ \E T : Replaced(a, u, Variable(w), Content, T)
         /\ On(a, l, v) /\ Steady(t)
<1>1. Sound(s) /\ Variable(v) \in Slots(s) /\ Variable(w) \in Slots(s) /\ Variable(v) # Temporary /\ Variable(v) # Variable(w)
  BY SteadyIs DEF Steady, Variable
<1>2. On(s, Variable(w), w)
  BY <1>1 DEF On
<1>3. Traded(u, s, l, Temporary, Content)
  BY <1>2, MoveIs
<1>4. PICK T : Replaced(a, u, Variable(w), Content, T)
  BY <1>2, MoveIs
<1>5. Sound(u) /\ Slots(u) = Slots(s) /\ Sound(a)
  BY <1>3, <1>4 DEF Traded, Alike, Replaced, Steady
<1>6. On(u, l, v)
  <2>1. PointersOf(u, Variable(v))["payload"] = PointersOf(s, Variable(v))["payload"]
    BY <1>1, <1>3 DEF Traded, Field
  <2> QED
    BY <1>1, <1>5, <2>1, OnStays
<1>7. On(a, l, v)
  <2>1. \A m \in Slots(u) : m[2] = None \/ m[1] \in DOMAIN a.cells => m \in Slots(a)
    BY <1>4 DEF Replaced, In
  <2>2. Variable(v) \in Slots(a)
    BY <1>5, SteadyIs
  <2>3. PointersOf(a, Variable(v))["payload"] = PointersOf(u, Variable(v))["payload"]
    BY <1>1, <1>4, <2>2 DEF Replaced, Field
  <2> QED
    BY <1>5, <1>6, <2>1, <2>3, OnStays
<1>8. Steady(t)
  BY <1>4, <1>7, ErasedIs DEF Replaced
<1> QED
  BY <1>3, <1>4, <1>7, <1>8

\* A null value becomes an object, and a member that is not there is added.
LEMMA ReferenceIs ==
  ASSUME NEW s, Steady(s), Live(s) <= MaxLive, NEW v \in Var, NEW n \in Member,
         NEW policy \in {"noDuplication", "duplicateOnCopy"},
         NEW kind, kind = PointersOf(s, Variable(v))["payload"].kind, kind \in {"null", "object"},
         NEW u, u = IF kind = "null" THEN Exchange(Constructed(s, "object"), Variable(v), Content) ELSE s
  PROVE  /\ Steady(u) /\ Live(u) <= Live(s) + 1
         /\ PointersOf(u, Variable(v))["payload"].kind = "object"
         /\ <<v, <<n>> >> \in Places(u)
            \/ Entered(Inserted(u, Slot(u, <<v, <<n>> >>), policy), u, Slot(u, <<v, <<n>> >>))
<1>0. Sound(s) /\ Live(s) \in Nat /\ Variable(v) \in Slots(s) /\ Variable(v) # Temporary
      /\ "payload" \in Content /\ "payload" \in Field
  BY SteadyIs DEF Steady, Content, Field
<1>1. Steady(u) /\ Live(u) <= Live(s) + 1 /\ PointersOf(u, Variable(v))["payload"].kind = "object"
  <2>1. CASE kind # "null"
    BY <1>0, <2>1
  <2>2. CASE kind = "null"
    <3>1. On(s, Variable(v), v)
      BY <1>0 DEF On
    <3>2. PICK c, T : Holding(c, s, "object") /\ Replaced(u, c, Variable(v), Content, T)
      BY <2>2, <3>1, BoundsAre, AssignIs
    <3>3. Live(c) \in Nat /\ Live(u) \in Nat
      BY <3>2, SteadyIs DEF Holding, Replaced, Steady
    <3> QED
      BY <1>0, <3>2, <3>3 DEF Replaced, Holding
  <2> QED
    BY <2>1, <2>2
<1> DEFINE p == <<v, <<n>> >>
           b == Owned(u, Variable(v), "payload")
<1>2. Sound(u) /\ Live(u) \in Nat /\ u.vars[v] = PointersOf(u, Variable(v))
  BY <1>1, SteadyIs, SlotsAre DEF Steady
<1>3. Slot(u, p) = <<b, n>>
  BY <1>2 DEF Slot, Owned
<1>4. p \in Places(u) <=> n \in DOMAIN u.cells[b]
  BY <1>1, <1>2 DEF Places, V!Place, Owned
<1>5. ASSUME n \notin DOMAIN u.cells[b] PROVE Entered(Inserted(u, <<b, n>>, policy), u, <<b, n>>)
  <2>1. 2 * Live(u) + 2 <= Cardinality(Buffer)
    BY <1>0, <1>1, <1>2, BoundsAre
  <2> QED
    BY <1>1, <1>5, <2>1, InsertedIs
<1> QED
  BY <1>1, <1>3, <1>4, <1>5

\* What an operation leaves is what it is said to become.
LEMMA BecomeIs ==
  ASSUME NEW X, Steady(X), Become(X)
  PROVE  Steady(Now)' /\ Now' = X
<1>1. X \in StateType
  BY SteadyIs DEF Steady
<1>2. X = [vars |-> X.vars, cells |-> X.cells, bad |-> X.bad]
  BY <1>1 DEF StateType
<1>3. Now' = X
  BY <1>2 DEF Become, Now
<1> QED
  BY <1>3

\* Nothing is in use at first.
LEMMA InitIsSteady == ValueInit => Steady(Now)
<1> SUFFICES ASSUME ValueInit PROVE Steady(Now)
  OBVIOUS
<1> DEFINE s == Now
<1>1. s.vars = [v \in Var \cup {Other} |-> NullValue] /\ s.cells = << >> /\ s.bad = FALSE
      /\ s = [vars |-> s.vars, cells |-> s.cells, bad |-> s.bad]
  BY DEF ValueInit, Now
<1> HIDE DEF s
<1>2. NullValue \in SlotType /\ \A f \in Field : NullValue[f] = Nothing /\ Nothing.kind \notin Owning
  BY NullIs DEF NullValue, Nothing, Owning
<1>3. DOMAIN s.cells = {} /\ s.cells \in [{} -> MapType]
  BY <1>1
<1>4. s \in StateType
  BY <1>1, <1>2, <1>3 DEF StateType
<1>5. ASSUME NEW l \in Slots(s), NEW f \in Field PROVE PointersOf(s, l)[f] = Nothing
  BY <1>1, <1>2, <1>3, <1>4, SlotsAre
<1>6. Sound(s)
  BY <1>1, <1>2, <1>3, <1>4, <1>5 DEF Sound, Owns
<1>7. Temporary \in Slots(s)
  BY <1>6, SteadyIs
<1> QED
  BY <1>5, <1>6, <1>7 DEF Steady, s

\* Places are on variables.
LEMMA PlacesAre ==
  ASSUME Steady(Now), NEW p \in Places(Now)
  PROVE  p[1] \in Var /\ On(Now, Slot(Now, p), p[1])
         /\ (p[2] = << >> => Slot(Now, p) = Variable(p[1]))
         /\ (p[2] # << >> => Slot(Now, p)[2] # None)
<1>1. Sound(Now)
  BY DEF Steady
<1> DEFINE s == Now
<1>2. Sound(s) /\ p \in Places(s)
  BY <1>1
<1> HIDE DEF s
<1>3. p[1] \in Var /\ On(s, Slot(s, p), p[1])
      /\ (p[2] = << >> => Slot(s, p) = Variable(p[1]))
      /\ (p[2] # << >> => Slot(s, p)[2] # None)
  BY <1>2, PlaceIs
<1> QED
  BY <1>3 DEF s

\* Each operation keeps the memory sound and leaves the temporary value null.
LEMMA StepIsSteady == Steady(Now) /\ [ValueNext]_valueVars => Steady(Now)'
<1> SUFFICES ASSUME Steady(Now), [ValueNext]_valueVars PROVE Steady(Now)'
  OBVIOUS
<1>0. HasRoom <=> Live(Now) <= MaxLive
  BY DEF HasRoom, Live, Now
<1>1. ASSUME NEW p \in Places(Now), SetComment(p) PROVE Steady(Now)'
  <2>1. Steady(Make(Freed(Now, Slot(Now, p), {"comments"}), Slot(Now, p), "comments", "comment"))
    BY <1>0, <1>1, PlacesAre, CommentIs DEF SetComment
  <2> QED
    BY <1>1, <2>1, BecomeIs DEF SetComment
<1>2. ASSUME NEW p \in Places(Now), NEW x \in {"null", "literal", "string", "object"}, Assign(p, x) \/ AssignPayload(p, x)
      PROVE  Steady(Now)'
  <2>1. ASSUME NEW F \in SUBSET Field PROVE Steady(Exchange(Constructed(Now, x), Slot(Now, p), F))
    BY <1>0, <1>2, PlacesAre, AssignIs DEF Assign, AssignPayload, Replaced
  <2> QED
    BY <1>2, <2>1, BecomeIs, BoundsAre DEF Assign, AssignPayload
<1>3. ASSUME NEW p \in Places(Now), NEW q \in Places(Now), Copy(p, q) PROVE Steady(Now)'
  <2>1. Steady(Exchange(Duplicated(Now, Slot(Now, q), Temporary, Content), Slot(Now, p), Content))
    BY <1>0, <1>3, PlacesAre, CopyIs DEF Copy, Replaced, On
  <2> QED
    BY <1>3, <2>1, BecomeIs DEF Copy
<1>4. ASSUME NEW p \in Places(Now), NEW q \in Places(Now), Move(p, q) PROVE Steady(Now)'
  <2>1. Slot(Now, p) = Variable(p[1]) \/ Slot(Now, q) # Variable(p[1])
    BY <1>4, PlacesAre DEF Move, Variable
  <2>2. Steady(Exchange(MoveConstructed(Now, Slot(Now, q)), Slot(Now, p), Content))
    BY <2>1, PlacesAre, MoveIs DEF Replaced
  <2> QED
    BY <1>4, <2>2, BecomeIs DEF Move
<1>5. ASSUME NEW p \in Places(Now), NEW q \in Places(Now), CopyInto(p, q) PROVE Steady(Now)'
  BY <1>0, <1>5, PlacesAre, CopiedIntoIs, BecomeIs DEF CopyInto
<1>6. ASSUME NEW v \in Var, NEW w \in Var, SwapVars(v, w) PROVE Steady(Now)'
  BY <1>6, SwapIs, BecomeIs DEF SwapVars
<1>7. ASSUME NEW v \in Var, NEW n \in Member, NEW policy \in {"noDuplication", "duplicateOnCopy"}, Reference(v, n, policy)
      PROVE  Steady(Now)'
  <2> DEFINE kind == vars_[v]["payload"].kind
             u == IF kind = "null" THEN Exchange(Constructed(Now, "object"), Variable(v), Content) ELSE Now
             p == <<v, <<n>> >>
             t == IF p \in Places(u) THEN u ELSE Inserted(u, Slot(u, p), policy)
  <2>1. kind \in {"null", "object"} /\ kind = PointersOf(Now, Variable(v))["payload"].kind /\ Live(Now) <= MaxLive
    BY <1>0, <1>7 DEF Reference, PointersOf, Variable, Now
  <2>2. Become(t)
    BY <1>7 DEF Reference
  <2>3. kind = "null" \/ kind # "null"
    OBVIOUS
  <2> HIDE DEF kind
  <2>4. u = IF kind = "null" THEN Exchange(Constructed(Now, "object"), Variable(v), Content) ELSE Now
    OBVIOUS
  <2> HIDE DEF u
  <2>5. Steady(u) /\ (p \in Places(u) \/ Entered(Inserted(u, Slot(u, p), policy), u, Slot(u, p)))
    BY <2>1, <2>4, ReferenceIs
  <2>6. Steady(t)
    BY <2>5 DEF Entered
  <2> QED
    BY <2>2, <2>6, BecomeIs
<1>8. ASSUME NEW v \in Var, NEW w \in Var, NEW n \in Member, RemoveMember(v, n, w) PROVE Steady(Now)'
  <2>1. On(Now, Slot(Now, <<v, <<n>> >>), v) /\ Slot(Now, <<v, <<n>> >>) # Variable(v)
    BY <1>8, PlacesAre DEF RemoveMember, Variable
  <2> QED
    BY <1>8, <2>1, RemovedIs, BecomeIs DEF RemoveMember
<1>9. ASSUME NEW v \in Var, NEW n \in Member, EraseMember(v, n) PROVE Steady(Now)'
  <2>1. On(Now, Slot(Now, <<v, <<n>> >>), v) /\ Slot(Now, <<v, <<n>> >>) # Variable(v)
    BY <1>9, PlacesAre DEF EraseMember, Variable
  <2> QED
    BY <1>9, <2>1, ErasedIs, BecomeIs DEF EraseMember
<1>10. CASE UNCHANGED valueVars
  BY <1>10 DEF valueVars, Now
<1> QED
  BY <1>1, <1>2, <1>3, <1>4, <1>5, <1>6, <1>7, <1>8, <1>9, <1>10 DEF ValueNext

\* What hangs on the variables is what the inductive invariant says of it.
LEMMA GroundedIs ==
  ASSUME NEW s \in StateType, NEW B \in SUBSET DOMAIN s.cells,
         NEW L, L = {Variable(v) : v \in Var \cup {Other}}
  PROVE  Closed(s, Owners(s, L, Field), B) => Grounded(s, B)
<1> SUFFICES ASSUME Closed(s, Owners(s, L, Field), B), NEW k \in Slots(s), NEW g \in Field,
                    k[2] = None \/ k[1] \in B, Owns(s, k, g)
             PROVE  Owned(s, k, g) \in B
  BY DEF Grounded
<1>1. CASE k[2] = None
  <2>1. k \in L
    BY <1>1, EntryIs
  <2>2. <<k, g>> \in Owners(s, L, Field) /\ Target(s, <<k, g>>) = Owned(s, k, g)
    BY <2>1, OwnersAre
  <2> QED
    BY <2>2 DEF Closed
<1>2. CASE k[2] # None
  <2>1. k \in Inside(s, B)
    BY <1>2, InsideIs DEF In
  <2>2. <<k, g>> \in Owners(s, Inside(s, B), Field) /\ Target(s, <<k, g>>) = Owned(s, k, g)
    BY <2>1, OwnersAre
  <2> QED
    BY <2>2 DEF Closed
<1> QED
  BY <1>1, <1>2

\* The inductive invariant implies the property.
LEMMA SteadyOwns == Steady(Now) => Ownership
<1> SUFFICES ASSUME Steady(Now) PROVE Ownership
  OBVIOUS
<1> DEFINE s == Now
           L == {Variable(v) : v \in Var \cup {Other}}
<1>1. Sound(s) /\ cells = s.cells /\ bad = s.bad
  BY DEF Steady, Now
<1> HIDE DEF s
<1>2. s \in StateType /\ ~s.bad
  BY <1>1 DEF Sound
<1>3. Exclusive(s, Owners(s, Slots(s), Field))
  <2> DEFINE O == Owners(s, Slots(s), Field)
  <2>1. ASSUME NEW o \in O PROVE Target(s, o) \in DOMAIN s.cells
    BY <1>1, OwnersAre DEF Sound
  <2>2. ASSUME NEW o \in O, NEW p \in O, Target(s, o) = Target(s, p) PROVE o = p
    <3>1. PICK k \in Slots(s), g \in Field : o = <<k, g>> /\ Owns(s, k, g) /\ Target(s, o) = Owned(s, k, g)
      BY OwnersAre
    <3>2. PICK m \in Slots(s), h \in Field : p = <<m, h>> /\ Owns(s, m, h) /\ Target(s, p) = Owned(s, m, h)
      BY OwnersAre
    <3> QED
      BY <1>1, <2>2, <3>1, <3>2 DEF Sound
  <2> QED
    BY <2>1, <2>2 DEF Exclusive
<1>4. Tree(s, Owners(s, L, Field)) = DOMAIN s.cells
  <2>1. ASSUME NEW B \in SUBSET DOMAIN s.cells, Closed(s, Owners(s, L, Field), B) PROVE B = DOMAIN s.cells
    BY <1>1, <1>2, <2>1, GroundedIs DEF Sound
  <2> QED
    BY <2>1 DEF Tree
<1>5. ASSUME NEW l \in Slots(s) PROVE PointersOf(s, l)["key"].ptr # Caller
  <2>1. PointersOf(s, l)["key"] \in Pointer
    BY <1>2, SlotsAre DEF SlotType, Field
  <2> QED
    BY <2>1, MemoryAssumption DEF Pointer
<1> QED
  BY <1>1, <1>2, <1>3, <1>4, <1>5 DEF Ownership, s

\* Through every sequence of constructions, copies, moves, swaps, new and removed
\* members, every pointer that owns has a buffer of its own, every buffer hangs on
\* a variable, and temporary values are left null (Json::Value, all operations).
THEOREM SteadyAlways == MemorySpec => []Steady(Now)
<1>1. ValueInit => Steady(Now)
  BY InitIsSteady
<1>2. Steady(Now) /\ [ValueNext]_valueVars => Steady(Now)'
  BY StepIsSteady
<1> QED
  BY <1>1, <1>2, PTL DEF MemorySpec

\* Nothing leaks, is freed twice or is used after it was freed, and no key points
\* to a string of the caller (dupPayload, releasePayload, swap, CZString).
THEOREM OwnershipAlways == MemorySpec => []Ownership
BY SteadyAlways, SteadyOwns, PTL

-----------------------------------------------------------------------------
(* The nodes of a slot: ways through the memory, and the paths of names they *)
(* stand for.                                                              *)

-----------------------------------------------------------------------------
(* Values.                                                                 *)

Object(s, l) == PointersOf(s, l)["payload"].kind = "object"
Entry(s, l, n) == <<Owned(s, l, "payload"), n>>
Names(s, l) == {n \in Member : Object(s, l) /\ Entry(s, l, n) \in Slots(s)}
Shape(s, l) == Described(PointersOf(s, l))

\* A set of natural numbers has a least element.
LEMMA Smallest ==
  ASSUME NEW S \in SUBSET Nat, S # {}
  PROVE  \E m \in S : \A k \in S : m <= k
<1> DEFINE R == OpToRel(<, Nat)
<1>1. IsWellFoundedOn(R, Nat)
  BY NatLessThanWellFounded, Zenon
<1>2. PICK m \in S : \A k \in S : ~(<<k, m>> \in R)
  <2> HIDE DEF R
  <2> QED
    BY <1>1, WFMin, Zenon
<1>3. \A k \in S : ~(k < m)
  BY <1>2 DEF OpToRel
<1> QED
  BY <1>3

\* The entries that a slot leads to.
LEMMA EntriesAre ==
  ASSUME NEW s, Sound(s), NEW l \in Slots(s), Object(s, l)
  PROVE  /\ Owns(s, l, "payload") /\ Owned(s, l, "payload") \in DOMAIN s.cells
         /\ \A n : Entry(s, l, n)[1] = Owned(s, l, "payload") /\ Entry(s, l, n)[2] = n
         /\ Names(s, l) = DOMAIN s.cells[Owned(s, l, "payload")]
         /\ \A n \in Names(s, l) : Entry(s, l, n) \in Slots(s) /\ n # None /\ n \in Member
<1> DEFINE b == Owned(s, l, "payload")
<1>0. "payload" \in Field /\ s \in StateType
  BY DEF Field, Sound
<1>1. Owns(s, l, "payload")
  BY <1>0, SteadyIs DEF Object
<1>2. b \in DOMAIN s.cells
  BY <1>0, <1>1 DEF Sound
<1>3. DOMAIN s.cells[b] \in SUBSET Member
  BY <1>0, <1>2, StateIs
<1>4. \A n \in DOMAIN s.cells[b] : <<b, n>> \in Slots(s) /\ n # None
  BY <1>0, <1>2, SlotsAre
<1>5. \A n \in Member : <<b, n>> \in Slots(s) => n \in DOMAIN s.cells[b]
  <2>1. \A n \in Member : n # None
    BY MemoryAssumption DEF None
  <2> QED
    BY <1>0, <2>1, EntryIs
<1> QED
  BY <1>1, <1>2, <1>3, <1>4, <1>5 DEF Entry, Names

\* A way from slot l leads from each slot to an entry of its map.
Before(l, w, i) == IF i = 1 THEN l ELSE w[i - 1]
Way(s, l, w) ==
  /\ w \in Seq(Slots(s))
  /\ \A i \in 1 .. Len(w) : Object(s, Before(l, w, i)) /\ w[i][2] # None /\ w[i][1] = Owned(s, Before(l, w, i), "payload")

\* A way never comes back to a buffer: the buffers between would hang on themselves.
LEMMA WaysAreInjective ==
  ASSUME NEW s, Sound(s), NEW l \in Slots(s), NEW w, Way(s, l, w),
         NEW i \in 1 .. Len(w), NEW j \in 1 .. Len(w), i < j
  PROVE  w[i][1] # w[j][1]
<1> SUFFICES ASSUME w[i][1] = w[j][1] PROVE FALSE
  OBVIOUS
<1> DEFINE B == {w[m][1] : m \in (i + 1) .. j}
           D == DOMAIN s.cells \ B
<1>1. \A m \in 1 .. Len(w) : w[m] \in Slots(s) /\ Before(l, w, m) \in Slots(s)
  BY DEF Way, Before
<1>2. ASSUME NEW m \in (i + 1) .. j
      PROVE  /\ In(w[m - 1], B) /\ w[m - 1] \in Slots(s)
             /\ Owns(s, w[m - 1], "payload") /\ Owned(s, w[m - 1], "payload") = w[m][1]
  <2>1. m \in 1 .. Len(w) /\ m # 1 /\ m - 1 \in 1 .. Len(w) /\ (m - 1 = i \/ m - 1 \in (i + 1) .. j) /\ j \in (i + 1) .. j
    OBVIOUS
  <2>2. Before(l, w, m) = w[m - 1]
    BY <2>1 DEF Before
  <2>3. w[m - 1][2] # None /\ Object(s, w[m - 1]) /\ w[m][1] = Owned(s, w[m - 1], "payload")
    BY <2>1, <2>2 DEF Way
  <2>4. w[m - 1][1] \in B
    BY <2>1
  <2> QED
    BY <1>1, <2>1, <2>3, <2>4, EntriesAre DEF In
<1>3. ASSUME NEW k \in Slots(s), NEW g \in Field, k[2] = None \/ k[1] \in D, Owns(s, k, g)
      PROVE  Owned(s, k, g) \in D
  <2>1. Owned(s, k, g) \in DOMAIN s.cells
    BY <1>3 DEF Sound
  <2>2. ASSUME NEW m \in (i + 1) .. j, Owned(s, k, g) = w[m][1] PROVE FALSE
    <3> DEFINE x == w[m - 1]
    <3>1. In(x, B) /\ x \in Slots(s) /\ Owns(s, x, "payload") /\ Owned(s, x, "payload") = Owned(s, k, g)
      BY <1>2, <2>2
    <3>2. "payload" \in Field
      BY DEF Field
    <3> HIDE DEF x, B
    <3>3. k = x
      BY <1>3, <3>1, <3>2 DEF Sound
    <3>4. k[2] # None /\ k[1] \in B
      BY <3>1, <3>3 DEF In
    <3> QED
      BY <1>3, <3>4
  <2> QED
    BY <2>1, <2>2
<1>4. D = DOMAIN s.cells
  BY <1>3 DEF Grounded, Sound
<1>5. w[j][1] \in DOMAIN s.cells /\ w[j][1] \in B
  <2>1. w[j] \in Slots(s) /\ w[j][2] # None /\ j \in (i + 1) .. j
    BY <1>1 DEF Way
  <2> QED
    BY <2>1, EntryIs DEF Sound
<1> QED
  BY <1>4, <1>5

\* Ways are the sequences that Way describes: none is longer than the buffers are many.
LEMMA WaysAre ==
  ASSUME NEW s, Sound(s), NEW l \in Slots(s)
  PROVE  \A w : w \in Ways(s, l) <=> Way(s, l, w)
<1> DEFINE inner == Inside(s, DOMAIN s.cells)
           N == Cardinality(DOMAIN s.cells)
<1>0. s \in StateType /\ N \in Nat /\ IsFiniteSet(DOMAIN s.cells)
  BY StateIs, RoomIs DEF Sound
<1>1. \A k : k \in inner <=> k \in Slots(s) /\ k[2] # None
  <2>1. \A k \in Slots(s) : k[2] # None => k[1] \in DOMAIN s.cells
    BY <1>0, EntryIs
  <2> QED
    BY <1>0, <2>1, InsideIs DEF In
<1>2. ASSUME NEW w, w \in Ways(s, l) PROVE Way(s, l, w)
  <2>1. PICK m \in 0 .. N : w \in [1 .. m -> inner]
    BY <1>2 DEF Ways, SeqOf
  <2>2. DOMAIN w = 1 .. m /\ Len(w) = m /\ w \in Seq(inner)
    BY <1>0, <2>1
  <2>3. w \in Seq(Slots(s)) /\ \A i \in 1 .. Len(w) : w[i][2] # None
    BY <1>1, <2>1, <2>2
  <2>4. \A i \in 1 .. Len(w) : Object(s, Before(l, w, i)) /\ w[i][1] = Owned(s, Before(l, w, i), "payload")
    BY <1>2, <2>2 DEF Ways, Object, Owned, Before
  <2> QED
    BY <2>3, <2>4 DEF Way
<1>3. ASSUME NEW w, Way(s, l, w) PROVE w \in Ways(s, l)
  <2>1. w \in Seq(Slots(s)) /\ Len(w) \in Nat /\ DOMAIN w = 1 .. Len(w)
    BY <1>3 DEF Way
  <2>2. \A i \in 1 .. Len(w) : w[i] \in inner /\ w[i][1] \in DOMAIN s.cells
    BY <1>0, <1>1, <1>3, <2>1, EntryIs DEF Way
  <2>3. Len(w) <= N
    <3> DEFINE f == [i \in 1 .. Len(w) |-> w[i][1]]
    <3>1. f \in [1 .. Len(w) -> DOMAIN s.cells]
      BY <2>2
    <3>2. \A i, j \in 1 .. Len(w) : i < j => f[i] # f[j]
      BY <1>3, WaysAreInjective
    <3>3. \A i, j \in 1 .. Len(w) : f[i] = f[j] => i = j
      BY <2>1, <3>2
    <3> HIDE DEF f
    <3>4. f \in Injection(1 .. Len(w), DOMAIN s.cells)
      BY <3>1, <3>3 DEF Injection, IsInjective
    <3>5. Cardinality(1 .. Len(w)) <= N
      BY <1>0, <3>4, FS_Injection
    <3>6. Cardinality(1 .. Len(w)) = Len(w)
      BY <2>1, FS_Interval
    <3> QED
      BY <3>5, <3>6
  <2>4. w \in [1 .. Len(w) -> inner]
    BY <2>1, <2>2
  <2>5. w \in SeqOf(inner, N)
    BY <1>0, <2>1, <2>3, <2>4 DEF SeqOf
  <2>6. \A i \in DOMAIN w : LET k == IF i = 1 THEN l ELSE w[i - 1] IN
          PointersOf(s, k)["payload"].kind = "object" /\ w[i][1] = PointersOf(s, k)["payload"].ptr
    BY <1>3, <2>1 DEF Way, Object, Owned, Before
  <2> QED
    BY <2>5, <2>6 DEF Ways
<1> QED
  BY <1>2, <1>3

NamesOf(w) == [i \in DOMAIN w |-> w[i][2]]
EndOf(l, w) == IF w = << >> THEN l ELSE Last(w)

\* The names of a sequence of slots.
LEMMA NamesAre ==
  ASSUME NEW L, NEW w \in Seq(L), NEW S, \A i \in 1 .. Len(w) : w[i][2] \in S
  PROVE  NamesOf(w) \in Seq(S) /\ Len(NamesOf(w)) = Len(w) /\ \A i \in 1 .. Len(w) : NamesOf(w)[i] = w[i][2]
<1>1. DOMAIN w = 1 .. Len(w) /\ Len(w) \in Nat
  BY LenProperties
<1>2. NamesOf(w) = [i \in 1 .. Len(w) |-> w[i][2]]
  BY <1>1 DEF NamesOf
<1>3. NamesOf(w) \in [1 .. Len(w) -> S]
  BY <1>2
<1> QED
  BY <1>1, <1>2, <1>3

\* A node is the names on a way and the shape of the slot at its end.
LEMMA NodeIs ==
  ASSUME NEW s, Sound(s), NEW l \in Slots(s)
  PROVE  \A x : x \in Nodes(s, l) <=> \E w : Way(s, l, w) /\ x = <<NamesOf(w), Shape(s, EndOf(l, w))>>
BY WaysAre DEF Nodes, Shape, NamesOf, EndOf

\* A way is none or an entry and a way from there.
LEMMA WayIs ==
  ASSUME NEW s, NEW l, NEW e \in Slots(s), NEW w \in Seq(Slots(s)), NEW u, u = Cons(e, w)
  PROVE  /\ Way(s, l, u) <=> Object(s, l) /\ e[2] # None /\ e[1] = Owned(s, l, "payload") /\ Way(s, e, w)
         /\ NamesOf(u) = Cons(e[2], NamesOf(w))
         /\ EndOf(l, u) = EndOf(e, w)
<1>1. /\ u \in Seq(Slots(s)) /\ Len(u) = Len(w) + 1 /\ Len(w) \in Nat
      /\ u[1] = e /\ \A i \in 1 .. Len(w) : u[i + 1] = w[i]
  <2>1. <<e>> \in Seq(Slots(s)) /\ Len(<<e>>) = 1 /\ <<e>>[1] = e
    OBVIOUS
  <2> QED
    BY <2>1, ConcatProperties DEF Cons
<1>2. Before(l, u, 1) = l /\ \A i \in 1 .. Len(w) : Before(l, u, i + 1) = Before(e, w, i)
  <2>1. ASSUME NEW i \in 1 .. Len(w), i # 1 PROVE u[i] = w[i - 1]
    <3>1. i - 1 \in 1 .. Len(w) /\ (i - 1) + 1 = i
      BY <1>1, <2>1
    <3> QED
      BY <1>1, <3>1
  <2> QED
    BY <1>1, <2>1 DEF Before
<1>3. ASSUME Way(s, l, u) PROVE Object(s, l) /\ e[2] # None /\ e[1] = Owned(s, l, "payload") /\ Way(s, e, w)
  <2>1. 1 \in 1 .. Len(u) /\ \A i \in 1 .. Len(w) : i + 1 \in 1 .. Len(u)
    BY <1>1
  <2> QED
    BY <1>1, <1>2, <1>3, <2>1 DEF Way
<1>4. ASSUME Object(s, l), e[2] # None, e[1] = Owned(s, l, "payload"), Way(s, e, w) PROVE Way(s, l, u)
  <2> SUFFICES ASSUME NEW i \in 1 .. Len(u)
               PROVE  Object(s, Before(l, u, i)) /\ u[i][2] # None /\ u[i][1] = Owned(s, Before(l, u, i), "payload")
    BY <1>1 DEF Way
  <2>1. CASE i = 1
    BY <1>1, <1>2, <1>4, <2>1
  <2>2. CASE i # 1
    <3> DEFINE j == i - 1
    <3>1. j \in 1 .. Len(w) /\ i = j + 1
      BY <1>1, <2>2
    <3> HIDE DEF j
    <3> QED
      BY <1>1, <1>2, <1>4, <3>1 DEF Way
  <2> QED
    BY <2>1, <2>2
<1>5. NamesOf(u) = Cons(e[2], NamesOf(w))
  <2> DEFINE x == NamesOf(u)
             y == NamesOf(w)
             S == {u[i][2] : i \in 1 .. Len(u)}
  <2>1. e[2] \in S /\ \A i \in 1 .. Len(w) : w[i][2] \in S
    <3>1. 1 \in 1 .. Len(u) /\ \A i \in 1 .. Len(w) : i + 1 \in 1 .. Len(u)
      BY <1>1
    <3> QED
      BY <1>1, <3>1
  <2>2. x \in Seq(S) /\ Len(x) = Len(w) + 1 /\ \A i \in 1 .. Len(u) : x[i] = u[i][2]
    <3>1. \A i \in 1 .. Len(u) : u[i][2] \in S
      OBVIOUS
    <3> HIDE DEF S
    <3> QED
      BY <1>1, <3>1, NamesAre
  <2> HIDE DEF S
  <2>3. y \in Seq(S) /\ Len(y) = Len(w) /\ \A i \in 1 .. Len(w) : y[i] = w[i][2]
    BY <2>1, NamesAre
  <2>4. <<e[2]>> \in Seq(S) /\ Len(<<e[2]>>) = 1 /\ <<e[2]>>[1] = e[2]
    BY <2>1
  <2> HIDE DEF x, y
  <2> DEFINE z == <<e[2]>> \o y
  <2>5. z \in Seq(S) /\ Len(z) = Len(w) + 1
        /\ \A i \in 1 .. Len(w) + 1 : z[i] = IF i <= 1 THEN e[2] ELSE y[i - 1]
    BY <1>1, <2>3, <2>4, ConcatProperties
  <2> HIDE DEF z
  <2>6. ASSUME NEW i \in 1 .. Len(w) + 1 PROVE x[i] = z[i]
    <3>1. CASE i = 1
      BY <1>1, <2>2, <2>5, <3>1
    <3>2. CASE i # 1
      <4> DEFINE j == i - 1
      <4>1. j \in 1 .. Len(w) /\ i = j + 1
        BY <1>1, <3>2
      <4>2. u[i] = w[j] /\ y[j] = w[j][2] /\ z[i] = y[j]
        <5>1. z[i] = y[j]
          BY <1>1, <2>5, <3>2
        <5> HIDE DEF j
        <5>2. u[j + 1] = w[j] /\ y[j] = w[j][2]
          BY <1>1, <2>3, <4>1
        <5> QED
          BY <4>1, <5>1, <5>2
      <4>3. i \in 1 .. Len(u)
        BY <1>1
      <4>4. x[i] = u[i][2]
        BY <2>2, <4>3
      <4> QED
        BY <4>2, <4>4
    <3> QED
      BY <3>1, <3>2
  <2>7. x = z
    BY <1>1, <2>2, <2>5, <2>6, SeqEqual
  <2> QED
    BY <2>7 DEF x, y, z, Cons
<1>6. EndOf(l, u) = EndOf(e, w)
  <2>1. u # << >> /\ Last(u) = u[Len(w) + 1]
    BY <1>1 DEF Last
  <2>2. CASE w = << >>
    BY <1>1, <2>1, <2>2 DEF EndOf
  <2>3. CASE w # << >>
    <3>1. Len(w) \in 1 .. Len(w)
      BY <1>1, <2>3, EmptySeq
    <3> QED
      BY <1>1, <2>1, <2>3, <3>1 DEF EndOf, Last
  <2> QED
    BY <2>2, <2>3
<1> QED
  BY <1>3, <1>4, <1>5, <1>6

\* A path that is not empty is a name and a path.
LEMMA PathIs ==
  ASSUME NEW S
  PROVE  /\ \A n \in S, x \in Seq(S) :
              /\ Cons(n, x) \in Seq(S) /\ Cons(n, x) # << >> /\ Len(Cons(n, x)) = Len(x) + 1
              /\ Head(Cons(n, x)) = n /\ Tail(Cons(n, x)) = x
         /\ \A x \in Seq(S) : x # << >> =>
              Head(x) \in S /\ Tail(x) \in Seq(S) /\ Len(Tail(x)) = Len(x) - 1 /\ x = Cons(Head(x), Tail(x))
<1>1. ASSUME NEW n \in S, NEW x \in Seq(S)
      PROVE  /\ Cons(n, x) \in Seq(S) /\ Cons(n, x) # << >> /\ Len(Cons(n, x)) = Len(x) + 1
             /\ Head(Cons(n, x)) = n /\ Tail(Cons(n, x)) = x
  <2> DEFINE u == Cons(n, x)
  <2>1. <<n>> \in Seq(S) /\ Len(<<n>>) = 1 /\ <<n>>[1] = n /\ Len(x) \in Nat
    OBVIOUS
  <2>2. u \in Seq(S) /\ Len(u) = Len(x) + 1
        /\ \A i \in 1 .. Len(x) + 1 : u[i] = IF i <= 1 THEN n ELSE x[i - 1]
    BY <2>1, ConcatProperties DEF Cons
  <2> HIDE DEF u
  <2>3. u # << >> /\ Head(u) = n
    BY <2>1, <2>2, EmptySeq
  <2>4. Tail(u) \in Seq(S) /\ Len(Tail(u)) = Len(x) /\ \A i \in 1 .. Len(x) : Tail(u)[i] = u[i + 1]
    BY <2>1, <2>2, <2>3, HeadTailProperties
  <2>5. \A i \in 1 .. Len(x) : u[i + 1] = x[i]
    BY <2>1, <2>2
  <2>6. Tail(u) = x
    BY <2>4, <2>5, SeqEqual
  <2> QED
    BY <2>2, <2>3, <2>6 DEF u
<1>2. ASSUME NEW x \in Seq(S), x # << >>
      PROVE  Head(x) \in S /\ Tail(x) \in Seq(S) /\ Len(Tail(x)) = Len(x) - 1 /\ x = Cons(Head(x), Tail(x))
  <2>1. Head(x) \in S /\ Tail(x) \in Seq(S) /\ Len(Tail(x)) = Len(x) - 1 /\ Len(x) \in Nat /\ Len(x) > 0
        /\ Head(x) = x[1] /\ \A i \in 1 .. Len(Tail(x)) : Tail(x)[i] = x[i + 1]
    BY <1>2, HeadTailProperties, EmptySeq
  <2> DEFINE u == <<Head(x)>> \o Tail(x)
  <2>2. <<Head(x)>> \in Seq(S) /\ Len(<<Head(x)>>) = 1 /\ <<Head(x)>>[1] = Head(x)
    BY <2>1
  <2>3. u \in Seq(S) /\ Len(u) = Len(x) /\ \A i \in 1 .. Len(x) : u[i] = IF i <= 1 THEN Head(x) ELSE Tail(x)[i - 1]
    BY <2>1, <2>2, ConcatProperties
  <2> HIDE DEF u
  <2>4. ASSUME NEW i \in 1 .. Len(x) PROVE u[i] = x[i]
    <3>1. CASE i = 1
      BY <2>1, <2>3, <3>1
    <3>2. CASE i # 1
      <4>1. i - 1 \in 1 .. Len(Tail(x)) /\ (i - 1) + 1 = i
        BY <2>1, <3>2
      <4> QED
        BY <2>1, <2>3, <3>2, <4>1
    <3> QED
      BY <3>1, <3>2
  <2>5. u = x
    BY <2>3, <2>4, SeqEqual
  <2> QED
    BY <2>1, <2>5 DEF u, Cons
<1> QED
  BY <1>1, <1>2

\* The nodes of a slot are paths of names.
LEMMA NodesArePaths ==
  ASSUME NEW s, Sound(s), NEW l \in Slots(s), NEW x \in Nodes(s, l)
  PROVE  x = <<x[1], x[2]>> /\ x[1] \in Seq(Member)
<1>1. PICK w : Way(s, l, w) /\ x = <<NamesOf(w), Shape(s, EndOf(l, w))>>
  BY NodeIs
<1>2. w \in Seq(Slots(s)) /\ Len(w) \in Nat /\ \A i \in 1 .. Len(w) : w[i] \in Slots(s) /\ w[i][2] # None
  BY <1>1 DEF Way
<1>3. \A i \in 1 .. Len(w) : w[i][2] \in Member
  <2>1. s \in StateType
    BY DEF Sound
  <2>2. \A m \in Slots(s) : m[2] # None => m[1] \in DOMAIN s.cells /\ m[2] \in DOMAIN s.cells[m[1]]
    BY <2>1, EntryIs
  <2>3. \A b \in DOMAIN s.cells : DOMAIN s.cells[b] \in SUBSET Member
    BY <2>1, StateIs
  <2> QED
    BY <1>2, <2>2, <2>3
<1>4. NamesOf(w) \in Seq(Member)
  BY <1>2, <1>3, NamesAre
<1> QED
  BY <1>1, <1>4

\* The one node with no path is the shape of the slot.
LEMMA RootIs ==
  ASSUME NEW s, Sound(s), NEW l \in Slots(s), NEW d
  PROVE  << << >>, d>> \in Nodes(s, l) <=> d = Shape(s, l)
<1>1. ASSUME << << >>, d>> \in Nodes(s, l) PROVE d = Shape(s, l)
  <2>1. PICK w : Way(s, l, w) /\ << << >>, d>> = <<NamesOf(w), Shape(s, EndOf(l, w))>>
    BY <1>1, NodeIs
  <2>2. NamesOf(w) = << >> /\ d = Shape(s, EndOf(l, w)) /\ w \in Seq(Slots(s))
    BY <2>1 DEF Way
  <2>3. w = << >>
    <3> DEFINE S == {w[i][2] : i \in 1 .. Len(w)}
    <3>1. \A i \in 1 .. Len(w) : w[i][2] \in S
      OBVIOUS
    <3> HIDE DEF S
    <3>2. Len(NamesOf(w)) = Len(w)
      BY <2>2, <3>1, NamesAre
    <3> QED
      BY <2>2, <3>2, EmptySeq
  <2> QED
    BY <2>2, <2>3 DEF EndOf
<1>2. ASSUME d = Shape(s, l) PROVE << << >>, d>> \in Nodes(s, l)
  <2> DEFINE w == << >>
  <2>1. w \in Seq(Slots(s)) /\ Len(w) = 0
    BY EmptySeq
  <2>2. Way(s, l, w)
    BY <2>1 DEF Way
  <2>3. NamesOf(w) = << >> /\ EndOf(l, w) = l
    BY DEF NamesOf, EndOf
  <2> QED
    BY <1>2, <2>2, <2>3, NodeIs
<1> QED
  BY <1>1, <1>2

\* A node whose path begins with a name is one of the member of that name.
LEMMA MemberNodeIs ==
  ASSUME NEW s, Sound(s), NEW l \in Slots(s), NEW n \in Member, NEW x \in Seq(Member), NEW d
  PROVE  << Cons(n, x), d>> \in Nodes(s, l) <=> n \in Names(s, l) /\ <<x, d>> \in Nodes(s, Entry(s, l, n))
<1>1. ASSUME << Cons(n, x), d>> \in Nodes(s, l)
      PROVE  n \in Names(s, l) /\ <<x, d>> \in Nodes(s, Entry(s, l, n))
  <2>1. PICK w : Way(s, l, w) /\ << Cons(n, x), d>> = <<NamesOf(w), Shape(s, EndOf(l, w))>>
    BY <1>1, NodeIs
  <2>2. NamesOf(w) = Cons(n, x) /\ d = Shape(s, EndOf(l, w)) /\ w \in Seq(Slots(s))
    BY <2>1 DEF Way
  <2>3. w # << >>
    <3>1. w = << >> => NamesOf(w) = << >>
      BY DEF NamesOf
    <3> QED
      BY <2>2, <3>1, PathIs
  <2> DEFINE e == Head(w)
             u == Tail(w)
  <2>4. e \in Slots(s) /\ u \in Seq(Slots(s)) /\ w = Cons(e, u)
    BY <2>2, <2>3, PathIs
  <2> HIDE DEF e, u
  <2>5. /\ Object(s, l) /\ e[2] # None /\ e[1] = Owned(s, l, "payload") /\ Way(s, e, u)
        /\ NamesOf(w) = Cons(e[2], NamesOf(u)) /\ EndOf(l, w) = EndOf(e, u)
    BY <2>1, <2>4, WayIs
  <2>6. e = <<e[1], e[2]>>
    BY <2>4, <2>5, EntryIs DEF Sound
  <2>7. <<NamesOf(u), Shape(s, EndOf(e, u))>> \in Nodes(s, e)
    BY <2>4, <2>5, NodeIs
  <2>8. NamesOf(u) \in Seq(Member) /\ e[2] \in Member
    <3>1. NamesOf(u) \in Seq(Member)
      BY <2>4, <2>7, NodesArePaths
    <3>2. e[1] \in DOMAIN s.cells /\ e[2] \in DOMAIN s.cells[e[1]]
      BY <2>4, <2>5, EntryIs DEF Sound
    <3> QED
      BY <3>1, <3>2, StateIs DEF Sound
  <2>9. n = e[2] /\ x = NamesOf(u)
    <3>1. Cons(n, x) = Cons(e[2], NamesOf(u))
      BY <2>2, <2>5
    <3>2. Head(Cons(n, x)) = n /\ Tail(Cons(n, x)) = x
      BY PathIs, Zenon
    <3>3. Head(Cons(e[2], NamesOf(u))) = e[2] /\ Tail(Cons(e[2], NamesOf(u))) = NamesOf(u)
      BY <2>8, PathIs, Zenon
    <3> QED
      BY <3>1, <3>2, <3>3, Zenon
  <2>10. e = Entry(s, l, n)
    BY <2>5, <2>6, <2>9 DEF Entry
  <2> QED
    BY <2>2, <2>4, <2>5, <2>7, <2>9, <2>10 DEF Names
<1>2. ASSUME n \in Names(s, l), <<x, d>> \in Nodes(s, Entry(s, l, n))
      PROVE  << Cons(n, x), d>> \in Nodes(s, l)
  <2> DEFINE e == Entry(s, l, n)
  <2>1. Object(s, l) /\ e \in Slots(s) /\ e[1] = Owned(s, l, "payload") /\ e[2] = n /\ n # None
    BY <1>2, EntriesAre DEF Names
  <2> HIDE DEF e
  <2>2. PICK u : Way(s, e, u) /\ <<x, d>> = <<NamesOf(u), Shape(s, EndOf(e, u))>>
    BY <1>2, <2>1, NodeIs DEF e
  <2>3. u \in Seq(Slots(s)) /\ x = NamesOf(u) /\ d = Shape(s, EndOf(e, u))
    BY <2>2 DEF Way
  <2> DEFINE w == Cons(e, u)
  <2>4. Way(s, l, w) /\ NamesOf(w) = Cons(n, x) /\ EndOf(l, w) = EndOf(e, u)
    BY <2>1, <2>2, <2>3, WayIs
  <2> HIDE DEF w
  <2> QED
    BY <2>3, <2>4, NodeIs
<1> QED
  BY <1>1, <1>2

-----------------------------------------------------------------------------
(* What a change of one slot leaves alone: slots that are alike have the   *)
(* same nodes.                                                             *)

\* Two slots with the same nodes.
LEMMA SamePaths ==
  ASSUME NEW s, Sound(s), NEW t, Sound(t), NEW k \in Slots(s), NEW m \in Slots(t),
         \A x \in Seq(Member) : \A d : <<x, d>> \in Nodes(s, k) <=> <<x, d>> \in Nodes(t, m)
  PROVE  Nodes(s, k) = Nodes(t, m)
<1>1. ASSUME NEW x \in Nodes(s, k) PROVE x \in Nodes(t, m)
  <2>1. x = <<x[1], x[2]>> /\ x[1] \in Seq(Member)
    BY NodesArePaths
  <2> QED
    BY <2>1
<1>2. ASSUME NEW x \in Nodes(t, m) PROVE x \in Nodes(s, k)
  <2>1. x = <<x[1], x[2]>> /\ x[1] \in Seq(Member)
    BY NodesArePaths
  <2> QED
    BY <2>1
<1> QED
  BY <1>1, <1>2

\* Slots of s and t with the same shape, the same names, and members that again are alike.
AlikeSlots(s, t, R) ==
  /\ R \in SUBSET (Slots(s) \X Slots(t))
  /\ \A r \in R : /\ Shape(t, r[2]) = Shape(s, r[1]) /\ Names(t, r[2]) = Names(s, r[1])
                  /\ \A n \in Names(s, r[1]) : <<Entry(s, r[1], n), Entry(t, r[2], n)>> \in R

\* Slots that are alike have the same nodes: the shortest path to differ on would
\* have a shorter one after its first name.
LEMMA AlikeNodes ==
  ASSUME NEW s, Sound(s), NEW t, Sound(t), NEW R, AlikeSlots(s, t, R),
         NEW a \in Slots(s), NEW b \in Slots(t), <<a, b>> \in R
  PROVE  Nodes(s, a) = Nodes(t, b)
<1> DEFINE Same(k, m, x, d) == <<x, d>> \in Nodes(s, k) <=> <<x, d>> \in Nodes(t, m)
           S == {i \in Nat : \E k \in Slots(s), m \in Slots(t), x \in Seq(Member) : \E d :
                   <<k, m>> \in R /\ Len(x) = i /\ ~Same(k, m, x, d)}
<1>1. ASSUME S # {} PROVE FALSE
  <2>1. S \in SUBSET Nat
    OBVIOUS
  <2>2. PICK i \in S : \A j \in S : i <= j
    <3> HIDE DEF S
    <3> QED
      BY <1>1, <2>1, Smallest
  <2>3. i \in Nat /\ \E k \in Slots(s), m \in Slots(t), x \in Seq(Member) : \E d :
                   <<k, m>> \in R /\ Len(x) = i /\ ~Same(k, m, x, d)
    OBVIOUS
  <2>4. PICK k \in Slots(s), m \in Slots(t), x \in Seq(Member) : \E d :
                   <<k, m>> \in R /\ Len(x) = i /\ ~Same(k, m, x, d)
    BY <2>3
  <2>5. PICK d : <<k, m>> \in R /\ Len(x) = i /\ ~Same(k, m, x, d)
    BY <2>4
  <2>6. /\ Shape(t, m) = Shape(s, k) /\ Names(t, m) = Names(s, k)
        /\ \A n \in Names(s, k) : <<Entry(s, k, n), Entry(t, m, n)>> \in R
    BY <2>5 DEF AlikeSlots
  <2>7. CASE x = << >>
    BY <2>5, <2>6, <2>7, RootIs
  <2>8. CASE x # << >>
    <3> DEFINE n == Head(x)
               y == Tail(x)
    <3>1. n \in Member /\ y \in Seq(Member) /\ Len(y) = i - 1 /\ x = Cons(n, y) /\ i - 1 \in Nat
      <4>1. n \in Member /\ y \in Seq(Member) /\ Len(y) = Len(x) - 1 /\ x = Cons(n, y)
        BY <2>8, PathIs
      <4> HIDE DEF n, y
      <4>2. Len(y) \in Nat
        BY <4>1
      <4> QED
        BY <2>3, <2>5, <4>1, <4>2
    <3> HIDE DEF n, y
    <3>2. /\ <<x, d>> \in Nodes(s, k) <=> n \in Names(s, k) /\ <<y, d>> \in Nodes(s, Entry(s, k, n))
          /\ <<x, d>> \in Nodes(t, m) <=> n \in Names(t, m) /\ <<y, d>> \in Nodes(t, Entry(t, m, n))
      BY <3>1, MemberNodeIs
    <3>3. n \in Names(s, k) /\ n \in Names(t, m) /\ ~Same(Entry(s, k, n), Entry(t, m, n), y, d)
      BY <2>5, <2>6, <3>2
    <3>4. Entry(s, k, n) \in Slots(s) /\ Entry(t, m, n) \in Slots(t) /\ <<Entry(s, k, n), Entry(t, m, n)>> \in R
      BY <2>6, <3>3 DEF Names
    <3>5. i - 1 \in S
      BY <3>1, <3>3, <3>4
    <3> HIDE DEF S
    <3>6. i <= i - 1
      BY <2>2, <3>5
    <3> QED
      BY <2>3, <3>6
  <2> QED
    BY <2>7, <2>8
<1>2. ASSUME NEW x \in Seq(Member), NEW d PROVE Same(a, b, x, d)
  <2>1. Len(x) \in Nat
    OBVIOUS
  <2>2. Len(x) \notin S
    BY <1>1
  <2> QED
    BY <2>1, <2>2
<1> QED
  BY <1>2, SamePaths

\* Slots with the same shape, the same names and the same nodes of members.
LEMMA SameMembers ==
  ASSUME NEW s, Sound(s), NEW t, Sound(t), NEW k \in Slots(s), NEW m \in Slots(t),
         Shape(t, m) = Shape(s, k), Names(t, m) = Names(s, k),
         \A n \in Names(s, k) : Nodes(t, Entry(t, m, n)) = Nodes(s, Entry(s, k, n))
  PROVE  Nodes(t, m) = Nodes(s, k)
<1>1. ASSUME NEW x \in Seq(Member), NEW d PROVE <<x, d>> \in Nodes(s, k) <=> <<x, d>> \in Nodes(t, m)
  <2>1. CASE x = << >>
    BY <2>1, RootIs
  <2>2. CASE x # << >>
    <3> DEFINE n == Head(x)
               y == Tail(x)
    <3>1. n \in Member /\ y \in Seq(Member) /\ x = Cons(n, y)
      BY <2>2, PathIs
    <3> HIDE DEF n, y
    <3>2. /\ <<x, d>> \in Nodes(s, k) <=> n \in Names(s, k) /\ <<y, d>> \in Nodes(s, Entry(s, k, n))
          /\ <<x, d>> \in Nodes(t, m) <=> n \in Names(t, m) /\ <<y, d>> \in Nodes(t, Entry(t, m, n))
      BY <3>1, MemberNodeIs
    <3> QED
      BY <3>2
  <2> QED
    BY <2>1, <2>2
<1> QED
  BY <1>1, SamePaths

\* The shape and the names of a slot come from its pointers.
LEMMA PointersAre ==
  ASSUME NEW s, Sound(s), NEW t, Sound(t), NEW k \in Slots(s), NEW m \in Slots(t),
         PointersOf(t, m)["payload"] = PointersOf(s, k)["payload"],
         Object(s, k) => DOMAIN t.cells[Owned(s, k, "payload")] = DOMAIN s.cells[Owned(s, k, "payload")]
  PROVE  /\ Names(t, m) = Names(s, k) /\ (Object(t, m) <=> Object(s, k))
         /\ \A n \in Names(s, k) : /\ Entry(t, m, n) = Entry(s, k, n)
                                   /\ Entry(s, k, n) \in Slots(s) /\ Entry(s, k, n) \in Slots(t)
         /\ PointersOf(t, m)["comments"] = PointersOf(s, k)["comments"] => Shape(t, m) = Shape(s, k)
<1>1. (Object(t, m) <=> Object(s, k)) /\ Owned(t, m, "payload") = Owned(s, k, "payload")
  BY DEF Object, Owned
<1>2. CASE Object(s, k)
  <2>1. Names(t, m) = Names(s, k)
    BY <1>1, <1>2, EntriesAre
  <2>2. \A n : Entry(t, m, n) = Entry(s, k, n)
    BY <1>1 DEF Entry
  <2>3. \A n \in Names(s, k) : Entry(s, k, n) \in Slots(s) /\ Entry(t, m, n) \in Slots(t)
    BY <2>1 DEF Names
  <2> QED
    BY <1>1, <2>1, <2>2, <2>3 DEF Shape, Described
<1>3. CASE ~Object(s, k)
  <2>1. Names(t, m) = {} /\ Names(s, k) = {}
    BY <1>1, <1>3 DEF Names
  <2> QED
    BY <1>1, <2>1 DEF Shape, Described
<1> QED
  BY <1>2, <1>3

\* Slots that are in s and t, but for U, have the same nodes.
Kept(t, s, U) == \A m \in Slots(s) : m \in Slots(t) /\ m \notin U => Nodes(t, m) = Nodes(s, m)

\* A slot that keeps its pointers and whose members do so, too, keeps its nodes.
LEMMA KeptIs ==
  ASSUME NEW s, Sound(s), NEW t, Sound(t), NEW U,
         \A m \in Slots(s) : m \in Slots(t) /\ m \notin U =>
           /\ \A f \in Content : PointersOf(t, m)[f] = PointersOf(s, m)[f]
           /\ Object(s, m) => DOMAIN t.cells[Owned(s, m, "payload")] = DOMAIN s.cells[Owned(s, m, "payload")]
           /\ \A n \in Names(s, m) : Entry(s, m, n) \notin U
  PROVE  Kept(t, s, U)
<1> DEFINE K == {m \in Slots(s) : m \in Slots(t) /\ m \notin U}
           R == {<<m, m>> : m \in K}
<1>1. ASSUME NEW m \in K
      PROVE  /\ Shape(t, m) = Shape(s, m) /\ Names(t, m) = Names(s, m)
             /\ \A n \in Names(s, m) : <<Entry(s, m, n), Entry(t, m, n)>> \in R
  <2>1. "payload" \in Content /\ "comments" \in Content
    BY DEF Content
  <2>2. /\ PointersOf(t, m)["payload"] = PointersOf(s, m)["payload"]
        /\ PointersOf(t, m)["comments"] = PointersOf(s, m)["comments"]
        /\ Object(s, m) => DOMAIN t.cells[Owned(s, m, "payload")] = DOMAIN s.cells[Owned(s, m, "payload")]
        /\ \A n \in Names(s, m) : Entry(s, m, n) \notin U
    BY <2>1
  <2>3. /\ Shape(t, m) = Shape(s, m) /\ Names(t, m) = Names(s, m)
        /\ \A n \in Names(s, m) : /\ Entry(t, m, n) = Entry(s, m, n)
                                  /\ Entry(s, m, n) \in Slots(s) /\ Entry(s, m, n) \in Slots(t)
    BY <2>2, PointersAre
  <2> QED
    BY <2>2, <2>3
<1>2. AlikeSlots(s, t, R)
  <2>1. R \in SUBSET (Slots(s) \X Slots(t))
    OBVIOUS
  <2>2. \A r \in R : r[1] \in K /\ r[2] = r[1]
    OBVIOUS
  <2> HIDE DEF R, K
  <2> QED
    BY <1>1, <2>1, <2>2 DEF AlikeSlots
<1>3. ASSUME NEW m \in K PROVE Nodes(t, m) = Nodes(s, m)
  <2>1. <<m, m>> \in R /\ m \in Slots(s) /\ m \in Slots(t)
    OBVIOUS
  <2> HIDE DEF R
  <2> QED
    BY <1>2, <2>1, AlikeNodes
<1> QED
  BY <1>3 DEF Kept

\* Slot l is variable v, or an entry of its object.
Reached(s, l, v) ==
  l = Variable(v) \/ (Object(s, Variable(v)) /\ l[2] # None /\ l = <<Owned(s, Variable(v), "payload"), l[2]>>)

\* An entry is of one slot.
LEMMA EntryOf ==
  ASSUME NEW s, Sound(s), NEW m \in Slots(s), NEW n \in Names(s, m)
  PROVE  /\ Entry(s, m, n) # Temporary /\ \A v \in Var : Entry(s, m, n) # Variable(v)
         /\ \A v \in Var : \A l : Reached(s, l, v) /\ Entry(s, m, n) = l => m = Variable(v) /\ n = l[2]
<1>1. Object(s, m) /\ Entry(s, m, n) \in Slots(s)
  BY DEF Names
<1>2. Owns(s, m, "payload") /\ Entry(s, m, n)[1] = Owned(s, m, "payload") /\ Entry(s, m, n)[2] = n /\ n # None
  BY <1>1, EntriesAre
<1>3. Entry(s, m, n) # Temporary /\ \A v \in Var : Entry(s, m, n) # Variable(v)
  BY <1>2, SteadyIs
<1>4. ASSUME NEW v \in Var, NEW l, Reached(s, l, v), Entry(s, m, n) = l PROVE m = Variable(v) /\ n = l[2]
  <2>1. Object(s, Variable(v)) /\ l[1] = Owned(s, Variable(v), "payload")
    BY <1>3, <1>4 DEF Reached
  <2>2. Variable(v) \in Slots(s) /\ "payload" \in Field
    BY SteadyIs DEF Field
  <2>3. Owns(s, Variable(v), "payload")
    BY <2>1, <2>2, EntriesAre
  <2> QED
    BY <1>2, <1>4, <2>1, <2>2, <2>3 DEF Sound
<1> QED
  BY <1>3, <1>4

\* What a change of slot l of variable v leaves alone.
Away(l, v) == {l, Variable(v), Temporary}

\* t is s, but for the slot l of variable v, and its subtree.
Renewed(t, s, l, v) ==
  /\ Reached(t, l, v) /\ l \in Slots(t)
  /\ \A w \in Var : w # v => Nodes(t, Variable(w)) = Nodes(s, Variable(w))
  /\ l # Variable(v) =>
       /\ Shape(t, Variable(v)) = Shape(s, Variable(v))
       /\ Names(t, Variable(v)) = Names(s, Variable(v)) \cup {l[2]}
       /\ \A n \in Names(s, Variable(v)) :
            n # l[2] => Nodes(t, Entry(t, Variable(v), n)) = Nodes(s, Entry(s, Variable(v), n))

\* Only slot l and the temporary value get other pointers, and only the map of l may get l.
LEMMA RenewedIs ==
  ASSUME NEW s, Sound(s), NEW t, Sound(t), NEW v \in Var, NEW l \in Slots(t), Reached(s, l, v),
         \A m \in Slots(s) : m \in Slots(t) /\ m # l /\ m # Temporary =>
           \A f \in Content : PointersOf(t, m)[f] = PointersOf(s, m)[f],
         \A b \in DOMAIN s.cells : b \in DOMAIN t.cells =>
           DOMAIN t.cells[b] = IF l # Variable(v) /\ b = l[1] THEN DOMAIN s.cells[b] \cup {l[2]} ELSE DOMAIN s.cells[b]
  PROVE  Kept(t, s, Away(l, v)) /\ Renewed(t, s, l, v)
<1>0. /\ "payload" \in Content /\ "comments" \in Content /\ "payload" \in Field
      /\ \A w \in Var : /\ Variable(w) \in Slots(s) /\ Variable(w) \in Slots(t) /\ Variable(w) # Temporary
                        /\ w # v => Variable(w) # Variable(v)
  BY SteadyIs DEF Content, Field, Variable
<1>1. ASSUME NEW m \in Slots(s), m \in Slots(t), m # l, m # Temporary, Object(s, m)
      PROVE  /\ Owned(s, m, "payload") \in DOMAIN s.cells /\ Owned(s, m, "payload") \in DOMAIN t.cells
             /\ PointersOf(t, m)["payload"] = PointersOf(s, m)["payload"]
  <2>1. PointersOf(t, m)["payload"] = PointersOf(s, m)["payload"]
    BY <1>0, <1>1
  <2>2. Object(t, m) /\ Owned(t, m, "payload") = Owned(s, m, "payload")
    BY <1>1, <2>1 DEF Object, Owned
  <2> QED
    BY <1>1, <2>1, <2>2, EntriesAre
<1>2. ASSUME l # Variable(v)
      PROVE  /\ Object(s, Variable(v)) /\ l[1] = Owned(s, Variable(v), "payload")
             /\ Owns(s, Variable(v), "payload")
             /\ PointersOf(t, Variable(v))["payload"] = PointersOf(s, Variable(v))["payload"]
             /\ DOMAIN t.cells[l[1]] = DOMAIN s.cells[l[1]] \cup {l[2]}
  <2>1. Object(s, Variable(v)) /\ l[1] = Owned(s, Variable(v), "payload")
    BY <1>2 DEF Reached
  <2>2. Owns(s, Variable(v), "payload")
    BY <1>0, <2>1, EntriesAre
  <2> QED
    BY <1>0, <1>1, <1>2, <2>1, <2>2
<1>3. ASSUME NEW m \in Slots(s), m \in Slots(t), m \notin Away(l, v), Object(s, m)
      PROVE  DOMAIN t.cells[Owned(s, m, "payload")] = DOMAIN s.cells[Owned(s, m, "payload")]
  <2>1. m # l /\ m # Temporary /\ m # Variable(v)
    BY <1>3 DEF Away
  <2>2. Owned(s, m, "payload") \in DOMAIN s.cells /\ Owned(s, m, "payload") \in DOMAIN t.cells /\ Owns(s, m, "payload")
    BY <1>1, <1>3, <2>1, EntriesAre
  <2>3. l # Variable(v) => Owned(s, m, "payload") # l[1]
    BY <1>0, <1>2, <2>1, <2>2 DEF Sound
  <2> QED
    BY <2>2, <2>3
<1>4. Kept(t, s, Away(l, v))
  <2>1. ASSUME NEW m \in Slots(s), m \in Slots(t), m \notin Away(l, v), NEW n \in Names(s, m)
        PROVE  Entry(s, m, n) \notin Away(l, v)
    BY <2>1, EntryOf DEF Away
  <2>2. ASSUME NEW m \in Slots(s), m \in Slots(t), m \notin Away(l, v), NEW f \in Content
        PROVE  PointersOf(t, m)[f] = PointersOf(s, m)[f]
    BY <2>2 DEF Away
  <2> QED
    BY <1>3, <2>1, <2>2, KeptIs
<1>5. Reached(t, l, v)
  BY <1>2 DEF Reached, Object, Owned
<1>6. ASSUME NEW w \in Var, w # v PROVE Nodes(t, Variable(w)) = Nodes(s, Variable(w))
  <2>1. Variable(w) # l
    BY <1>0, <1>6, SteadyIs DEF Reached
  <2> QED
    BY <1>0, <1>4, <1>6, <2>1 DEF Kept, Away
<1>7. ASSUME l # Variable(v)
      PROVE  /\ Shape(t, Variable(v)) = Shape(s, Variable(v))
             /\ Names(t, Variable(v)) = Names(s, Variable(v)) \cup {l[2]}
             /\ \A n \in Names(s, Variable(v)) :
                  n # l[2] => Nodes(t, Entry(t, Variable(v), n)) = Nodes(s, Entry(s, Variable(v), n))
  <2> DEFINE V1 == Variable(v)
  <2>1. \A f \in Content : PointersOf(t, V1)[f] = PointersOf(s, V1)[f]
    BY <1>0, <1>7
  <2>2. Shape(t, V1) = Shape(s, V1) /\ Object(s, V1) /\ Object(t, V1) /\ Owned(t, V1, "payload") = l[1] /\ Owned(s, V1, "payload") = l[1]
    BY <1>0, <1>2, <1>7, <2>1 DEF Shape, Described, Object, Owned
  <2>3. V1 \in Slots(s) /\ V1 \in Slots(t)
    BY <1>0
  <2> HIDE DEF V1
  <2>4. Names(s, V1) = DOMAIN s.cells[l[1]] /\ Names(t, V1) = DOMAIN t.cells[l[1]]
    BY <2>2, <2>3, EntriesAre
  <2>5. Names(t, V1) = Names(s, V1) \cup {l[2]}
    BY <1>2, <1>7, <2>4
  <2>6. ASSUME NEW n \in Names(s, V1), n # l[2] PROVE Nodes(t, Entry(t, V1, n)) = Nodes(s, Entry(s, V1, n))
    <3>1. Entry(t, V1, n) = Entry(s, V1, n)
      BY <2>2 DEF Entry
    <3>2. Entry(s, V1, n) \in Slots(s) /\ Entry(t, V1, n) \in Slots(t)
      BY <2>5, <2>6 DEF Names
    <3>3. Entry(s, V1, n) \notin Away(l, v)
      BY <2>3, <2>6, EntryOf DEF Away
    <3> QED
      BY <1>4, <3>1, <3>2, <3>3 DEF Kept
  <2> QED
    BY <2>2, <2>5, <2>6 DEF V1
<1> QED
  BY <1>4, <1>5, <1>6, <1>7 DEF Renewed

\* What a slot points to is taken from another one, and its members with it.
LEMMA TakenIs ==
  ASSUME NEW s, Sound(s), NEW t, Sound(t), NEW v \in Var, NEW l, Reached(s, l, v), Kept(t, s, Away(l, v)),
         NEW k \in Slots(s), NEW m \in Slots(t), k # Variable(v) \/ l = Variable(v),
         PointersOf(t, m)["payload"] = PointersOf(s, k)["payload"],
         Object(s, k) => DOMAIN t.cells[Owned(s, k, "payload")] = DOMAIN s.cells[Owned(s, k, "payload")]
  PROVE  /\ Names(t, m) = Names(s, k)
         /\ \A n \in Names(s, k) : Nodes(t, Entry(t, m, n)) = Nodes(s, Entry(s, k, n))
         /\ PointersOf(t, m)["comments"] = PointersOf(s, k)["comments"] => Nodes(t, m) = Nodes(s, k)
<1>1. /\ Names(t, m) = Names(s, k)
      /\ \A n \in Names(s, k) : /\ Entry(t, m, n) = Entry(s, k, n)
                                /\ Entry(s, k, n) \in Slots(s) /\ Entry(s, k, n) \in Slots(t)
      /\ PointersOf(t, m)["comments"] = PointersOf(s, k)["comments"] => Shape(t, m) = Shape(s, k)
  BY PointersAre
<1>2. ASSUME NEW n \in Names(s, k) PROVE Nodes(t, Entry(t, m, n)) = Nodes(s, Entry(s, k, n))
  <2>1. Entry(s, k, n) \notin Away(l, v)
    <3>1. Variable(v) \in Slots(s)
      BY SteadyIs
    <3>2. Entry(s, k, n) # Temporary /\ Entry(s, k, n) # Variable(v)
      BY EntryOf
    <3>3. Entry(s, k, n) # l
      BY <3>2, EntryOf
    <3> QED
      BY <3>2, <3>3 DEF Away
  <2> QED
    BY <1>1, <2>1 DEF Kept
<1>3. PointersOf(t, m)["comments"] = PointersOf(s, k)["comments"] => Nodes(t, m) = Nodes(s, k)
  BY <1>1, <1>2, SameMembers
<1> QED
  BY <1>1, <1>2, <1>3

\* A slot without members.
LEMMA LeafIs ==
  ASSUME NEW s, Sound(s), NEW l \in Slots(s), Names(s, l) = {}
  PROVE  Nodes(s, l) = {<< << >>, Shape(s, l)>>}
<1>1. << << >>, Shape(s, l)>> \in Nodes(s, l)
  BY RootIs
<1>2. ASSUME NEW x \in Nodes(s, l) PROVE x = << << >>, Shape(s, l)>>
  <2>1. x = <<x[1], x[2]>> /\ x[1] \in Seq(Member)
    BY NodesArePaths
  <2>2. CASE x[1] = << >>
    <3>1. << << >>, x[2]>> \in Nodes(s, l)
      BY <2>1, <2>2
    <3> QED
      BY <2>1, <2>2, <3>1, RootIs
  <2>3. CASE x[1] # << >>
    <3>1. Head(x[1]) \in Member /\ Tail(x[1]) \in Seq(Member) /\ x[1] = Cons(Head(x[1]), Tail(x[1]))
      BY <2>1, <2>3, PathIs
    <3>2. <<Cons(Head(x[1]), Tail(x[1])), x[2]>> \in Nodes(s, l)
      BY <2>1, <3>1
    <3> QED
      BY <3>1, <3>2, MemberNodeIs
  <2> QED
    BY <2>2, <2>3
<1> QED
  BY <1>1, <1>2

-----------------------------------------------------------------------------
(* Put: a change of one slot is a change of one place of the values.       *)

-----------------------------------------------------------------------------
(* The values of ValueSemantics.                                           *)

Values(s) == [v \in Var |-> Nodes(s, Variable(v))]
PathOf(l, v) == IF l = Variable(v) THEN << >> ELSE <<l[2]>>

\* A name and an empty path, and the empty path before another.
LEMMA ConsIs ==
  ASSUME NEW S
  PROVE  /\ \A n \in S : <<n>> = Cons(n, << >>) /\ << >> \in Seq(S)
         /\ \A x \in Seq(S) : << >> \o x = x /\ SubSeq(x, 1, Len(x)) = x
         /\ \A x \in Seq(S) : x # << >> => SubSeq(x, 2, Len(x)) = Tail(x)
         /\ \A n \in S, x \in Seq(S) : <<n>> \o x = Cons(n, x)
<1>1. ASSUME NEW n \in S PROVE <<n>> = Cons(n, << >>) /\ << >> \in Seq(S)
  BY ConcatEmptySeq DEF Cons
<1>2. ASSUME NEW x \in Seq(S) PROVE << >> \o x = x
  BY ConcatEmptySeq
<1>3. ASSUME NEW x \in Seq(S) PROVE SubSeq(x, 1, Len(x)) = x
  <2>1. Len(x) \in Nat /\ DOMAIN x = 1 .. Len(x)
    BY LenProperties
  <2> QED
    BY <2>1, SubSeqFull
<1>4. ASSUME NEW x \in Seq(S), x # << >> PROVE SubSeq(x, 2, Len(x)) = Tail(x)
  <2>1. Len(x) \in Nat /\ Len(x) > 0 /\ Tail(x) \in Seq(S) /\ Len(Tail(x)) = Len(x) - 1
        /\ \A i \in 1 .. Len(Tail(x)) : Tail(x)[i] = x[i + 1]
    BY <1>4, HeadTailProperties, EmptySeq
  <2>2. \A i \in 2 .. Len(x) : x[i] \in S
    OBVIOUS
  <2>3. SubSeq(x, 2, Len(x)) \in Seq(S) /\ Len(SubSeq(x, 2, Len(x))) = Len(x) - 1
        /\ \A i \in 1 .. Len(x) - 1 : SubSeq(x, 2, Len(x))[i] = x[i + 1]
    <3>1. Len(x) \in Int /\ 2 \in Int /\ Len(x) \in Nat /\ Len(x) > 0
      BY <2>1
    <3>2. /\ SubSeq(x, 2, Len(x)) \in Seq(S)
          /\ Len(SubSeq(x, 2, Len(x))) = IF 2 <= Len(x) THEN Len(x) - 2 + 1 ELSE 0
          /\ \A i \in 1 .. Len(x) - 2 + 1 : SubSeq(x, 2, Len(x))[i] = x[2 + i - 1]
      BY ONLY <2>2, <3>1, SubSeqProperties
    <3> DEFINE z == SubSeq(x, 2, Len(x))
               N == Len(x)
    <3> HIDE DEF z, N
    <3>3. z \in Seq(S) /\ Len(z) = N - 1 /\ \A i \in 1 .. N - 1 : z[i] = x[i + 1]
      <4>1. z \in Seq(S) /\ Len(z) = (IF 2 <= N THEN N - 2 + 1 ELSE 0)
            /\ \A i \in 1 .. N - 2 + 1 : z[i] = x[2 + i - 1]
        BY <3>2 DEF z, N
      <4>2. N \in Nat /\ N > 0
        BY <3>1 DEF N
      <4> QED
        BY <4>1, <4>2
    <3> QED
      BY <3>3 DEF z, N
  <2> QED
    BY <2>1, <2>3, SeqEqual
<1> QED
  BY <1>1, <1>2, <1>3, <1>4 DEF Cons

\* The nodes X under name n.
Under(n, X) == {<<Cons(n, x[1]), x[2]>> : x \in X}

\* A node of a slot is its root or in a member.
LEMMA NodeCases ==
  ASSUME NEW s, Sound(s), NEW l \in Slots(s)
  PROVE  \A x : x \in Nodes(s, l) <=>
           \/ x = << << >>, Shape(s, l)>>
           \/ \E n \in Names(s, l) : x \in Under(n, Nodes(s, Entry(s, l, n)))
<1>1. \A n \in Names(s, l) : Entry(s, l, n) \in Slots(s) /\ n \in Member
  BY DEF Names
<1>2. ASSUME NEW x \in Nodes(s, l), x # << << >>, Shape(s, l)>>
      PROVE  \E n \in Names(s, l) : x \in Under(n, Nodes(s, Entry(s, l, n)))
  <2>1. x = <<x[1], x[2]>> /\ x[1] \in Seq(Member)
    BY NodesArePaths
  <2>2. x[1] # << >>
    <3>1. SUFFICES ASSUME x[1] = << >> PROVE FALSE
      OBVIOUS
    <3>2. << << >>, x[2]>> \in Nodes(s, l)
      BY <2>1, <3>1
    <3> QED
      BY <1>2, <2>1, <3>1, <3>2, RootIs
  <2> DEFINE n == Head(x[1])
             y == Tail(x[1])
  <2>3. n \in Member /\ y \in Seq(Member) /\ x[1] = Cons(n, y)
    BY <2>1, <2>2, PathIs
  <2> HIDE DEF n, y
  <2>4. <<Cons(n, y), x[2]>> \in Nodes(s, l)
    BY <2>1, <2>3
  <2>5. n \in Names(s, l) /\ <<y, x[2]>> \in Nodes(s, Entry(s, l, n))
    BY <2>3, <2>4, MemberNodeIs
  <2>6. x = <<Cons(n, <<y, x[2]>>[1]), <<y, x[2]>>[2]>>
    BY <2>1, <2>3
  <2> QED
    BY <2>5, <2>6 DEF Under
<1>3. ASSUME NEW n \in Names(s, l), NEW y \in Nodes(s, Entry(s, l, n)) PROVE <<Cons(n, y[1]), y[2]>> \in Nodes(s, l)
  <2>1. y = <<y[1], y[2]>> /\ y[1] \in Seq(Member)
    BY <1>1, NodesArePaths
  <2> QED
    BY <1>1, <2>1, MemberNodeIs
<1>4. << << >>, Shape(s, l)>> \in Nodes(s, l)
  BY RootIs
<1> QED
  BY <1>2, <1>3, <1>4 DEF Under

\* Which nodes of a variable are in a place of it.
LEMMA WithinIs ==
  ASSUME NEW v, NEW n \in Member
  PROVE  /\ \A x : Semantics!Within(<<v, << >> >>, x)
         /\ \A d : ~Semantics!Within(<<v, <<n>> >>, << << >>, d>>)
         /\ \A m \in Member, y \in Seq(Member) : \A d :
              Semantics!Within(<<v, <<n>> >>, <<Cons(m, y), d>>) <=> m = n
<1>1. \A x : Semantics!Within(<<v, << >> >>, x)
  BY DEF Semantics!Within
<1>2. <<n>> # << >> /\ <<n>>[1] = n
  OBVIOUS
<1>3. \A d : ~Semantics!Within(<<v, <<n>> >>, << << >>, d>>)
  BY <1>2 DEF Semantics!Within
<1>4. ASSUME NEW m \in Member, NEW y \in Seq(Member), NEW d
      PROVE  Semantics!Within(<<v, <<n>> >>, <<Cons(m, y), d>>) <=> m = n
  <2>1. Cons(m, y) # << >> /\ Head(Cons(m, y)) = m
    BY PathIs
  <2> QED
    BY <1>2, <2>1 DEF Semantics!Within
<1> QED
  BY <1>1, <1>3, <1>4

\* The nodes under a name are in the place with that name, and in no other.
LEMMA UnderIs ==
  ASSUME NEW s, Sound(s), NEW k \in Slots(s), NEW m \in Member, NEW x \in Under(m, Nodes(s, k)), NEW v, NEW n \in Member
  PROVE  Semantics!Within(<<v, <<n>> >>, x) <=> m = n
<1>1. PICK y \in Nodes(s, k) : x = <<Cons(m, y[1]), y[2]>>
  BY DEF Under
<1>2. y[1] \in Seq(Member)
  BY NodesArePaths
<1>3. ASSUME NEW z \in Seq(Member), NEW d PROVE Semantics!Within(<<v, <<n>> >>, <<Cons(m, z), d>>) <=> m = n
  BY WithinIs
<1>4. Semantics!Within(<<v, <<n>> >>, <<Cons(m, y[1]), y[2]>>) <=> m = n
  BY ONLY <1>2, <1>3
<1> QED
  BY <1>1, <1>4

\* An object holds l where its name says.
LEMMA ReachedIs ==
  ASSUME NEW s, Sound(s), NEW v \in Var, NEW l \in Slots(s), Reached(s, l, v), l # Variable(v)
  PROVE  /\ l[2] \in Names(s, Variable(v)) /\ Entry(s, Variable(v), l[2]) = l /\ l[2] \in Member
         /\ PathOf(l, v) = <<l[2]>>
<1>1. Variable(v) \in Slots(s) /\ Object(s, Variable(v)) /\ Entry(s, Variable(v), l[2]) = l /\ l[2] # None
  BY SteadyIs DEF Reached, Entry
<1>2. l[1] \in DOMAIN s.cells /\ l[2] \in DOMAIN s.cells[l[1]]
  BY <1>1, EntryIs DEF Sound
<1>3. l[2] \in Member
  BY <1>2, StateIs DEF Sound
<1> QED
  BY <1>1, <1>3 DEF Names, PathOf

\* The nodes of X that are not in place p, and the nodes X at path q.
Outside(p, X) == {x \in X : ~Semantics!Within(p, x)}
Prefixed(q, X) == {<<q \o x[1], x[2]>> : x \in X}

\* A function of the variables.
OnVars(vs) == vs = [w \in Var |-> vs[w]]

\* What Put makes of a variable whose value or a member of it is replaced.
LEMMA PutValues ==
  ASSUME NEW vs, OnVars(vs), NEW v \in Var, NEW p, p[1] = v, NEW X
  PROVE  Semantics!Put(vs, p, X) =
           [w \in Var |-> IF w = v THEN Outside(p, vs[v]) \cup Prefixed(p[2], X) ELSE vs[w]]
BY DEF Semantics!Put, Semantics!Without, Outside, Prefixed, OnVars

\* A renewed slot is a place whose value is replaced (Put).
LEMMA PutIs ==
  ASSUME NEW s, Sound(s), NEW t, Sound(t), NEW v \in Var, NEW l, Reached(s, l, v), Renewed(t, s, l, v)
  PROVE  Values(t) = Semantics!Put(Values(s), <<v, PathOf(l, v)>>, Nodes(t, l))
<1> DEFINE p == <<v, PathOf(l, v)>>
           A == Outside(p, Nodes(s, Variable(v)))
           B == Prefixed(p[2], Nodes(t, l))
<1>0. /\ l \in Slots(t) /\ Reached(t, l, v) /\ Variable(v) \in Slots(s) /\ Variable(v) \in Slots(t)
      /\ \A w \in Var : w # v => Nodes(t, Variable(w)) = Nodes(s, Variable(w))
  BY SteadyIs DEF Renewed
<1>1. \A x \in Nodes(t, l) : x = <<x[1], x[2]>> /\ x[1] \in Seq(Member)
  BY <1>0, NodesArePaths
<1>2. ASSUME l = Variable(v) PROVE A \cup B = Nodes(t, Variable(v))
  <2>1. p = <<v, << >> >>
    BY <1>2 DEF PathOf
  <2>2. A = {}
    BY <2>1 DEF Semantics!Within, Outside
  <2>3. ASSUME NEW x \in Nodes(t, l) PROVE <<p[2] \o x[1], x[2]>> = x
    <3>1. x = <<x[1], x[2]>> /\ << >> \o x[1] = x[1] /\ p[2] = << >>
      BY <1>1, <2>1, ConsIs
    <3> HIDE DEF p
    <3> QED
      BY <3>1
  <2>4. B = Nodes(t, l)
    <3> HIDE DEF p
    <3> QED
      BY <2>3 DEF Prefixed
  <2> QED
    BY <1>2, <2>2, <2>4
<1>3. ASSUME l # Variable(v) PROVE A \cup B = Nodes(t, Variable(v))
  <2> DEFINE n == l[2]
             N == Names(s, Variable(v))
  <2>1. n \in Member /\ n \in Names(t, Variable(v)) /\ Entry(t, Variable(v), n) = l /\ p[2] = <<n>>
    BY <1>0, <1>3, ReachedIs
  <2>2. /\ Shape(t, Variable(v)) = Shape(s, Variable(v)) /\ Names(t, Variable(v)) = N \cup {n}
        /\ \A m \in N : m # n => Nodes(t, Entry(t, Variable(v), m)) = Nodes(s, Entry(s, Variable(v), m))
    BY <1>3 DEF Renewed
  <2>3. p = <<v, <<n>> >>
    BY <2>1
  <2>4. B = Under(n, Nodes(t, l))
    <3>1. ASSUME NEW x \in Nodes(t, l) PROVE <<p[2] \o x[1], x[2]>> = <<Cons(n, x[1]), x[2]>>
      <4>1. x[1] \in Seq(Member) /\ p[2] = <<n>> /\ n \in Member
        BY <1>1, <2>1
      <4> HIDE DEF p, n
      <4>2. p[2] \o x[1] = Cons(n, x[1])
        BY <4>1 DEF Cons
      <4> QED
        BY <4>2
    <3> HIDE DEF p, n
    <3> QED
      BY <3>1 DEF Under, Prefixed
  <2> DEFINE Old(m) == Under(m, Nodes(s, Entry(s, Variable(v), m)))
             New(m) == Under(m, Nodes(t, Entry(t, Variable(v), m)))
             root == << << >>, Shape(s, Variable(v))>>
  <2>5. ASSUME NEW x PROVE x \in A <=> x = root \/ \E m \in N : m # n /\ x \in Old(m)
    <3>1. ASSUME NEW m \in N, NEW y \in Old(m) PROVE Semantics!Within(p, y) <=> m = n
      <4>1. m \in Member /\ Entry(s, Variable(v), m) \in Slots(s)
        BY DEF Names
      <4> QED
        BY <2>1, <2>3, <4>1, UnderIs
    <3>2. x \in Nodes(s, Variable(v)) <=> x = root \/ \E m \in N : x \in Old(m)
      BY <1>0, NodeCases
    <3>3. ~Semantics!Within(p, root)
      BY <2>1, <2>3, WithinIs
    <3> HIDE DEF N, p, n, Old, root
    <3> QED
      BY <3>1, <3>2, <3>3 DEF Outside
  <2>6. ASSUME NEW x PROVE x \in Nodes(t, Variable(v)) <=> x = root \/ \E m \in N \cup {n} : x \in New(m)
    BY <1>0, <2>2, NodeCases
  <2>7. New(n) = B /\ \A m \in N : m # n => New(m) = Old(m)
    <3> HIDE DEF N, n, B
    <3> QED
      BY <2>1, <2>2, <2>4
  <2> HIDE DEF A, B, n, N, Old, New, root
  <2>8. ASSUME NEW x PROVE x \in A \cup B <=> x \in Nodes(t, Variable(v))
    BY <2>5, <2>6, <2>7
  <2> QED
    BY <2>8
<1>4. Semantics!Put(Values(s), p, Nodes(t, l)) = [w \in Var |-> IF w = v THEN A \cup B ELSE Nodes(s, Variable(w))]
  <2> DEFINE vs == Values(s)
  <2>1. OnVars(vs) /\ \A w \in Var : vs[w] = Nodes(s, Variable(w))
    BY DEF Values, OnVars
  <2>2. p[1] = v
    OBVIOUS
  <2> HIDE DEF p, vs
  <2>3. Semantics!Put(vs, p, Nodes(t, l)) =
           [w \in Var |-> IF w = v THEN Outside(p, vs[v]) \cup Prefixed(p[2], Nodes(t, l)) ELSE vs[w]]
    BY <2>1, <2>2, PutValues
  <2> QED
    BY <2>1, <2>3 DEF vs
<1>5. A \cup B = Nodes(t, Variable(v))
  BY <1>2, <1>3
<1> HIDE DEF A, B, p
<1>6. Values(t) = [w \in Var |-> IF w = v THEN A \cup B ELSE Nodes(s, Variable(w))]
  BY <1>0, <1>5 DEF Values
<1> QED
  BY <1>4, <1>6 DEF p

-----------------------------------------------------------------------------
(* Places.                                                                 *)

\* The nodes in a place are those of its slot.
LEMMA AtIs ==
  ASSUME NEW s, Sound(s), NEW v \in Var, NEW l \in Slots(s), Reached(s, l, v)
  PROVE  Semantics!At(Values(s), <<v, PathOf(l, v)>>) = Nodes(s, l)
<1> DEFINE p == <<v, PathOf(l, v)>>
           X == Nodes(s, Variable(v))
           Rest(x) == <<SubSeq(x[1], Len(p[2]) + 1, Len(x[1])), x[2]>>
           A == {x \in X : Semantics!Within(p, x)}
<1>0. Variable(v) \in Slots(s) /\ \A x \in X : x = <<x[1], x[2]>> /\ x[1] \in Seq(Member)
  BY SteadyIs, NodesArePaths
<1>1. Semantics!At(Values(s), p) = {Rest(x) : x \in A}
  <2>1. Values(s)[p[1]] = X
    BY DEF Values
  <2> HIDE DEF X, p
  <2> QED
    BY <2>1 DEF Semantics!At
<1>2. CASE l = Variable(v)
  <2>1. p = <<v, << >> >> /\ p[2] = << >> /\ Len(p[2]) = 0
    BY <1>2 DEF PathOf
  <2>2. A = X
    BY <2>1, WithinIs DEF Semantics!Within
  <2>3. ASSUME NEW x \in X PROVE Rest(x) = x
    <3>1. SubSeq(x[1], 1, Len(x[1])) = x[1]
      BY <1>0, ConsIs
    <3>2. Len(p[2]) + 1 = 1
      BY <2>1
    <3> HIDE DEF X, p
    <3> QED
      BY <1>0, <3>1, <3>2
  <2> HIDE DEF A, X, Rest, p
  <2> QED
    BY <1>1, <1>2, <2>2, <2>3 DEF X, p
<1>3. CASE l # Variable(v)
  <2> DEFINE n == l[2]
  <2>1. n \in Member /\ n \in Names(s, Variable(v)) /\ Entry(s, Variable(v), n) = l /\ PathOf(l, v) = <<n>>
    BY <1>3, ReachedIs
  <2>2. p = <<v, <<n>> >> /\ p[2] = <<n>>
    BY <2>1
  <2>3. ASSUME NEW y \in Nodes(s, l)
        PROVE  <<Cons(n, y[1]), y[2]>> \in A /\ Rest(<<Cons(n, y[1]), y[2]>>) = y
    <3>1. y = <<y[1], y[2]>> /\ y[1] \in Seq(Member)
      BY NodesArePaths
    <3> DEFINE c == Cons(n, y[1])
    <3>2. <<c, y[2]>> \in Under(n, Nodes(s, l))
      BY DEF Under
    <3>3. <<c, y[2]>> \in X
      BY <1>0, <2>1, <3>2, NodeCases
    <3>4. Semantics!Within(p, <<c, y[2]>>)
      BY <2>1, <2>2, <3>2, UnderIs
    <3>5. c \in Seq(Member) /\ c # << >> /\ Tail(c) = y[1]
      BY <2>1, <3>1, PathIs
    <3> HIDE DEF c
    <3>6. SubSeq(c, 2, Len(c)) = y[1]
      BY <3>5, ConsIs
    <3>7. Len(p[2]) + 1 = 2
      BY <2>2
    <3> HIDE DEF p, X
    <3>8. Rest(<<c, y[2]>>) = y
      BY <3>1, <3>6, <3>7
    <3> HIDE DEF Rest
    <3> QED
      BY <3>3, <3>4, <3>8 DEF c
  <2>4. ASSUME NEW x \in A PROVE \E y \in Nodes(s, l) : x = <<Cons(n, y[1]), y[2]>>
    <3>1. x \in X /\ Semantics!Within(p, x)
      OBVIOUS
    <3>2. x # << << >>, Shape(s, Variable(v))>>
      <4>1. ~Semantics!Within(p, << << >>, Shape(s, Variable(v))>>)
        BY <2>1, <2>2, WithinIs
      <4> QED
        BY ONLY <3>1, <4>1
    <3>3. PICK m \in Names(s, Variable(v)) : x \in Under(m, Nodes(s, Entry(s, Variable(v), m)))
      BY <1>0, <3>1, <3>2, NodeCases
    <3>4. m \in Member /\ Entry(s, Variable(v), m) \in Slots(s)
      BY DEF Names
    <3>5. m = n
      BY <2>1, <2>2, <3>1, <3>3, <3>4, UnderIs
    <3> QED
      BY <2>1, <3>3, <3>5 DEF Under
  <2> HIDE DEF A, Rest, n, p
  <2>5. {Rest(x) : x \in A} = Nodes(s, l)
    BY <2>3, <2>4
  <2> QED
    BY <1>1, <2>5 DEF p
<1> QED
  BY <1>2, <1>3

\* What the root of a value is.
LEMMA TopIs ==
  ASSUME NEW s, Sound(s), NEW l \in Slots(s)
  PROVE  Semantics!Top(Nodes(s, l)) = Shape(s, l)
<1> DEFINE x == CHOOSE x \in Nodes(s, l) : x[1] = << >>
<1>1. << << >>, Shape(s, l)>> \in Nodes(s, l)
  BY RootIs
<1>2. x \in Nodes(s, l) /\ x[1] = << >>
  BY <1>1
<1>3. Semantics!Top(Nodes(s, l)) = x[2]
  BY DEF Semantics!Top
<1> HIDE DEF x
<1>4. << << >>, x[2]>> \in Nodes(s, l)
  BY <1>2, NodesArePaths
<1> QED
  BY <1>3, <1>4, RootIs

\* The places of a state are those of its values.
LEMMA PlaceOf ==
  ASSUME NEW s, Sound(s), NEW v \in Var, NEW l \in Slots(s), Reached(s, l, v)
  PROVE  <<v, PathOf(l, v)>> \in Semantics!Places(Values(s))
<1> DEFINE p == <<v, PathOf(l, v)>>
<1>0. Variable(v) \in Slots(s) /\ Values(s)[v] = Nodes(s, Variable(v))
  BY SteadyIs DEF Values
<1>1. << << >>, Shape(s, l)>> \in Nodes(s, l)
  BY RootIs
<1>2. p \in Semantics!Place /\ \E x \in Nodes(s, Variable(v)) : x[1] = p[2]
  <2>1. CASE l = Variable(v)
    BY <1>1, <2>1 DEF PathOf, Semantics!Place
  <2>2. CASE l # Variable(v)
    <3>1. l[2] \in Member /\ l[2] \in Names(s, Variable(v)) /\ Entry(s, Variable(v), l[2]) = l /\ PathOf(l, v) = <<l[2]>>
      BY <2>2, ReachedIs
    <3>2. <<Cons(l[2], << >>), Shape(s, l)>> \in Nodes(s, Variable(v))
      BY <1>0, <1>1, <3>1, ConsIs, MemberNodeIs
    <3>3. Cons(l[2], << >>) = <<l[2]>>
      BY <3>1, ConsIs
    <3>4. p \in Semantics!Place
      BY <3>1 DEF Semantics!Place
    <3> QED
      BY <3>1, <3>2, <3>3, <3>4
  <2> QED
    BY <2>1, <2>2
<1> HIDE DEF p
<1>3. p[1] = v
  BY DEF p
<1> QED
  BY <1>0, <1>2, <1>3 DEF Semantics!Places, p

\* The slot of a place.
LEMMA SlotOf ==
  ASSUME NEW s, Sound(s), NEW p \in Places(s)
  PROVE  /\ p[1] \in Var /\ On(s, Slot(s, p), p[1]) /\ Slot(s, p) \in Slots(s) /\ Reached(s, Slot(s, p), p[1])
         /\ p = <<p[1], PathOf(Slot(s, p), p[1])>>
         /\ p \in Semantics!Places(Values(s))
         /\ Semantics!At(Values(s), p) = Nodes(s, Slot(s, p))
<1>1. /\ p[1] \in Var /\ On(s, Slot(s, p), p[1]) /\ Slot(s, p) \in Slots(s)
      /\ p[2] = << >> => Slot(s, p) = Variable(p[1])
      /\ p[2] # << >> => /\ Object(s, Variable(p[1]))
                         /\ Slot(s, p) = <<Owned(s, Variable(p[1]), "payload"), p[2][1]>>
                         /\ Slot(s, p)[2] # None
  BY PlaceIs DEF On, Object
<1>2. p = <<p[1], p[2]>> /\ (p[2] # << >> => p[2] = <<p[2][1]>>)
  BY DEF Places, V!Place
<1>3. Reached(s, Slot(s, p), p[1])
  BY <1>1 DEF Reached
<1>4. p[2] = PathOf(Slot(s, p), p[1])
  <2>1. p[2] # << >> => Slot(s, p) # Variable(p[1])
    BY <1>1 DEF Variable
  <2>2. CASE p[2] = << >>
    BY <1>1, <2>2 DEF PathOf
  <2>3. CASE p[2] # << >>
    <3>1. Slot(s, p)[2] = p[2][1] /\ PathOf(Slot(s, p), p[1]) = <<Slot(s, p)[2]>>
      BY <1>1, <2>1, <2>3 DEF PathOf
    <3> QED
      BY <1>2, <2>3, <3>1
  <2> QED
    BY <2>2, <2>3
<1> QED
  BY <1>1, <1>2, <1>3, <1>4, PlaceOf, AtIs

-----------------------------------------------------------------------------
(* What the parts of the operations do to the nodes.                       *)

-----------------------------------------------------------------------------
(* What the parts of the operations do to the nodes.                       *)

\* A slot of both states is renewed.
LEMMA RenewedAt ==
  ASSUME NEW s, Sound(s), NEW t, Sound(t), NEW v \in Var, NEW l \in Slots(s), l \in Slots(t), Reached(s, l, v),
         \A m \in Slots(s) : m \in Slots(t) /\ m # l /\ m # Temporary =>
           \A f \in Content : PointersOf(t, m)[f] = PointersOf(s, m)[f],
         \A b \in DOMAIN s.cells : b \in DOMAIN t.cells => DOMAIN t.cells[b] = DOMAIN s.cells[b]
  PROVE  Kept(t, s, Away(l, v)) /\ Renewed(t, s, l, v)
<1>1. ASSUME l # Variable(v), NEW b \in DOMAIN s.cells, b = l[1] PROVE DOMAIN s.cells[b] \cup {l[2]} = DOMAIN s.cells[b]
  <2>1. l[2] # None
    BY <1>1 DEF Reached
  <2>2. l[2] \in DOMAIN s.cells[b]
    BY <1>1, <2>1, EntryIs DEF Sound
  <2> QED
    BY <2>2
<1>2. \A b \in DOMAIN s.cells : b \in DOMAIN t.cells =>
        DOMAIN t.cells[b] = IF l # Variable(v) /\ b = l[1] THEN DOMAIN s.cells[b] \cup {l[2]} ELSE DOMAIN s.cells[b]
  BY <1>1
<1> QED
  BY <1>2, RenewedIs

\* A slot that is renewed twice is renewed.
LEMMA RenewedTwice ==
  ASSUME NEW s, NEW u, NEW t, NEW v \in Var, NEW l, Renewed(u, s, l, v), Renewed(t, u, l, v)
  PROVE  Renewed(t, s, l, v)
BY DEF Renewed

\* t is s with another temporary value.
Filled(t, s) ==
  /\ Values(t) = Values(s)
  /\ \A l \in Slots(s), v \in Var : Reached(s, l, v) =>
       l \in Slots(t) /\ Reached(t, l, v) /\ Nodes(t, l) = Nodes(s, l) /\ Shape(t, l) = Shape(s, l)

\* A change of the temporary value alone leaves the values.
LEMMA FilledIs ==
  ASSUME NEW s, Sound(s), NEW t, Sound(t),
         \A m \in Slots(s) : m \in Slots(t) /\ (m # Temporary =>
           \A f \in Content : PointersOf(t, m)[f] = PointersOf(s, m)[f]),
         \A b \in DOMAIN s.cells : b \in DOMAIN t.cells /\ DOMAIN t.cells[b] = DOMAIN s.cells[b]
  PROVE  Filled(t, s) /\ Kept(t, s, {Temporary})
<1>1. ASSUME NEW m \in Slots(s), Object(s, m)
      PROVE  DOMAIN t.cells[Owned(s, m, "payload")] = DOMAIN s.cells[Owned(s, m, "payload")]
  BY <1>1, EntriesAre
<1>2. ASSUME NEW m \in Slots(s), NEW n \in Names(s, m) PROVE Entry(s, m, n) \notin {Temporary}
  BY EntryOf
<1>3. Kept(t, s, {Temporary})
  BY <1>1, <1>2, KeptIs
<1>4. \A v \in Var : Nodes(t, Variable(v)) = Nodes(s, Variable(v))
  BY <1>3, SteadyIs DEF Kept
<1>5. ASSUME NEW l \in Slots(s), NEW v \in Var, Reached(s, l, v)
      PROVE  l \in Slots(t) /\ Reached(t, l, v) /\ Nodes(t, l) = Nodes(s, l) /\ Shape(t, l) = Shape(s, l)
  <2>1. /\ "payload" \in Content /\ "comments" \in Content /\ Temporary[2] = None
        /\ Variable(v) \in Slots(s) /\ Variable(v) # Temporary
    BY SteadyIs DEF Content
  <2>2. l # Temporary
    BY <1>5, <2>1 DEF Reached
  <2>3. /\ PointersOf(t, l)["payload"] = PointersOf(s, l)["payload"]
        /\ PointersOf(t, l)["comments"] = PointersOf(s, l)["comments"]
        /\ PointersOf(t, Variable(v))["payload"] = PointersOf(s, Variable(v))["payload"]
    BY <2>1, <2>2
  <2> QED
    BY <1>3, <1>5, <2>2, <2>3 DEF Reached, Object, Owned, Shape, Described, Kept
<1> QED
  BY <1>3, <1>4, <1>5 DEF Filled, Values

\* operator=, swapPayload: the slot gets the nodes of the temporary value, or its payload.
LEMMA ReplacedNodes ==
  ASSUME NEW s, Sound(s), NEW v \in Var, NEW l \in Slots(s), Reached(s, l, v),
         NEW F \in {Content, {"payload"}}, NEW t, NEW T, Replaced(t, s, l, F, T)
  PROVE  /\ Sound(t) /\ Renewed(t, s, l, v)
         /\ F = Content => Nodes(t, l) = Nodes(s, Temporary)
         /\ F = {"payload"} =>
              /\ Names(t, l) = Names(s, Temporary)
              /\ Shape(t, l) = [type |-> Shape(s, Temporary).type, comment |-> Shape(s, l).comment]
<1>1. /\ Temporary \in Slots(s) /\ Variable(v) # Temporary /\ l # Temporary
      /\ "payload" \in Field /\ "comments" \in Field /\ Content \in SUBSET Field /\ "payload" \in F
      /\ F = Content => "comments" \in F
      /\ F = {"payload"} => "comments" \notin F
  BY SteadyIs DEF Reached, Content, Field
<1>2. Sound(t) /\ l \in Slots(t)
  BY DEF Replaced, Steady
<1>3. Kept(t, s, Away(l, v)) /\ Renewed(t, s, l, v)
  <2>1. \A m \in Slots(s) : m \in Slots(t) /\ m # l /\ m # Temporary =>
           \A f \in Content : PointersOf(t, m)[f] = PointersOf(s, m)[f]
    BY <1>1 DEF Replaced
  <2>2. \A b \in DOMAIN s.cells : b \in DOMAIN t.cells => DOMAIN t.cells[b] = DOMAIN s.cells[b]
    BY DEF Replaced
  <2> QED
    BY <1>2, <2>1, <2>2, RenewedAt
<1>4. /\ PointersOf(t, l)["payload"] = PointersOf(s, Temporary)["payload"]
      /\ PointersOf(t, l)["comments"] = IF F = Content THEN PointersOf(s, Temporary)["comments"] ELSE PointersOf(s, l)["comments"]
  BY <1>1, <1>2 DEF Replaced
<1>5. Object(s, Temporary) => DOMAIN t.cells[Owned(s, Temporary, "payload")] = DOMAIN s.cells[Owned(s, Temporary, "payload")]
  <2>1. ASSUME Object(s, Temporary) PROVE Object(t, l) /\ Owned(t, l, "payload") = Owned(s, Temporary, "payload")
    BY <1>4, <2>1 DEF Object, Owned
  <2>2. ASSUME Object(s, Temporary) PROVE Owned(s, Temporary, "payload") \in DOMAIN t.cells
    BY <1>2, <2>1, <2>2, EntriesAre
  <2> QED
    BY <2>2 DEF Replaced
<1>6. /\ Names(t, l) = Names(s, Temporary)
      /\ PointersOf(t, l)["comments"] = PointersOf(s, Temporary)["comments"] => Nodes(t, l) = Nodes(s, Temporary)
  BY <1>1, <1>2, <1>3, <1>4, <1>5, TakenIs
<1>7. F = {"payload"} => F # Content
  BY <1>1
<1> QED
  BY <1>2, <1>3, <1>4, <1>6, <1>7 DEF Shape, Described

\* A constructed value has no members.
LEMMA HoldingNodes ==
  ASSUME NEW s, Steady(s), NEW x \in {"null", "literal", "string", "object"}, NEW t, Holding(t, s, x)
  PROVE  /\ Sound(t) /\ Filled(t, s) /\ Names(t, Temporary) = {}
         /\ Shape(t, Temporary) = [type |-> IF x = "literal" THEN "string" ELSE x, comment |-> FALSE]
<1>1. Sound(s) /\ Sound(t) /\ Temporary \in Slots(t) /\ "payload" \in Field /\ "comments" \in Field /\ Content \in SUBSET Field
  BY SteadyIs DEF Steady, Holding, Content, Field
<1>2. Filled(t, s)
  <2>1. \A m \in Slots(s) : m \in Slots(t) /\ (m # Temporary =>
           \A f \in Content : PointersOf(t, m)[f] = PointersOf(s, m)[f])
    BY <1>1 DEF Holding
  <2>2. \A b \in DOMAIN s.cells : b \in DOMAIN t.cells /\ DOMAIN t.cells[b] = DOMAIN s.cells[b]
    BY DEF Holding
  <2> QED
    BY <1>1, <2>1, <2>2, FilledIs
<1>3. Names(t, Temporary) = {}
  <2>1. CASE x = "object"
    <3>1. Object(t, Temporary) /\ DOMAIN t.cells[Owned(t, Temporary, "payload")] = {}
      BY <2>1 DEF Holding, Object
    <3> QED
      BY <1>1, <3>1, EntriesAre
  <2>2. CASE x # "object"
    BY <2>2 DEF Holding, Names, Object
  <2> QED
    BY <2>1, <2>2
<1>4. Shape(t, Temporary) = [type |-> IF x = "literal" THEN "string" ELSE x, comment |-> FALSE]
  <2>1. PointersOf(t, Temporary)["payload"].kind = x /\ PointersOf(t, Temporary)["comments"].kind # "comment"
    BY <1>1 DEF Holding, Nothing
  <2> QED
    BY <2>1 DEF Shape, Described
<1> QED
  BY <1>1, <1>2, <1>3, <1>4

\* What is moved out of a slot leaves a null value in it.
LEMMA TradedNodes ==
  ASSUME NEW s, Steady(s), NEW v \in Var, NEW l \in Slots(s), Reached(s, l, v),
         NEW t, Traded(t, s, l, Temporary, Content)
  PROVE  /\ Sound(t) /\ Renewed(t, s, l, v)
         /\ Nodes(t, Temporary) = Nodes(s, l) /\ Nodes(t, l) = Semantics!Null
<1>1. /\ Sound(s) /\ Sound(t) /\ Temporary \in Slots(s) /\ Variable(v) # Temporary /\ l # Temporary
      /\ "payload" \in Content /\ "comments" \in Content /\ Content \in SUBSET Field
      /\ DOMAIN t.cells = DOMAIN s.cells /\ Slots(t) = Slots(s)
      /\ \A b \in DOMAIN s.cells : DOMAIN t.cells[b] = DOMAIN s.cells[b]
  BY SteadyIs DEF Steady, Reached, Traded, Alike, Content, Field
<1>2. Kept(t, s, Away(l, v)) /\ Renewed(t, s, l, v)
  <2>1. \A m \in Slots(s) : m \in Slots(t) /\ m # l /\ m # Temporary =>
           \A f \in Content : PointersOf(t, m)[f] = PointersOf(s, m)[f]
    BY <1>1 DEF Traded
  <2> QED
    BY <1>1, <2>1, RenewedAt
<1>3. \A f \in Content : /\ PointersOf(t, Temporary)[f] = PointersOf(s, l)[f]
                         /\ PointersOf(t, l)[f] = Nothing
  BY <1>1 DEF Traded, Steady
<1>4. Nodes(t, Temporary) = Nodes(s, l)
  <2>1. CASE l = Variable(v) \/ l # Variable(v)
    <3>1. Object(s, l) => DOMAIN t.cells[Owned(s, l, "payload")] = DOMAIN s.cells[Owned(s, l, "payload")]
      BY <1>1, EntriesAre
    <3> QED
      BY <1>1, <1>2, <1>3, <3>1, TakenIs
  <2> QED
    BY <2>1
<1>5. Nodes(t, l) = Semantics!Null
  <2>1. Names(t, l) = {} /\ Shape(t, l) = [type |-> "null", comment |-> FALSE]
    <3>1. PointersOf(t, l)["payload"] = Nothing /\ PointersOf(t, l)["comments"] = Nothing
      BY <1>1, <1>3
    <3>2. Nothing.kind = "null"
      BY DEF Nothing
    <3>3. Names(t, l) = {}
      BY <3>1, <3>2 DEF Names, Object
    <3> QED
      BY <3>1, <3>2, <3>3 DEF Shape, Described
  <2> QED
    BY <1>1, <2>1, LeafIs DEF Semantics!Null, Semantics!Leaf
<1> QED
  BY <1>1, <1>2, <1>4, <1>5

\* What is freed leaves the members of a slot, or none.
LEMMA FreedNodes ==
  ASSUME NEW s, Sound(s), NEW v \in Var, NEW l \in Slots(s), Reached(s, l, v),
         NEW F, NEW t, NEW T, FreedFrom(t, s, l, F, T)
  PROVE  /\ Sound(t) /\ Renewed(t, s, l, v)
         /\ "payload" \notin F => /\ Names(t, l) = Names(s, l) /\ Shape(t, l).type = Shape(s, l).type
                                  /\ \A n \in Names(s, l) : Nodes(t, Entry(t, l, n)) = Nodes(s, Entry(s, l, n))
<1>1. /\ Sound(t) /\ l \in Slots(t) /\ Variable(v) # Temporary
      /\ "payload" \in Field /\ "comments" \in Field /\ Content \in SUBSET Field
  BY SteadyIs DEF FreedFrom, Content, Field
<1>2. Kept(t, s, Away(l, v)) /\ Renewed(t, s, l, v)
  <2>1. \A m \in Slots(s) : m \in Slots(t) /\ m # l /\ m # Temporary =>
           \A f \in Content : PointersOf(t, m)[f] = PointersOf(s, m)[f]
    BY <1>1 DEF FreedFrom
  <2>2. \A b \in DOMAIN s.cells : b \in DOMAIN t.cells => DOMAIN t.cells[b] = DOMAIN s.cells[b]
    BY DEF FreedFrom
  <2> QED
    BY <1>1, <2>1, <2>2, RenewedAt
<1>3. ASSUME "payload" \notin F
      PROVE  /\ Names(t, l) = Names(s, l) /\ Shape(t, l).type = Shape(s, l).type
             /\ \A n \in Names(s, l) : Nodes(t, Entry(t, l, n)) = Nodes(s, Entry(s, l, n))
  <2>1. PointersOf(t, l)["payload"] = PointersOf(s, l)["payload"]
    BY <1>1, <1>3 DEF FreedFrom
  <2>2. Shape(t, l).type = Shape(s, l).type
    BY <2>1 DEF Shape, Described
  <2>3. Object(s, l) => DOMAIN t.cells[Owned(s, l, "payload")] = DOMAIN s.cells[Owned(s, l, "payload")]
    <3>1. ASSUME Object(s, l) PROVE Object(t, l) /\ Owned(t, l, "payload") = Owned(s, l, "payload")
      BY <2>1, <3>1 DEF Object, Owned
    <3>2. ASSUME Object(s, l) PROVE Owned(s, l, "payload") \in DOMAIN t.cells
      BY <1>1, <3>1, <3>2, EntriesAre
    <3> QED
      BY <3>2 DEF FreedFrom
  <2>4. l # Variable(v) \/ l = Variable(v)
    OBVIOUS
  <2>5. /\ Names(t, l) = Names(s, l)
        /\ \A n \in Names(s, l) : Nodes(t, Entry(t, l, n)) = Nodes(s, Entry(s, l, n))
    BY <1>1, <1>2, <2>1, <2>3, <2>4, TakenIs
  <2> QED
    BY <2>2, <2>5
<1> QED
  BY <1>1, <1>2, <1>3

\* Slot k of t has the members that slot l of s has.
SameButComment(t, k, s, l) ==
  /\ Names(t, k) = Names(s, l) /\ Shape(t, k).type = Shape(s, l).type
  /\ \A n \in Names(s, l) : Nodes(t, Entry(t, k, n)) = Nodes(s, Entry(s, l, n))

\* What a slot owns is copied to another one: its members have the same nodes.
LEMMA CopiedNodes ==
  ASSUME NEW s, Sound(s), NEW l \in Slots(s), NEW k \in Slots(s), NEW F \in SUBSET Field, "payload" \in F,
         NEW T, T = Tree(s, Owners(s, {l}, F)), NEW copy, NEW t, DuplicatedTo(t, s, l, k, F, T, copy)
  PROVE  SameButComment(t, k, s, l) /\ ("comments" \in F => Nodes(t, k) = Nodes(s, l))
<1> DEFINE K == {<<b, n>> : b \in T, n \in Member}
           of(m) == <<copy[m[1]], m[2]>>
           R == {<<m, of(m)>> : m \in K \cap Slots(s)}
<1>1. /\ Sound(t) /\ k \in Slots(t) /\ "payload" \in Field /\ "comments" \in Field /\ s \in StateType
      /\ T \in SUBSET DOMAIN s.cells /\ Holds(s, l, F, T)
  BY TreeIs DEF DuplicatedTo, Sound, Field
<1>0. \A b \in T : \A n \in DOMAIN s.cells[b] :
         /\ <<copy[b], n>> \in Slots(t)
         /\ \A f \in Field : PointersOf(t, <<copy[b], n>>)[f] = CopyOf(copy, PointersOf(s, <<b, n>>)[f])
  BY DEF DuplicatedTo
<1>2. ASSUME NEW p \in Pointer PROVE CopyOf(copy, p).kind = p.kind /\ (p.kind = "object" => CopyOf(copy, p).ptr = copy[p.ptr])
  BY DEF CopyOf, Owning, Pointer
<1>3. ASSUME NEW x \in Slots(s), NEW y \in Slots(t), Object(s, x) => Owned(s, x, "payload") \in T,
             PointersOf(t, y)["payload"] = CopyOf(copy, PointersOf(s, x)["payload"])
      PROVE  /\ Names(t, y) = Names(s, x) /\ Shape(t, y).type = Shape(s, x).type
             /\ \A n \in Names(s, x) : <<Entry(s, x, n), Entry(t, y, n)>> \in R
  <2>1. PointersOf(s, x)["payload"] \in Pointer
    BY <1>1, SlotsAre DEF SlotType
  <2>2. PointersOf(t, y)["payload"].kind = PointersOf(s, x)["payload"].kind
    BY <1>2, <1>3, <2>1
  <2>3. Shape(t, y).type = Shape(s, x).type
    BY <2>2 DEF Shape, Described
  <2>4. CASE ~Object(s, x)
    BY <2>2, <2>3, <2>4 DEF Object, Names
  <2>5. CASE Object(s, x)
    <3> DEFINE b == Owned(s, x, "payload")
    <3>1. Object(t, y) /\ Owned(t, y, "payload") = copy[b] /\ b \in T
      BY <1>2, <1>3, <2>1, <2>2, <2>5 DEF Object, Owned
    <3>2. DOMAIN t.cells[copy[b]] = DOMAIN s.cells[b]
      BY <3>1 DEF DuplicatedTo
    <3>3. Names(s, x) = DOMAIN s.cells[b] /\ Names(t, y) = DOMAIN t.cells[copy[b]]
      BY <1>1, <2>5, <3>1, EntriesAre
    <3>4. ASSUME NEW n \in Names(s, x) PROVE <<Entry(s, x, n), Entry(t, y, n)>> \in R
      <4>1. Entry(s, x, n) = <<b, n>> /\ Entry(t, y, n) = <<copy[b], n>>
        BY <3>1 DEF Entry
      <4>2. Entry(s, x, n) \in Slots(s) /\ n \in Member
        BY DEF Names
      <4>3. <<b, n>> \in K \cap Slots(s) /\ of(<<b, n>>) = <<copy[b], n>>
        BY <3>1, <4>1, <4>2
      <4> HIDE DEF K, of, b
      <4> QED
        BY <4>1, <4>3
    <3> QED
      BY <2>3, <3>2, <3>3, <3>4
  <2> QED
    BY <2>4, <2>5
<1>4. ASSUME NEW m \in K \cap Slots(s)
      PROVE  /\ of(m) \in Slots(t) /\ Shape(t, of(m)) = Shape(s, m) /\ Names(t, of(m)) = Names(s, m)
             /\ \A n \in Names(s, m) : <<Entry(s, m, n), Entry(t, of(m), n)>> \in R
  <2>1. PICK b \in T, n \in Member : m = <<b, n>>
    OBVIOUS
  <2>2. n # None
    BY MemoryAssumption DEF None
  <2>3. n \in DOMAIN s.cells[b] /\ In(m, T)
    BY <1>1, <2>1, <2>2, EntryIs DEF In
  <2>4. of(m) = <<copy[b], n>>
    BY <2>1
  <2>5. /\ of(m) \in Slots(t)
        /\ \A f \in Field : PointersOf(t, of(m))[f] = CopyOf(copy, PointersOf(s, m)[f])
    <3>1. /\ <<copy[b], n>> \in Slots(t)
          /\ \A f \in Field : PointersOf(t, <<copy[b], n>>)[f] = CopyOf(copy, PointersOf(s, <<b, n>>)[f])
      BY ONLY <1>0, <2>3, b \in T
    <3> HIDE DEF of, K
    <3> QED
      BY ONLY <2>1, <2>4, <3>1
  <2> HIDE DEF R, of, K
  <2>6. Object(s, m) => Owned(s, m, "payload") \in T
    BY <1>1, <2>3, SteadyIs DEF Holds, Object
  <2>7. /\ Names(t, of(m)) = Names(s, m) /\ Shape(t, of(m)).type = Shape(s, m).type
        /\ \A n_1 \in Names(s, m) : <<Entry(s, m, n_1), Entry(t, of(m), n_1)>> \in R
    BY <1>1, <1>3, <2>5, <2>6
  <2>8. Shape(t, of(m)).comment = Shape(s, m).comment
    <3>1. PointersOf(s, m)["comments"] \in Pointer
      BY <1>1, SlotsAre DEF SlotType
    <3>2. PointersOf(t, of(m))["comments"].kind = PointersOf(s, m)["comments"].kind
      BY <1>1, <1>2, <2>5, <3>1
    <3> QED
      BY <3>2 DEF Shape, Described
  <2> QED
    BY <2>5, <2>7, <2>8 DEF Shape, Described
<1>5. AlikeSlots(s, t, R)
  <2>1. \A r \in R : r[1] \in K \cap Slots(s) /\ r[2] = of(r[1])
    <3> HIDE DEF K, of
    <3> QED
      OBVIOUS
  <2>2. R \in SUBSET (Slots(s) \X Slots(t))
    <3> HIDE DEF K, of
    <3> QED
      BY <1>4
  <2> HIDE DEF R, K, of
  <2> QED
    BY <1>4, <2>1, <2>2 DEF AlikeSlots
<1> HIDE DEF R, K, of
<1>6. PointersOf(t, k)["payload"] = CopyOf(copy, PointersOf(s, l)["payload"])
      /\ ("comments" \in F => PointersOf(t, k)["comments"] = CopyOf(copy, PointersOf(s, l)["comments"]))
  BY <1>1 DEF DuplicatedTo
<1>7. Object(s, l) => Owned(s, l, "payload") \in T
  BY <1>1, SteadyIs DEF Holds, Object
<1>8. /\ Names(t, k) = Names(s, l) /\ Shape(t, k).type = Shape(s, l).type
      /\ \A n \in Names(s, l) : <<Entry(s, l, n), Entry(t, k, n)>> \in R
  BY <1>1, <1>3, <1>6, <1>7
<1>9. ASSUME NEW n \in Names(s, l) PROVE Nodes(t, Entry(t, k, n)) = Nodes(s, Entry(s, l, n))
  <2>1. Entry(s, l, n) \in Slots(s) /\ Entry(t, k, n) \in Slots(t)
    BY <1>8 DEF Names
  <2>2. <<Entry(s, l, n), Entry(t, k, n)>> \in R
    BY <1>8
  <2> QED
    BY ONLY Sound(s), <1>1, <1>5, <2>1, <2>2, AlikeNodes
<1>10. ASSUME "comments" \in F PROVE Nodes(t, k) = Nodes(s, l)
  <2>1. PointersOf(s, l)["comments"] \in Pointer
    BY <1>1, SlotsAre DEF SlotType
  <2>2. PointersOf(t, k)["comments"].kind = PointersOf(s, l)["comments"].kind
    BY <1>2, <1>6, <1>10, <2>1
  <2>3. Shape(t, k) = Shape(s, l)
    BY <1>8, <2>2 DEF Shape, Described
  <2> QED
    BY <1>1, <1>8, <1>9, <2>3, SameMembers
<1> QED
  BY <1>8, <1>9, <1>10 DEF SameButComment

\* A new comment leaves the members of a slot.
LEMMA MadeNodes ==
  ASSUME NEW s, Sound(s), NEW v \in Var, NEW l \in Slots(s), Reached(s, l, v),
         NEW b \in Unused(s), NEW t, MadeIn(t, s, l, "comments", "comment", b)
  PROVE  /\ Sound(t) /\ Renewed(t, s, l, v)
         /\ Names(t, l) = Names(s, l) /\ Shape(t, l) = [type |-> Shape(s, l).type, comment |-> TRUE]
         /\ \A n \in Names(s, l) : Nodes(t, Entry(t, l, n)) = Nodes(s, Entry(s, l, n))
<1>1. /\ Sound(t) /\ l \in Slots(t) /\ "payload" \in Field /\ "comments" \in Field /\ Content \in SUBSET Field
      /\ \A c \in DOMAIN s.cells : DOMAIN t.cells[c] = DOMAIN s.cells[c]
  BY DEF MadeIn, Content, Field
<1>2. Kept(t, s, Away(l, v)) /\ Renewed(t, s, l, v)
  <2>1. \A m \in Slots(s) : m \in Slots(t) /\ m # l /\ m # Temporary =>
           \A f \in Content : PointersOf(t, m)[f] = PointersOf(s, m)[f]
    BY <1>1 DEF MadeIn
  <2> QED
    BY <1>1, <2>1, RenewedAt
<1>3. PointersOf(t, l)["payload"] = PointersOf(s, l)["payload"] /\ PointersOf(t, l)["comments"].kind = "comment"
  BY <1>1 DEF MadeIn
<1>4. Object(s, l) => DOMAIN t.cells[Owned(s, l, "payload")] = DOMAIN s.cells[Owned(s, l, "payload")]
  BY <1>1, EntriesAre
<1>5. l # Variable(v) \/ l = Variable(v)
  OBVIOUS
<1>6. /\ Names(t, l) = Names(s, l)
      /\ \A n \in Names(s, l) : Nodes(t, Entry(t, l, n)) = Nodes(s, Entry(s, l, n))
  BY <1>1, <1>2, <1>3, <1>4, <1>5, TakenIs
<1>7. Shape(t, l) = [type |-> Shape(s, l).type, comment |-> TRUE]
  BY <1>3 DEF Shape, Described
<1> QED
  BY <1>1, <1>2, <1>6, <1>7

\* A new member is null.
LEMMA EnteredNodes ==
  ASSUME NEW s, Sound(s), NEW v \in Var, Object(s, Variable(v)), NEW n \in Member,
         NEW t, Entered(t, s, Entry(s, Variable(v), n))
  PROVE  LET l == Entry(s, Variable(v), n) IN
         Sound(t) /\ Reached(s, l, v) /\ Renewed(t, s, l, v) /\ Nodes(t, l) = Semantics!Null
<1> DEFINE l == Entry(s, Variable(v), n)
<1>1. /\ Sound(t) /\ l \in Slots(t) /\ n # None /\ l[2] = n /\ l[1] = Owned(s, Variable(v), "payload")
      /\ l # Variable(v) /\ Content \in SUBSET Field /\ "payload" \in Content /\ "comments" \in Content /\ "key" \notin Content
  BY MemoryAssumption DEF Entered, Steady, Entry, None, Content, Field, Variable
<1>2. Reached(s, l, v)
  BY <1>1 DEF Reached, Entry
<1>3. Entered(t, s, l)
  OBVIOUS
<1> HIDE DEF l
<1>4. Renewed(t, s, l, v)
  <2>1. \A m \in Slots(s) : m \in Slots(t) /\ m # l /\ m # Temporary =>
           \A f \in Content : PointersOf(t, m)[f] = PointersOf(s, m)[f]
    BY <1>1, <1>3 DEF Entered
  <2>2. \A b \in DOMAIN s.cells : b \in DOMAIN t.cells =>
          DOMAIN t.cells[b] = IF l # Variable(v) /\ b = l[1] THEN DOMAIN s.cells[b] \cup {l[2]} ELSE DOMAIN s.cells[b]
    BY <1>1, <1>3 DEF Entered
  <2> QED
    BY <1>1, <1>2, <2>1, <2>2, RenewedIs
<1>5. Nodes(t, l) = Semantics!Null
  <2>1. PointersOf(t, l)["payload"] = Nothing /\ PointersOf(t, l)["comments"] = Nothing
    BY <1>1, <1>3 DEF Entered
  <2>2. Nothing.kind = "null"
    BY DEF Nothing
  <2>3. Names(t, l) = {}
    BY <2>1, <2>2 DEF Names, Object
  <2>4. Shape(t, l) = [type |-> "null", comment |-> FALSE]
    BY <2>1, <2>2 DEF Shape, Described
  <2> QED
    BY <1>1, <2>3, <2>4, LeafIs DEF Semantics!Null, Semantics!Leaf
<1> QED
  BY <1>1, <1>2, <1>4, <1>5 DEF l

\* t is s without the member l of variable v.
Cut(t, s, l, v) ==
  /\ \A w \in Var : w # v => Nodes(t, Variable(w)) = Nodes(s, Variable(w))
  /\ Shape(t, Variable(v)) = Shape(s, Variable(v))
  /\ Names(t, Variable(v)) = Names(s, Variable(v)) \ {l[2]}
  /\ \A n \in Names(t, Variable(v)) : Nodes(t, Entry(t, Variable(v), n)) = Nodes(s, Entry(s, Variable(v), n))

\* A member that is renewed and cut is cut.
LEMMA CutAfter ==
  ASSUME NEW s, NEW u, NEW t, NEW v \in Var, NEW l, l # Variable(v), Renewed(u, s, l, v), Cut(t, u, l, v)
  PROVE  Cut(t, s, l, v)
BY DEF Renewed, Cut

\* An entry that is dropped cuts a member.
LEMMA DroppedNodes ==
  ASSUME NEW s, Sound(s), NEW v \in Var, NEW l \in Slots(s), Reached(s, l, v), l # Variable(v),
         NEW t, DroppedFrom(t, s, l[1], l[2])
  PROVE  Sound(t) /\ Cut(t, s, l, v)
<1> DEFINE V1 == Variable(v)
<1>1. /\ Sound(t) /\ V1 \in Slots(s) /\ V1 \in Slots(t) /\ "payload" \in Field /\ Content \in SUBSET Field
      /\ "payload" \in Content /\ "comments" \in Content
      /\ \A w \in Var : Variable(w) \in Slots(s) /\ Variable(w) \in Slots(t) /\ Variable(w) # Temporary /\ Variable(w) # l
      /\ \A w \in Var : w # v => Variable(w) # V1
  BY SteadyIs DEF DroppedFrom, Content, Field, Variable, Reached
<1>2. l = <<l[1], l[2]>> /\ l[1] = Owned(s, V1, "payload") /\ Object(s, V1)
  BY DEF Reached
<1>3. /\ DOMAIN t.cells = DOMAIN s.cells /\ Slots(t) = Slots(s) \ {l}
      /\ \A c \in DOMAIN s.cells : DOMAIN t.cells[c] = IF c = l[1] THEN DOMAIN s.cells[c] \ {l[2]} ELSE DOMAIN s.cells[c]
      /\ \A m \in Slots(t) : PointersOf(t, m) = PointersOf(s, m)
  BY <1>2 DEF DroppedFrom
<1> HIDE DEF V1
<1>4. ASSUME NEW m \in Slots(s), m # V1, Object(s, m)
      PROVE  DOMAIN t.cells[Owned(s, m, "payload")] = DOMAIN s.cells[Owned(s, m, "payload")]
  <2>1. Owned(s, m, "payload") # l[1] /\ Owned(s, m, "payload") \in DOMAIN s.cells
    <3>1. Owns(s, m, "payload") /\ Owns(s, V1, "payload")
      BY <1>1, <1>2, <1>4, EntriesAre
    <3> QED
      BY <1>1, <1>2, <1>4, <3>1 DEF Sound
  <2> QED
    BY <1>3, <2>1
<1>5. Kept(t, s, Away(l, v))
  <2>1. ASSUME NEW m \in Slots(s), NEW n \in Names(s, m), m \notin Away(l, v) PROVE Entry(s, m, n) \notin Away(l, v)
    BY <2>1, EntryOf DEF Away
  <2>2. \A m \in Slots(s) : m \notin Away(l, v) => m # V1
    BY DEF Away, V1
  <2> QED
    BY <1>1, <1>3, <1>4, <2>1, <2>2, KeptIs
<1>6. /\ Object(t, V1) /\ Owned(t, V1, "payload") = l[1] /\ Shape(t, V1) = Shape(s, V1)
  BY <1>1, <1>2, <1>3 DEF Object, Owned, Shape
<1>7. Names(t, V1) = Names(s, V1) \ {l[2]}
  <2>1. Names(s, V1) = DOMAIN s.cells[l[1]] /\ Names(t, V1) = DOMAIN t.cells[l[1]] /\ l[1] \in DOMAIN s.cells
    BY <1>1, <1>2, <1>6, EntriesAre
  <2> QED
    BY <1>3, <2>1
<1>8. ASSUME NEW n \in Names(t, V1) PROVE Nodes(t, Entry(t, V1, n)) = Nodes(s, Entry(s, V1, n))
  <2>1. Entry(t, V1, n) = Entry(s, V1, n) /\ n \in Names(s, V1) /\ n # l[2]
    BY <1>2, <1>6, <1>7 DEF Entry
  <2>2. Entry(s, V1, n) \in Slots(s) /\ Entry(t, V1, n) \in Slots(t)
    BY <2>1 DEF Names
  <2>3. Entry(s, V1, n) \notin Away(l, v)
    BY <1>1, <2>1, EntryOf DEF Away
  <2> QED
    BY <1>5, <2>1, <2>2, <2>3 DEF Kept
<1>9. ASSUME NEW w \in Var, w # v PROVE Nodes(t, Variable(w)) = Nodes(s, Variable(w))
  BY <1>1, <1>5, <1>9 DEF Kept, Away, V1
<1> QED
  BY <1>1, <1>6, <1>7, <1>8, <1>9 DEF Cut, V1

\* What Without makes of a variable that loses a member.
LEMMA CutValues ==
  ASSUME NEW vs, OnVars(vs), NEW v \in Var, NEW p, p[1] = v
  PROVE  Semantics!Without(vs, p) = [w \in Var |-> IF w = v THEN Outside(p, vs[v]) ELSE vs[w]]
BY DEF Semantics!Without, Outside, OnVars

\* A member that is cut is a place without its value (Without).
LEMMA CutIs ==
  ASSUME NEW s, Sound(s), NEW t, Sound(t), NEW v \in Var, NEW l \in Slots(s), Reached(s, l, v), l # Variable(v), Cut(t, s, l, v)
  PROVE  Values(t) = Semantics!Without(Values(s), <<v, PathOf(l, v)>>)
<1> DEFINE p == <<v, PathOf(l, v)>>
           A == Outside(p, Nodes(s, Variable(v)))
           n == l[2]
           N == Names(s, Variable(v))
           Old(m) == Under(m, Nodes(s, Entry(s, Variable(v), m)))
           New(m) == Under(m, Nodes(t, Entry(t, Variable(v), m)))
           root == << << >>, Shape(s, Variable(v))>>
<1>1. Variable(v) \in Slots(s) /\ Variable(v) \in Slots(t) /\ n \in Member /\ n \in N /\ PathOf(l, v) = <<n>>
  BY SteadyIs, ReachedIs
<1>2. p = <<v, <<n>> >>
  BY <1>1
<1>3. ASSUME NEW x PROVE x \in A <=> x = root \/ \E m \in N : m # n /\ x \in Old(m)
  <2>1. ASSUME NEW m \in N, NEW y \in Old(m) PROVE Semantics!Within(p, y) <=> m = n
    <3>1. m \in Member /\ Entry(s, Variable(v), m) \in Slots(s)
      BY DEF Names
    <3> QED
      BY <1>1, <1>2, <3>1, UnderIs
  <2>2. x \in Nodes(s, Variable(v)) <=> x = root \/ \E m \in N : x \in Old(m)
    BY <1>1, NodeCases
  <2>3. ~Semantics!Within(p, root)
    <3>1. \A d : ~Semantics!Within(<<v, <<n>> >>, << << >>, d>>)
      <4> HIDE DEF n
      <4> QED
        BY <1>1, WithinIs
    <3> QED
      BY ONLY <1>2, <3>1
  <2> HIDE DEF N, p, n, Old, root
  <2> QED
    BY <2>1, <2>2, <2>3 DEF Outside
<1>4. ASSUME NEW x PROVE x \in Nodes(t, Variable(v)) <=> x = root \/ \E m \in N \ {n} : x \in New(m)
  <2>1. Shape(t, Variable(v)) = Shape(s, Variable(v)) /\ Names(t, Variable(v)) = N \ {n}
    BY DEF Cut
  <2> QED
    BY <1>1, <2>1, NodeCases
<1>5. \A m \in N : m # n => New(m) = Old(m)
  BY DEF Cut
<1>6. A = Nodes(t, Variable(v))
  <2> HIDE DEF A, n, N, Old, New, root
  <2> QED
    BY <1>3, <1>4, <1>5
<1>7. Semantics!Without(Values(s), p) = [w \in Var |-> IF w = v THEN A ELSE Nodes(s, Variable(w))]
  <2> DEFINE vs == Values(s)
  <2>1. OnVars(vs) /\ \A w \in Var : vs[w] = Nodes(s, Variable(w))
    BY DEF Values, OnVars
  <2>2. p[1] = v
    OBVIOUS
  <2> HIDE DEF p, vs
  <2>3. Semantics!Without(vs, p) = [w \in Var |-> IF w = v THEN Outside(p, vs[v]) ELSE vs[w]]
    BY <2>1, <2>2, CutValues
  <2> QED
    BY <2>1, <2>3 DEF vs
<1> HIDE DEF A, p
<1>8. Values(t) = [w \in Var |-> IF w = v THEN A ELSE Nodes(s, Variable(w))]
  BY <1>6 DEF Values, Cut
<1> QED
  BY <1>7, <1>8 DEF p

\* Two variables trade their nodes.
LEMMA SwapNodes ==
  ASSUME NEW s, Sound(s), NEW v \in Var, NEW w \in Var, v # w, NEW t, Traded(t, s, Variable(v), Variable(w), Content)
  PROVE  Values(t) = Semantics!Swap(Values(s), v, w)
<1> DEFINE U == {Variable(v), Variable(w)}
<1>1. /\ Sound(t) /\ DOMAIN t.cells = DOMAIN s.cells /\ Slots(t) = Slots(s)
      /\ \A b \in DOMAIN s.cells : DOMAIN t.cells[b] = DOMAIN s.cells[b]
      /\ "payload" \in Content /\ "comments" \in Content /\ Content \in SUBSET Field
      /\ \A z \in Var : Variable(z) \in Slots(s)
      /\ \A z \in Var : (z # v => Variable(z) # Variable(v)) /\ (z # w => Variable(z) # Variable(w))
  BY SteadyIs DEF Traded, Alike, Content, Field, Variable
<1>2. \A m \in Slots(s) : Object(s, m) => DOMAIN t.cells[Owned(s, m, "payload")] = DOMAIN s.cells[Owned(s, m, "payload")]
  BY <1>1, EntriesAre
<1>3. \A m \in Slots(s) : \A n \in Names(s, m) : Entry(s, m, n) \notin U
  BY EntryOf
<1>4. Kept(t, s, U)
  <2>1. \A m \in Slots(s) : m \notin U => \A f \in Content : PointersOf(t, m)[f] = PointersOf(s, m)[f]
    BY <1>1 DEF Traded
  <2> HIDE DEF U
  <2> QED
    BY <1>1, <1>2, <1>3, <2>1, KeptIs
<1>5. ASSUME NEW k \in U, NEW m \in U, k # m PROVE Nodes(t, m) = Nodes(s, k)
  <2>1. k \in Slots(s) /\ m \in Slots(t)
    BY <1>1
  <2>2. \A f \in Content : PointersOf(t, m)[f] = PointersOf(s, k)[f]
    BY <1>1, <1>5 DEF Traded
  <2> HIDE DEF U
  <2>3. /\ Names(t, m) = Names(s, k) /\ Shape(t, m) = Shape(s, k)
        /\ \A n \in Names(s, k) : /\ Entry(t, m, n) = Entry(s, k, n)
                                  /\ Entry(s, k, n) \in Slots(s) /\ Entry(s, k, n) \in Slots(t)
    BY <1>1, <1>2, <2>1, <2>2, PointersAre
  <2>4. \A n \in Names(s, k) : Nodes(t, Entry(t, m, n)) = Nodes(s, Entry(s, k, n))
    BY <1>3, <1>4, <2>1, <2>3 DEF Kept
  <2> QED
    BY <1>1, <2>1, <2>3, <2>4, SameMembers
<1>6. Nodes(t, Variable(v)) = Nodes(s, Variable(w)) /\ Nodes(t, Variable(w)) = Nodes(s, Variable(v))
  BY <1>1, <1>5
<1>7. \A z \in Var : z # v /\ z # w => Nodes(t, Variable(z)) = Nodes(s, Variable(z))
  BY <1>1, <1>4 DEF Kept
<1>8. Semantics!Swap(Values(s), v, w) =
        [z \in Var |-> IF z = v THEN Nodes(s, Variable(w)) ELSE IF z = w THEN Nodes(s, Variable(v)) ELSE Nodes(s, Variable(z))]
  BY DEF Semantics!Swap, Values
<1> QED
  BY <1>6, <1>7, <1>8 DEF Values

-----------------------------------------------------------------------------
(* What the operations do to the values.                                   *)

\* A change of one variable leaves the places of another.
LEMMA OtherStays ==
  ASSUME NEW s, Sound(s), NEW t, Sound(t), NEW v \in Var, NEW l, Renewed(t, s, l, v),
         NEW w \in Var, w # v, NEW k \in Slots(s), Reached(s, k, w), On(t, k, w)
  PROVE  k \in Slots(t) /\ Reached(t, k, w) /\ Nodes(t, k) = Nodes(s, k)
<1> DEFINE W == Variable(w)
           p == <<w, PathOf(k, w)>>
<1>1. W \in Slots(s) /\ W \in Slots(t) /\ k \in Slots(t) /\ Nodes(t, W) = Nodes(s, W)
  BY SteadyIs DEF On, Renewed
<1>2. Reached(t, k, w)
  <2>1. CASE k = W
    BY <2>1 DEF Reached
  <2>2. CASE k # W
    <3>1. Object(s, W) /\ k[2] # None /\ k = <<Owned(s, W, "payload"), k[2]>>
      BY <2>2 DEF Reached
    <3>2. Owned(t, W, "payload") = k[1]
      BY <2>2 DEF On
    <3>3. Shape(t, W) = Shape(s, W)
      BY <1>1, TopIs
    <3>4. Object(t, W)
      BY <3>1, <3>3 DEF Shape, Described, Object
    <3>5. k = <<Owned(t, W, "payload"), k[2]>>
      BY <3>1, <3>2
    <3> QED
      BY <3>1, <3>4, <3>5 DEF Reached
  <2> QED
    BY <2>1, <2>2
<1>3. Semantics!At(Values(t), p) = Semantics!At(Values(s), p)
  <2>1. Values(t)[p[1]] = Values(s)[p[1]]
    BY <1>1 DEF Values
  <2> HIDE DEF p
  <2> QED
    BY <2>1 DEF Semantics!At
<1> QED
  BY <1>1, <1>2, <1>3, AtIs

\* The nodes of a slot that got a comment.
LEMMA CommentedIs ==
  ASSUME NEW s, Sound(s), NEW t, Sound(t), NEW l \in Slots(s), l \in Slots(t),
         Names(t, l) = Names(s, l), Shape(t, l) = [type |-> Shape(s, l).type, comment |-> TRUE],
         \A n \in Names(s, l) : Nodes(t, Entry(t, l, n)) = Nodes(s, Entry(s, l, n))
  PROVE  Nodes(t, l) = Semantics!Commented(Nodes(s, l))
<1> DEFINE C(x) == IF x[1] = << >> THEN <<x[1], [x[2] EXCEPT !.comment = TRUE]>> ELSE x
           X == Nodes(s, l)
           root == << << >>, Shape(s, l)>>
           In2(x) == \E n \in Names(s, l) : x \in Under(n, Nodes(s, Entry(s, l, n)))
<1>1. C(root) = << << >>, Shape(t, l)>>
  <2> DEFINE d == Shape(s, l)
  <2>1. d = [type |-> d.type, comment |-> d.comment]
    BY DEF Shape, Described
  <2> HIDE DEF d
  <2>2. ASSUME NEW z PROVE [d EXCEPT !.comment = z] = [type |-> d.type, comment |-> z]
    BY <2>1
  <2>3. [d EXCEPT !.comment = TRUE] = [type |-> d.type, comment |-> TRUE]
    BY ONLY <2>2, Zenon
  <2> QED
    BY <2>3 DEF d
<1>2. ASSUME NEW x, In2(x) PROVE C(x) = x
  <2>1. PICK n \in Names(s, l) : x \in Under(n, Nodes(s, Entry(s, l, n)))
    BY <1>2
  <2>2. n \in Member /\ Entry(s, l, n) \in Slots(s)
    BY DEF Names
  <2>3. PICK y \in Nodes(s, Entry(s, l, n)) : x = <<Cons(n, y[1]), y[2]>>
    BY <2>1 DEF Under
  <2>4. y[1] \in Seq(Member)
    BY <2>2, NodesArePaths
  <2>5. x[1] # << >>
    BY <2>2, <2>3, <2>4, PathIs
  <2> QED
    BY <2>5
<1>3. \A x : x \in X <=> x = root \/ In2(x)
  BY NodeCases
<1>4. \A x : x \in Nodes(t, l) <=> x = << << >>, Shape(t, l)>> \/ In2(x)
  <2>1. \A x : x \in Nodes(t, l) <=>
           \/ x = << << >>, Shape(t, l)>>
           \/ \E n \in Names(t, l) : x \in Under(n, Nodes(t, Entry(t, l, n)))
    BY NodeCases
  <2>2. \A n \in Names(s, l) : Under(n, Nodes(t, Entry(t, l, n))) = Under(n, Nodes(s, Entry(s, l, n)))
    OBVIOUS
  <2> QED
    BY <2>1, <2>2
<1>5. Semantics!Commented(X) = {C(x) : x \in X}
  BY DEF Semantics!Commented
<1> HIDE DEF C, X, root, In2
<1> QED
  BY <1>1, <1>2, <1>3, <1>4, <1>5 DEF X

\* setComment puts the nodes of the slot with a comment.
LEMMA CommentMeans ==
  ASSUME NEW s, Sound(s), NEW v \in Var, NEW l \in Slots(s), Reached(s, l, v),
         NEW a, NEW U, FreedFrom(a, s, l, {"comments"}, U),
         NEW b \in Unused(a), NEW t, MadeIn(t, a, l, "comments", "comment", b)
  PROVE  Values(t) = Semantics!Put(Values(s), <<v, PathOf(l, v)>>, Semantics!Commented(Nodes(s, l)))
<1>1. /\ Sound(a) /\ Renewed(a, s, l, v) /\ Names(a, l) = Names(s, l) /\ Shape(a, l).type = Shape(s, l).type
      /\ \A n \in Names(s, l) : Nodes(a, Entry(a, l, n)) = Nodes(s, Entry(s, l, n))
  BY FreedNodes
<1>2. l \in Slots(a) /\ Reached(a, l, v)
  BY <1>1 DEF Renewed
<1>3. /\ Sound(t) /\ Renewed(t, a, l, v)
      /\ Names(t, l) = Names(a, l) /\ Shape(t, l) = [type |-> Shape(a, l).type, comment |-> TRUE]
      /\ \A n \in Names(a, l) : Nodes(t, Entry(t, l, n)) = Nodes(a, Entry(a, l, n))
  BY <1>1, <1>2, MadeNodes
<1>4. Renewed(t, s, l, v)
  BY <1>1, <1>3, RenewedTwice
<1>5. l \in Slots(t)
  BY <1>4 DEF Renewed
<1>6. Nodes(t, l) = Semantics!Commented(Nodes(s, l))
  BY <1>1, <1>3, <1>5, CommentedIs
<1> QED
  BY <1>3, <1>4, <1>6, PutIs

TypeOf(x) == IF x = "literal" THEN "string" ELSE x

\* t is s with a constructed value in slot l, or with its payload.
AssignedTo(t, s, l, v, x, F) ==
  /\ F = Content => Values(t) = Semantics!Put(Values(s), <<v, PathOf(l, v)>>, Semantics!Leaf(TypeOf(x), FALSE))
  /\ F # Content =>
       Values(t) = Semantics!Put(Values(s), <<v, PathOf(l, v)>>, Semantics!Leaf(TypeOf(x), Shape(s, l).comment))

\* A constructed value is put to the slot, or its payload is.
LEMMA AssignMeans ==
  ASSUME NEW s, Steady(s), Live(s) <= MaxLive, NEW v \in Var, NEW l, On(s, l, v), l \in Slots(s), Reached(s, l, v),
         NEW x \in {"null", "literal", "string", "object"}, NEW F \in {Content, {"payload"}},
         NEW t, t = Exchange(Constructed(s, x), l, F)
  PROVE  AssignedTo(t, s, l, v, x, F)
<1> DEFINE type == TypeOf(x)
           comment == IF F = Content THEN FALSE ELSE Shape(s, l).comment
<1>1. Sound(s) /\ F \in SUBSET Field
  BY BoundsAre DEF Steady
<1>2. PICK u : \E T : Holding(u, s, x) /\ On(u, l, v) /\ Replaced(t, u, l, F, T)
  BY <1>1, AssignIs
<1>3. /\ Sound(u) /\ Values(u) = Values(s) /\ l \in Slots(u) /\ Reached(u, l, v) /\ Shape(u, l) = Shape(s, l)
      /\ Names(u, Temporary) = {} /\ Shape(u, Temporary) = [type |-> type, comment |-> FALSE]
  BY <1>1, <1>2, HoldingNodes DEF Filled, TypeOf
<1>4. Temporary \in Slots(u) /\ Content # {"payload"}
  BY <1>3, SteadyIs DEF Content
<1>5. /\ Sound(t) /\ Renewed(t, u, l, v)
      /\ F = Content => Nodes(t, l) = Nodes(u, Temporary)
      /\ F = {"payload"} =>
           /\ Names(t, l) = Names(u, Temporary)
           /\ Shape(t, l) = [type |-> Shape(u, Temporary).type, comment |-> Shape(u, l).comment]
  BY <1>2, <1>3, ReplacedNodes
<1>0. type = Shape(u, Temporary).type /\ Shape(u, Temporary) = [type |-> type, comment |-> FALSE]
  BY <1>3
<1>6. Nodes(t, l) = {<< << >>, [type |-> type, comment |-> comment]>>}
  <2>1. l \in Slots(t)
    BY <1>5 DEF Renewed
  <2>2. Nodes(u, Temporary) = {<< << >>, Shape(u, Temporary)>>}
    BY <1>3, <1>4, LeafIs
  <2>3. CASE F = Content
    BY <1>3, <1>5, <2>2, <2>3
  <2>4. CASE F = {"payload"}
    <3>1. Nodes(t, l) = {<< << >>, Shape(t, l)>>}
      BY <1>3, <1>5, <2>1, <2>4, LeafIs
    <3>2. Shape(t, l) = [type |-> type, comment |-> comment]
      <4>1. comment = Shape(s, l).comment
        BY <1>4, <2>4
      <4> HIDE DEF type, comment
      <4> QED
        BY <1>0, <1>3, <1>5, <2>4, <4>1
    <3> QED
      BY <3>1, <3>2
  <2> QED
    BY <2>3, <2>4
<1>7. Values(t) = Semantics!Put(Values(u), <<v, PathOf(l, v)>>, Nodes(t, l))
  BY <1>3, <1>5, PutIs
<1> HIDE DEF type, comment
<1>8. Values(t) = Semantics!Put(Values(s), <<v, PathOf(l, v)>>, Semantics!Leaf(type, comment))
  BY <1>3, <1>6, <1>7 DEF Semantics!Leaf
<1>9. (F = Content => comment = FALSE) /\ (F # Content => comment = Shape(s, l).comment)
  BY DEF comment
<1> QED
  BY <1>8, <1>9 DEF type, AssignedTo

\* A copy of the nodes of another slot is put to the slot.
LEMMA CopyMeans ==
  ASSUME NEW s, Sound(s), NEW v \in Var, NEW l \in Slots(s), Reached(s, l, v), NEW k \in Slots(s),
         NEW T, T = Tree(s, Owners(s, {k}, Content)), NEW copy,
         NEW d, DuplicatedTo(d, s, k, Temporary, Content, T, copy), NEW t, NEW U, Replaced(t, d, l, Content, U)
  PROVE  Values(t) = Semantics!Put(Values(s), <<v, PathOf(l, v)>>, Nodes(s, k))
<1>1. Temporary \in Slots(s) /\ Content \in SUBSET Field /\ "payload" \in Content /\ "comments" \in Content
  BY BoundsAre, SteadyIs DEF Content
<1>2. Sound(d) /\ Filled(d, s)
  <2>1. /\ Sound(d)
        /\ \A m \in Slots(s) : m \in Slots(d) /\ (m # Temporary =>
             \A f \in Content : PointersOf(d, m)[f] = PointersOf(s, m)[f])
        /\ \A b \in DOMAIN s.cells : b \in DOMAIN d.cells /\ DOMAIN d.cells[b] = DOMAIN s.cells[b]
    BY <1>1 DEF DuplicatedTo
  <2> QED
    BY <2>1, FilledIs
<1>3. Nodes(d, Temporary) = Nodes(s, k)
  BY <1>1, CopiedNodes
<1>4. l \in Slots(d) /\ Reached(d, l, v) /\ Values(d) = Values(s)
  BY <1>2 DEF Filled
<1>5. Sound(t) /\ Renewed(t, d, l, v) /\ Nodes(t, l) = Nodes(d, Temporary)
  BY <1>2, <1>4, ReplacedNodes
<1> QED
  BY <1>2, <1>3, <1>4, <1>5, PutIs

\* What moves leaves null, and is put to the slot.
LEMMA MoveMeans ==
  ASSUME NEW s, Sound(s), Steady(s), NEW v \in Var, NEW l, NEW w \in Var, NEW k \in Slots(s), Reached(s, k, w),
         NEW u, Traded(u, s, k, Temporary, Content), Reached(u, l, v), l \in Slots(u),
         NEW t, NEW T, Replaced(t, u, l, Content, T)
  PROVE  Values(t) = Semantics!Put(Semantics!Put(Values(s), <<w, PathOf(k, w)>>, Semantics!Null),
                                   <<v, PathOf(l, v)>>, Nodes(s, k))
<1>1. Sound(u) /\ Renewed(u, s, k, w) /\ Nodes(u, Temporary) = Nodes(s, k) /\ Nodes(u, k) = Semantics!Null
  BY TradedNodes
<1>2. Values(u) = Semantics!Put(Values(s), <<w, PathOf(k, w)>>, Semantics!Null)
  BY <1>1, PutIs
<1>3. Sound(t) /\ Renewed(t, u, l, v) /\ Nodes(t, l) = Nodes(u, Temporary)
  BY <1>1, ReplacedNodes
<1>4. Values(t) = Semantics!Put(Values(u), <<v, PathOf(l, v)>>, Nodes(s, k))
  BY <1>1, <1>3, PutIs
<1> QED
  BY <1>2, <1>4

\* A slot without comments gets those of another one.
LEMMA CommentCopied ==
  ASSUME NEW s, Sound(s), NEW v \in Var, NEW l \in Slots(s), Reached(s, l, v), NEW k \in Slots(s),
         NEW T, NEW copy, NEW t, DuplicatedTo(t, s, k, l, {"comments"}, T, copy), T = Tree(s, Owners(s, {k}, {"comments"}))
  PROVE  /\ Sound(t) /\ Renewed(t, s, l, v) /\ Names(t, l) = Names(s, l)
         /\ Shape(t, l) = [type |-> Shape(s, l).type, comment |-> Shape(s, k).comment]
         /\ \A n \in Names(s, l) : Nodes(t, Entry(t, l, n)) = Nodes(s, Entry(s, l, n))
<1>1. /\ Sound(t) /\ l \in Slots(t) /\ s \in StateType
      /\ \A c \in DOMAIN s.cells : c \in DOMAIN t.cells /\ DOMAIN t.cells[c] = DOMAIN s.cells[c]
      /\ \A m \in Slots(s), f \in Field : PointersOf(t, m)[f] =
           IF m = l /\ f \in {"comments"} THEN CopyOf(copy, PointersOf(s, k)[f]) ELSE PointersOf(s, m)[f]
      /\ "payload" \in Field /\ "comments" \in Field /\ Content \in SUBSET Field
  BY DEF DuplicatedTo, Content, Field, Sound
<1>2. Kept(t, s, Away(l, v)) /\ Renewed(t, s, l, v)
  <2>1. \A m \in Slots(s) : m \in Slots(t) /\ m # l /\ m # Temporary =>
           \A f \in Content : PointersOf(t, m)[f] = PointersOf(s, m)[f]
    BY <1>1
  <2> QED
    BY <1>1, <2>1, RenewedAt
<1>3. /\ PointersOf(t, l)["payload"] = PointersOf(s, l)["payload"]
      /\ PointersOf(t, l)["comments"].kind = PointersOf(s, k)["comments"].kind
  <2>1. PointersOf(s, k)["comments"] \in Pointer
    BY <1>1, SlotsAre DEF SlotType
  <2>2. CopyOf(copy, PointersOf(s, k)["comments"]).kind = PointersOf(s, k)["comments"].kind
    BY <2>1 DEF CopyOf, Pointer
  <2> QED
    BY <1>1, <2>2
<1>4. Object(s, l) => DOMAIN t.cells[Owned(s, l, "payload")] = DOMAIN s.cells[Owned(s, l, "payload")]
  BY <1>1, EntriesAre
<1>5. l # Variable(v) \/ l = Variable(v)
  OBVIOUS
<1>6. /\ Names(t, l) = Names(s, l)
      /\ \A n \in Names(s, l) : Nodes(t, Entry(t, l, n)) = Nodes(s, Entry(s, l, n))
  BY <1>1, <1>2, <1>3, <1>4, <1>5, TakenIs
<1>7. Shape(t, l) = [type |-> Shape(s, l).type, comment |-> Shape(s, k).comment]
  BY <1>3 DEF Shape, Described
<1> QED
  BY <1>1, <1>2, <1>6, <1>7

\* The payload that is copied to a slot renews it.
LEMMA PayloadCopied ==
  ASSUME NEW s, Sound(s), NEW v \in Var, NEW l \in Slots(s), Reached(s, l, v), NEW k \in Slots(s),
         NEW T, NEW copy, NEW t, DuplicatedTo(t, s, k, l, {"payload"}, T, copy), T = Tree(s, Owners(s, {k}, {"payload"}))
  PROVE  Sound(t) /\ Renewed(t, s, l, v) /\ SameButComment(t, l, s, k)
<1>1. /\ Sound(t) /\ l \in Slots(t)
      /\ \A c \in DOMAIN s.cells : c \in DOMAIN t.cells /\ DOMAIN t.cells[c] = DOMAIN s.cells[c]
      /\ \A m \in Slots(s), f \in Field : PointersOf(t, m)[f] =
           IF m = l /\ f \in {"payload"} THEN CopyOf(copy, PointersOf(s, k)[f]) ELSE PointersOf(s, m)[f]
      /\ Content \in SUBSET Field /\ {"payload"} \in SUBSET Field /\ "payload" \in {"payload"}
  BY BoundsAre DEF DuplicatedTo
<1>2. Renewed(t, s, l, v)
  <2>1. \A m \in Slots(s) : m \in Slots(t) /\ m # l /\ m # Temporary =>
           \A f \in Content : PointersOf(t, m)[f] = PointersOf(s, m)[f]
    BY <1>1
  <2> QED
    BY <1>1, <2>1, RenewedAt
<1> QED
  BY <1>1, <1>2, CopiedNodes

\* copy puts the nodes of a slot of another variable: what it frees and copies first
\* leaves that one alone.
LEMMA CopyIntoMeans ==
  ASSUME NEW s, Sound(s), NEW v \in Var, NEW l \in Slots(s), Reached(s, l, v),
         NEW w \in Var, w # v, NEW k \in Slots(s), Reached(s, k, w),
         NEW a, NEW d, PartCopied(d, a, s, l, v, k, w, "payload"),
         NEW b, NEW t, PartCopied(t, b, d, l, v, k, w, "comments")
  PROVE  Values(t) = Semantics!Put(Values(s), <<v, PathOf(l, v)>>, Nodes(s, k))
<1>1. Sound(a) /\ Renewed(a, s, l, v) /\ On(a, k, w)
  <2>1. PICK U : FreedFrom(a, s, l, {"payload"}, U)
    BY DEF PartCopied
  <2>2. On(a, k, w)
    BY DEF PartCopied
  <2> QED
    BY <2>1, <2>2, FreedNodes
<1>2. k \in Slots(a) /\ Reached(a, k, w) /\ Nodes(a, k) = Nodes(s, k) /\ l \in Slots(a) /\ Reached(a, l, v)
  BY <1>1, OtherStays DEF Renewed
<1>3. Sound(d) /\ Renewed(d, a, l, v) /\ SameButComment(d, l, a, k) /\ On(d, k, w)
  <2> DEFINE T == Tree(a, Owners(a, {k}, {"payload"}))
  <2>1. PICK copy : DuplicatedTo(d, a, k, l, {"payload"}, T, copy)
    BY DEF PartCopied
  <2>2. T = Tree(a, Owners(a, {k}, {"payload"})) /\ On(d, k, w)
    BY DEF PartCopied
  <2> HIDE DEF T
  <2> QED
    BY <1>1, <1>2, <2>1, <2>2, PayloadCopied
<1>4. k \in Slots(d) /\ Reached(d, k, w) /\ Nodes(d, k) = Nodes(a, k) /\ l \in Slots(d) /\ Reached(d, l, v)
  BY <1>1, <1>2, <1>3, OtherStays DEF Renewed
<1>5. /\ Sound(b) /\ Renewed(b, d, l, v) /\ On(b, k, w)
      /\ Names(b, l) = Names(d, l) /\ Shape(b, l).type = Shape(d, l).type
      /\ \A n \in Names(d, l) : Nodes(b, Entry(b, l, n)) = Nodes(d, Entry(d, l, n))
  <2>1. PICK U : FreedFrom(b, d, l, {"comments"}, U)
    BY DEF PartCopied
  <2>2. On(b, k, w)
    BY DEF PartCopied
  <2> QED
    BY <1>3, <1>4, <2>1, <2>2, FreedNodes
<1>6. k \in Slots(b) /\ Reached(b, k, w) /\ Nodes(b, k) = Nodes(d, k) /\ l \in Slots(b) /\ Reached(b, l, v)
  BY <1>3, <1>4, <1>5, OtherStays DEF Renewed
<1>7. /\ Sound(t) /\ Renewed(t, b, l, v) /\ Names(t, l) = Names(b, l)
      /\ Shape(t, l) = [type |-> Shape(b, l).type, comment |-> Shape(b, k).comment]
      /\ \A n \in Names(b, l) : Nodes(t, Entry(t, l, n)) = Nodes(b, Entry(b, l, n))
  <2> DEFINE T == Tree(b, Owners(b, {k}, {"comments"}))
  <2>1. PICK copy : DuplicatedTo(t, b, k, l, {"comments"}, T, copy)
    BY DEF PartCopied
  <2>2. T = Tree(b, Owners(b, {k}, {"comments"}))
    OBVIOUS
  <2> HIDE DEF T
  <2> QED
    BY <1>5, <1>6, <2>1, <2>2, CommentCopied
<1>8. Renewed(t, s, l, v) /\ l \in Slots(t)
  <2>1. Renewed(d, s, l, v)
    BY <1>1, <1>3, RenewedTwice
  <2>2. Renewed(b, s, l, v)
    BY <1>5, <2>1, RenewedTwice
  <2>3. Renewed(t, s, l, v)
    BY <1>7, <2>2, RenewedTwice
  <2> QED
    BY <2>3 DEF Renewed
<1>9. Nodes(t, l) = Nodes(a, k)
  <2>1. /\ Names(t, l) = Names(a, k)
        /\ \A n \in Names(a, k) : Nodes(t, Entry(t, l, n)) = Nodes(a, Entry(a, k, n))
    BY <1>3, <1>5, <1>7 DEF SameButComment
  <2>2. Shape(t, l) = Shape(a, k)
    <3>1. Shape(b, k) = Shape(a, k)
      BY <1>1, <1>2, <1>3, <1>4, <1>5, <1>6, TopIs
    <3>2. Shape(b, l).type = Shape(a, k).type
      BY <1>3, <1>5 DEF SameButComment
    <3>3. Shape(a, k) = [type |-> Shape(a, k).type, comment |-> Shape(a, k).comment]
      BY DEF Shape, Described
    <3> QED
      BY <1>7, <3>1, <3>2, <3>3
  <2> QED
    BY <1>1, <1>2, <1>7, <1>8, <2>1, <2>2, SameMembers
<1> QED
  BY <1>2, <1>7, <1>8, <1>9, PutIs

\* A member that is freed and dropped is a place without its value.
LEMMA EraseMeans ==
  ASSUME NEW s, Sound(s), NEW v \in Var, NEW l \in Slots(s), Reached(s, l, v), l # Variable(v),
         NEW a, NEW U, FreedFrom(a, s, l, Field, U), NEW t, DroppedFrom(t, a, l[1], l[2])
  PROVE  Values(t) = Semantics!Without(Values(s), <<v, PathOf(l, v)>>)
<1>1. Sound(a) /\ Renewed(a, s, l, v)
  BY FreedNodes
<1>2. l \in Slots(a) /\ Reached(a, l, v)
  BY <1>1 DEF Renewed
<1>3. Sound(t) /\ Cut(t, a, l, v)
  BY <1>1, <1>2, DroppedNodes
<1>4. Cut(t, s, l, v)
  BY <1>1, <1>3, CutAfter
<1> QED
  BY <1>3, <1>4, CutIs

\* What is put to a member goes with the member.
LEMMA WithoutPut ==
  ASSUME NEW vs, OnVars(vs), NEW v \in Var, NEW n \in Member, NEW p, p[1] = v, p[2] = <<n>>
  PROVE  Semantics!Without(Semantics!Put(vs, p, Semantics!Null), p) = Semantics!Without(vs, p)
<1> DEFINE X == Prefixed(p[2], Semantics!Null)
           A == Outside(p, vs[v])
           ws == Semantics!Put(vs, p, Semantics!Null)
<1>2. ASSUME NEW x \in X PROVE Semantics!Within(p, x)
  <2>1. PICK d : x = << <<n>> \o << >>, d>>
    BY DEF Prefixed, Semantics!Null, Semantics!Leaf
  <2>2. << >> \in Seq(Member) /\ <<n>> \o << >> = Cons(n, << >>)
    BY ConsIs
  <2>3. x[1] = Cons(n, << >>)
    BY <2>1, <2>2
  <2>4. x[1] # << >> /\ Head(x[1]) = n
    BY <2>2, <2>3, PathIs
  <2> QED
    BY <2>4 DEF Semantics!Within
<1>3. Outside(p, A \cup X) = A
  <2> HIDE DEF X
  <2> QED
    BY <1>2 DEF Outside
<1> HIDE DEF X, A
<1>4. ws = [w \in Var |-> IF w = v THEN A \cup X ELSE vs[w]]
  BY PutValues DEF X, A
<1>5. OnVars(ws) /\ ws[v] = A \cup X /\ \A w \in Var : w # v => ws[w] = vs[w]
  <2> HIDE DEF ws
  <2> QED
    BY <1>4 DEF OnVars
<1> HIDE DEF ws
<1>6. Semantics!Without(ws, p) = [w \in Var |-> IF w = v THEN Outside(p, ws[v]) ELSE ws[w]]
  <2>1. OnVars(ws)
    BY <1>5
  <2> QED
    BY ONLY <2>1, v \in Var, p[1] = v, CutValues
<1>7. Semantics!Without(vs, p) = [w \in Var |-> IF w = v THEN A ELSE vs[w]]
  BY CutValues DEF A
<1>8. Semantics!Without(ws, p) = Semantics!Without(vs, p)
  BY <1>3, <1>5, <1>6, <1>7
<1> QED
  BY <1>8 DEF ws

\* What is put to another variable may be put later.
LEMMA WithoutOther ==
  ASSUME NEW vs, OnVars(vs), NEW v \in Var, NEW w \in Var, v # w, NEW p, p[1] = v, NEW q, q[1] = w, NEW X
  PROVE  Semantics!Without(Semantics!Put(vs, q, X), p) = Semantics!Put(Semantics!Without(vs, p), q, X)
<1> DEFINE a == Semantics!Put(vs, q, X)
           b == Semantics!Without(vs, p)
<1>1. a = [z \in Var |-> IF z = w THEN Outside(q, vs[w]) \cup Prefixed(q[2], X) ELSE vs[z]]
  BY PutValues
<1>2. b = [z \in Var |-> IF z = v THEN Outside(p, vs[v]) ELSE vs[z]]
  BY CutValues
<1> HIDE DEF a, b
<1>3. OnVars(a) /\ OnVars(b)
  BY <1>1, <1>2 DEF OnVars
<1>4. Semantics!Without(a, p) = [z \in Var |-> IF z = v THEN Outside(p, a[v]) ELSE a[z]]
  BY <1>3, CutValues
<1>5. Semantics!Put(b, q, X) = [z \in Var |-> IF z = w THEN Outside(q, b[w]) \cup Prefixed(q[2], X) ELSE b[z]]
  BY <1>3, PutValues
<1>6. a[v] = vs[v] /\ b[w] = vs[w]
  BY <1>1, <1>2
<1> DEFINE P == Outside(p, vs[v])
           Q == Outside(q, vs[w]) \cup Prefixed(q[2], X)
           both == [z \in Var |-> IF z = v THEN P ELSE IF z = w THEN Q ELSE vs[z]]
<1>7. Semantics!Without(a, p) = both /\ Semantics!Put(b, q, X) = both
  <2>1. \A z \in Var : (z # v => a[z] = IF z = w THEN Q ELSE vs[z]) /\ (z # w => b[z] = IF z = v THEN P ELSE vs[z])
    BY <1>1, <1>2
  <2>2. Outside(p, a[v]) = P /\ Outside(q, b[w]) \cup Prefixed(q[2], X) = Q
    BY <1>6
  <2> HIDE DEF P, Q
  <2>3. Semantics!Without(a, p) = both
    BY <1>4, <2>1, <2>2
  <2>4. Semantics!Put(b, q, X) = both
    BY <1>5, <2>1, <2>2
  <2> QED
    BY <2>3, <2>4
<1> QED
  BY <1>7 DEF a, b

\* removeMember moves the nodes of the member to a variable and takes it out.
LEMMA RemoveMeans ==
  ASSUME NEW s, Sound(s), Steady(s), NEW v \in Var, NEW l \in Slots(s), Reached(s, l, v), l # Variable(v),
         NEW w \in Var, v # w, NEW u, Traded(u, s, l, Temporary, Content),
         NEW a, NEW T, Replaced(a, u, Variable(w), Content, T), On(a, l, v),
         NEW e, NEW U, FreedFrom(e, a, l, Field, U), NEW t, DroppedFrom(t, e, l[1], l[2])
  PROVE  Values(t) = Semantics!Put(Semantics!Without(Values(s), <<v, PathOf(l, v)>>), <<w, << >> >>, Nodes(s, l))
<1> DEFINE p == <<v, PathOf(l, v)>>
           q == <<w, << >> >>
           X == Nodes(s, l)
           vs == Values(s)
<1>1. Sound(u) /\ Renewed(u, s, l, v) /\ l \in Slots(u) /\ Reached(u, l, v)
  BY TradedNodes DEF Renewed
<1>2. Variable(w) \in Slots(u) /\ Reached(u, Variable(w), w) /\ PathOf(Variable(w), w) = << >>
  BY <1>1, SteadyIs DEF Reached, PathOf
<1>3. Sound(a) /\ Renewed(a, u, Variable(w), w)
  BY <1>1, <1>2, ReplacedNodes
<1>4. l \in Slots(a) /\ Reached(a, l, v)
  BY <1>1, <1>3, OtherStays
<1>5. Values(a) = Semantics!Put(Semantics!Put(vs, p, Semantics!Null), q, X)
  BY <1>1, <1>2, MoveMeans
<1>6. Values(t) = Semantics!Without(Values(a), p)
  BY <1>3, <1>4, EraseMeans
<1>7. l[2] \in Member /\ p[1] = v /\ p[2] = <<l[2]>> /\ q[1] = w
  BY ReachedIs
<1>8. OnVars(vs)
  BY DEF Values, OnVars
<1> DEFINE ws == Semantics!Put(vs, p, Semantics!Null)
<1>9. OnVars(ws)
  <2> HIDE DEF p, vs
  <2>1. Semantics!Put(vs, p, Semantics!Null) =
          [z \in Var |-> IF z = v THEN Outside(p, vs[v]) \cup Prefixed(p[2], Semantics!Null) ELSE vs[z]]
    BY <1>7, <1>8, PutValues
  <2> HIDE DEF ws
  <2>2. ws = [z \in Var |-> IF z = v THEN Outside(p, vs[v]) \cup Prefixed(p[2], Semantics!Null) ELSE vs[z]]
    BY <2>1 DEF ws
  <2> QED
    BY <2>2 DEF OnVars
<1> HIDE DEF p, q, X, vs
<1>10. Semantics!Without(ws, p) = Semantics!Without(vs, p)
  BY <1>7, <1>8, WithoutPut
<1> HIDE DEF ws
<1>11. Semantics!Without(Semantics!Put(ws, q, X), p) = Semantics!Put(Semantics!Without(ws, p), q, X)
  BY <1>7, <1>9, WithoutOther
<1>12. Values(t) = Semantics!Put(Semantics!Without(vs, p), q, X)
  BY <1>5, <1>6, <1>10, <1>11 DEF ws
<1> QED
  BY <1>12 DEF p, q, X, vs

\* A new member is null, and is where its name says.
LEMMA EnterMeans ==
  ASSUME NEW u, Sound(u), NEW v \in Var, Object(u, Variable(v)), NEW n \in Member,
         NEW t, Entered(t, u, Entry(u, Variable(v), n))
  PROVE  Values(t) = Semantics!Reference(Values(u), <<v, <<n>> >>)
<1> DEFINE l == Entry(u, Variable(v), n)
           p == <<v, <<n>> >>
<1>1. Sound(t) /\ Reached(u, l, v) /\ Renewed(t, u, l, v) /\ Nodes(t, l) = Semantics!Null
  BY EnteredNodes
<1>2. l # Variable(v) /\ l[2] = n /\ n # None
  BY MemoryAssumption DEF Entry, Variable, None
<1>3. PathOf(l, v) = <<n>>
  BY <1>2 DEF PathOf
<1>4. Values(t) = Semantics!Put(Values(u), p, Semantics!Null)
  <2> HIDE DEF l
  <2> QED
    BY <1>1, <1>3, PutIs
<1>5. p \notin Semantics!Places(Values(u))
  <2> SUFFICES ASSUME p \in Semantics!Places(Values(u)) PROVE FALSE
    OBVIOUS
  <2>1. PICK x \in Values(u)[v] : x[1] = <<n>>
    BY DEF Semantics!Places
  <2>2. Values(u)[v] = Nodes(u, Variable(v)) /\ Variable(v) \in Slots(u)
    BY SteadyIs DEF Values
  <2>3. x = <<x[1], x[2]>>
    BY <2>2, NodesArePaths
  <2>4. <<n>> = Cons(n, << >>) /\ << >> \in Seq(Member)
    BY ConsIs
  <2>5. <<Cons(n, << >>), x[2]>> \in Nodes(u, Variable(v))
    BY <2>1, <2>2, <2>3, <2>4
  <2>6. n \in Names(u, Variable(v))
    BY <2>2, <2>4, <2>5, MemberNodeIs
  <2>7. l \in Slots(u)
    BY <2>6 DEF Names
  <2> QED
    BY <2>7 DEF Entered
<1> HIDE DEF l, p
<1>6. Values(t) = Semantics!Reference(Values(u), p)
  BY <1>4, <1>5 DEF Semantics!Reference
<1> QED
  BY <1>6 DEF p

-----------------------------------------------------------------------------
(* Each operation is a step of the values.                                 *)

\* t is a step of the values away from s.
Meant(s, t) == Semantics!Step(Values(s), Values(t))

\* The steps of the values, each as what it puts.
LEMMA MeantIs ==
  ASSUME NEW s, Sound(s), NEW t, NEW p \in Places(s)
  PROVE  LET X == Nodes(s, Slot(s, p)) IN
         /\ Values(t) = Semantics!Put(Values(s), p, Semantics!Commented(X)) => Meant(s, t)
         /\ \A q \in Places(s) : Values(t) = Semantics!Put(Values(s), q, X)
                                 \/ Values(t) = Semantics!Put(Semantics!Put(Values(s), p, Semantics!Null), q, X) => Meant(s, t)
         /\ p[2] # << >> /\ Values(t) = Semantics!Without(Values(s), p) => Meant(s, t)
         /\ \A w \in Var : p[2] # << >> /\ Values(t) = Semantics!Put(Semantics!Without(Values(s), p), <<w, << >> >>, X) => Meant(s, t)
<1> DEFINE X == Nodes(s, Slot(s, p))
           vs == Values(s)
<1>1. p \in Semantics!Places(vs) /\ Semantics!At(vs, p) = X /\ \A q \in Places(s) : q \in Semantics!Places(vs)
  BY SlotOf
<1> HIDE DEF X, vs
<1>2. Semantics!Transferred(vs, Values(t), p, X) => Meant(s, t)
  BY <1>1 DEF Meant, Semantics!Step, vs
<1>3. /\ Values(t) = Semantics!Put(vs, p, Semantics!Commented(X)) => Meant(s, t)
      /\ \A q \in Places(s) : Values(t) = Semantics!Put(vs, q, X)
                              \/ Values(t) = Semantics!Put(Semantics!Put(vs, p, Semantics!Null), q, X) => Meant(s, t)
      /\ p[2] # << >> /\ Values(t) = Semantics!Without(vs, p) => Meant(s, t)
      /\ \A w \in Var : p[2] # << >> /\ Values(t) = Semantics!Put(Semantics!Without(vs, p), <<w, << >> >>, X) => Meant(s, t)
  BY <1>1, <1>2 DEF Semantics!Transferred
<1> QED
  BY <1>3 DEF X, vs

\* p = Value(x) and swapPayload are Set and SetPayload.
LEMMA AssignStep ==
  ASSUME NEW s, Steady(s), Live(s) <= MaxLive, NEW p \in Places(s),
         NEW x \in {"null", "literal", "string", "object"}, NEW F \in {Content, {"payload"}},
         NEW t, t = Exchange(Constructed(s, x), Slot(s, p), F)
  PROVE  Meant(s, t) /\ (F = Content => Values(t) = Semantics!Set(Values(s), p, TypeOf(x)))
<1> DEFINE l == Slot(s, p)
           vs == Values(s)
<1>1. Sound(s) /\ TypeOf(x) \in Semantics!Type
  BY DEF Steady, Semantics!Type, TypeOf
<1>2. /\ p[1] \in Var /\ On(s, l, p[1]) /\ l \in Slots(s) /\ Reached(s, l, p[1])
      /\ p = <<p[1], PathOf(l, p[1])>>
      /\ p \in Semantics!Places(vs) /\ Semantics!At(vs, p) = Nodes(s, l)
  BY <1>1, SlotOf
<1>3. /\ F = Content => Values(t) = Semantics!Put(vs, p, Semantics!Leaf(TypeOf(x), FALSE))
      /\ F # Content => Values(t) = Semantics!Put(vs, p, Semantics!Leaf(TypeOf(x), Shape(s, l).comment))
  <2> DEFINE v == p[1]
  <2>1. t = Exchange(Constructed(s, x), l, F)
    OBVIOUS
  <2>2. v \in Var /\ On(s, l, v) /\ l \in Slots(s) /\ Reached(s, l, v)
    BY <1>2
  <2>3. p = <<v, PathOf(l, v)>>
    BY <1>2
  <2> HIDE DEF l, v
  <2>4. AssignedTo(t, s, l, v, x, F)
    BY <2>1, <2>2, AssignMeans
  <2> QED
    BY <2>3, <2>4 DEF AssignedTo
<1>5. Semantics!Top(Semantics!At(vs, p)) = Shape(s, l)
  BY <1>1, <1>2, TopIs
<1> HIDE DEF l, vs
<1>6. CASE F = Content
  <2>1. Values(t) = Semantics!Set(vs, p, TypeOf(x))
    BY <1>3, <1>6 DEF Semantics!Set
  <2>2. Semantics!Step(vs, Values(t))
    BY <1>1, <1>2, <2>1 DEF Semantics!Step
  <2> QED
    BY <2>1, <2>2 DEF Meant, vs
<1>7. CASE F # Content
  <2>1. Values(t) = Semantics!SetPayload(vs, p, TypeOf(x))
    BY <1>3, <1>5, <1>7 DEF Semantics!SetPayload
  <2>2. Semantics!Step(vs, Values(t))
    BY <1>1, <1>2, <2>1 DEF Semantics!Step
  <2> QED
    BY <1>7, <2>2 DEF Meant, vs
<1> QED
  BY <1>6, <1>7

\* v[n] is a reference to a member of an object, which is made of null.
LEMMA ReferenceStep ==
  ASSUME NEW s, Steady(s), Live(s) <= MaxLive, NEW v \in Var, NEW n \in Member,
         NEW policy \in {"noDuplication", "duplicateOnCopy"},
         NEW kind, kind = PointersOf(s, Variable(v))["payload"].kind, kind \in {"null", "object"},
         NEW u, u = IF kind = "null" THEN Exchange(Constructed(s, "object"), Variable(v), Content) ELSE s,
         NEW t, t = IF <<v, <<n>> >> \in Places(u) THEN u ELSE Inserted(u, Slot(u, <<v, <<n>> >>), policy)
  PROVE  Meant(s, t)
<1> DEFINE p == <<v, <<n>> >>
           vs == Values(s)
<1>1. Sound(s) /\ Variable(v) \in Slots(s)
  BY SteadyIs DEF Steady
<1>2. /\ Steady(u) /\ PointersOf(u, Variable(v))["payload"].kind = "object"
      /\ p \in Places(u) \/ Entered(Inserted(u, Slot(u, p), policy), u, Slot(u, p))
  BY ReferenceIs
<1>3. Semantics!Top(vs[v]) = Shape(s, Variable(v)) /\ Shape(s, Variable(v)).type = kind
  <2>1. vs[v] = Nodes(s, Variable(v))
    BY DEF Values
  <2>2. Shape(s, Variable(v)).type = kind
    BY DEF Shape, Described
  <2> QED
    BY <1>1, <2>1, <2>2, TopIs
<1>4. Values(u) = Semantics!AsObject(vs, v)
  <2>1. CASE kind = "null"
    <3> DEFINE q == <<v, << >> >>
    <3>1. q \in Places(s) /\ Slot(s, q) = Variable(v)
      BY DEF Places, V!Place, Slot
    <3>2. u = Exchange(Constructed(s, "object"), Slot(s, q), Content)
      BY <2>1, <3>1
    <3>3. Values(u) = Semantics!Set(vs, q, "object")
      <4> HIDE DEF q
      <4> QED
        BY <3>1, <3>2, AssignStep DEF TypeOf
    <3> QED
      BY <1>3, <2>1, <3>3 DEF Semantics!AsObject
  <2>2. CASE kind # "null"
    BY <1>3, <2>2 DEF Semantics!AsObject
  <2> QED
    BY <2>1, <2>2
<1>5. Values(t) = Semantics!Reference(Values(u), p)
  <2>1. CASE p \in Places(u)
    <3>1. p \in Semantics!Places(Values(u)) /\ t = u
      BY <1>2, <2>1, SlotOf DEF Steady
    <3> QED
      BY <3>1 DEF Semantics!Reference
  <2>2. CASE p \notin Places(u)
    <3>1. Sound(u) /\ Object(u, Variable(v)) /\ Entered(t, u, Slot(u, p))
      BY <1>2, <2>2 DEF Object, Steady
    <3>2. Slot(u, p) = Entry(u, Variable(v), n)
      <4>1. u.vars[v] = PointersOf(u, Variable(v))
        BY DEF PointersOf, Variable
      <4> QED
        BY <4>1 DEF Slot, Entry, Owned
    <3>3. Entered(t, u, Entry(u, Variable(v), n))
      BY <3>1, <3>2
    <3> QED
      BY ONLY <3>1, <3>3, v \in Var, n \in Member, EnterMeans
  <2> QED
    BY <2>1, <2>2
<1>6. Semantics!Top(vs[v]).type # "string"
  BY <1>3
<1> HIDE DEF p, vs
<1>7. Semantics!Step(vs, Values(t))
  <2>1. Values(t) = Semantics!Reference(Semantics!AsObject(vs, v), <<v, <<n>> >>)
    BY <1>4, <1>5 DEF p
  <2> QED
    BY <1>6, <2>1 DEF Semantics!Step
<1> QED
  BY <1>7 DEF Meant, vs

\* setComment is Commented.
LEMMA CommentStep ==
  ASSUME NEW s, Steady(s), Live(s) <= MaxLive, NEW p \in Places(s), NEW l, l = Slot(s, p),
         NEW a, a = Freed(s, l, {"comments"}), NEW t, t = Make(a, l, "comments", "comment")
  PROVE  Meant(s, t)
<1> DEFINE v == p[1]
<1>1. Sound(s) /\ v \in Var /\ On(s, l, v) /\ l \in Slots(s) /\ Reached(s, l, v)
  BY SlotOf DEF Steady
<1>2. p = <<v, PathOf(l, v)>>
  BY <1>1, SlotOf
<1> HIDE DEF v
<1>3. (\E U : FreedFrom(a, s, l, {"comments"}, U)) /\ \E b \in Unused(a) : MadeIn(t, a, l, "comments", "comment", b)
  BY <1>1, CommentIs
<1>4. PICK U : FreedFrom(a, s, l, {"comments"}, U)
  BY <1>3
<1>5. PICK b \in Unused(a) : MadeIn(t, a, l, "comments", "comment", b)
  BY <1>3
<1>6. Values(t) = Semantics!Put(Values(s), <<v, PathOf(l, v)>>, Semantics!Commented(Nodes(s, l)))
  BY ONLY <1>1, <1>4, <1>5, CommentMeans
<1> QED
  BY <1>1, <1>2, <1>6, MeantIs

\* p = q is Put of what is at q.
LEMMA CopyStep ==
  ASSUME NEW s, Steady(s), Live(s) <= MaxLive, NEW p \in Places(s), NEW q \in Places(s),
         NEW l, l = Slot(s, p), NEW k, k = Slot(s, q),
         NEW d, d = Duplicated(s, k, Temporary, Content), NEW t, t = Exchange(d, l, Content)
  PROVE  Meant(s, t)
<1> DEFINE v == p[1]
           T == Tree(s, Owners(s, {k}, Content))
<1>1. Sound(s) /\ v \in Var /\ On(s, l, v) /\ l \in Slots(s) /\ Reached(s, l, v) /\ k \in Slots(s)
  BY SlotOf DEF Steady
<1>2. p = <<v, PathOf(l, v)>>
  BY <1>1, SlotOf
<1>0. T = Tree(s, Owners(s, {k}, Content))
  OBVIOUS
<1> HIDE DEF v
<1>3. (\E copy \in Injection(T, Unused(s)) : DuplicatedTo(d, s, k, Temporary, Content, T, copy))
      /\ \E U : Replaced(t, d, l, Content, U)
  BY <1>1, CopyIs
<1>4. PICK copy : DuplicatedTo(d, s, k, Temporary, Content, T, copy)
  BY <1>3
<1>5. PICK U : Replaced(t, d, l, Content, U)
  BY <1>3
<1> HIDE DEF T
<1>6. Values(t) = Semantics!Put(Values(s), <<v, PathOf(l, v)>>, Nodes(s, k))
  BY ONLY <1>0, <1>1, <1>4, <1>5, CopyMeans
<1> QED
  BY <1>1, <1>2, <1>6, MeantIs

\* p = std::move(q) is Put of null, and of what was at q.
LEMMA MoveStep ==
  ASSUME NEW s, Steady(s), NEW p \in Places(s), NEW q \in Places(s), ~(p[1] = q[1] /\ p[2] # << >> /\ q[2] = << >>),
         NEW l, l = Slot(s, p), NEW k, k = Slot(s, q),
         NEW u, u = MoveConstructed(s, k), NEW t, t = Exchange(u, l, Content)
  PROVE  Meant(s, t)
<1> DEFINE v == p[1]
           w == q[1]
<1>1. /\ Sound(s) /\ v \in Var /\ On(s, l, v) /\ l \in Slots(s) /\ Reached(s, l, v)
      /\ w \in Var /\ On(s, k, w) /\ k \in Slots(s) /\ Reached(s, k, w)
  BY SlotOf DEF Steady
<1>2. p = <<v, PathOf(l, v)>> /\ q = <<w, PathOf(k, w)>>
  BY <1>1, SlotOf
<1>3. l = Variable(v) \/ k # Variable(v)
  <2>1. (p[2] = << >> => l = Variable(v)) /\ (q[2] # << >> => k[2] # None)
        /\ (q[2] = << >> => k = Variable(w))
    BY <1>1, PlaceIs
  <2> QED
    BY <2>1 DEF Variable
<1> HIDE DEF v, w
<1>4. Traded(u, s, k, Temporary, Content) /\ On(u, l, v) /\ \E T : Replaced(t, u, l, Content, T)
  BY <1>1, <1>3, MoveIs
<1>5. PICK T : Replaced(t, u, l, Content, T)
  BY <1>4
<1>6. l \in Slots(u) /\ Reached(u, l, v)
  <2>1. Sound(u) /\ Renewed(u, s, k, w)
    BY <1>1, <1>4, TradedNodes
  <2>2. CASE w # v
    BY <1>1, <1>4, <2>1, <2>2, OtherStays
  <2>3. CASE w = v
    <3>1. CASE l = Variable(v)
      BY <1>4, <3>1 DEF Reached, On
    <3>2. CASE l # Variable(v)
      <4>1. k # Variable(v) /\ Object(s, Variable(v)) /\ l[2] # None /\ l = <<Owned(s, Variable(v), "payload"), l[2]>>
        BY <1>1, <1>3, <3>2 DEF Reached
      <4>2. Shape(u, Variable(v)) = Shape(s, Variable(v))
        BY <2>1, <2>3, <4>1 DEF Renewed
      <4>3. Object(u, Variable(v))
        BY <4>1, <4>2 DEF Shape, Described, Object
      <4>4. Owned(u, Variable(v), "payload") = l[1] /\ l \in Slots(u)
        BY <1>4, <3>2 DEF On
      <4>5. l = <<Owned(u, Variable(v), "payload"), l[2]>>
        BY <4>1, <4>4
      <4> QED
        BY <4>1, <4>3, <4>4, <4>5 DEF Reached
    <3> QED
      BY <3>1, <3>2
  <2> QED
    BY <2>2, <2>3
<1>7. Values(t) = Semantics!Put(Semantics!Put(Values(s), <<w, PathOf(k, w)>>, Semantics!Null),
                                <<v, PathOf(l, v)>>, Nodes(s, k))
  BY ONLY <1>1, <1>4, <1>5, <1>6, Steady(s), MoveMeans
<1> QED
  BY <1>1, <1>2, <1>7, MeantIs

\* copy is Put of what is at q.
LEMMA CopyIntoStep ==
  ASSUME NEW s, Steady(s), Live(s) <= MaxLive, NEW p \in Places(s), NEW q \in Places(s), p[1] # q[1],
         NEW l, l = Slot(s, p), NEW k, k = Slot(s, q),
         NEW a, a = Freed(s, l, {"payload"}), NEW d, d = Duplicated(a, k, l, {"payload"}),
         NEW b, b = Freed(d, l, {"comments"}), NEW t, t = Duplicated(b, k, l, {"comments"})
  PROVE  Meant(s, t)
<1> DEFINE v == p[1]
           w == q[1]
<1>1. /\ Sound(s) /\ v \in Var /\ On(s, l, v) /\ l \in Slots(s) /\ Reached(s, l, v)
      /\ w \in Var /\ w # v /\ On(s, k, w) /\ k \in Slots(s) /\ Reached(s, k, w)
  BY SlotOf DEF Steady
<1>2. p = <<v, PathOf(l, v)>>
  BY <1>1, SlotOf
<1> HIDE DEF v, w
<1>3. "payload" \in Content /\ "comments" \in Content /\ Live(s) \in Nat
      /\ 2 * Live(s) <= Cardinality(Buffer)
  BY <1>1, SteadyIs, BoundsAre DEF Content
<1>4. PartCopied(d, a, s, l, v, k, w, "payload")
  BY <1>1, <1>3, CopiedPartIs
<1>5. Steady(d) /\ Live(d) <= 2 * Live(s) /\ On(d, l, v) /\ On(d, k, w)
  BY <1>4 DEF PartCopied
<1>6. 2 * Live(d) <= Cardinality(Buffer)
  <2>1. Live(d) \in Nat
    BY <1>5, SteadyIs DEF Steady
  <2> QED
    BY <1>3, <1>5, <2>1, BoundsAre
<1>7. PartCopied(t, b, d, l, v, k, w, "comments")
  BY <1>1, <1>3, <1>5, <1>6, CopiedPartIs
<1>8. Values(t) = Semantics!Put(Values(s), <<v, PathOf(l, v)>>, Nodes(s, k))
  BY ONLY <1>1, <1>4, <1>7, CopyIntoMeans
<1> QED
  BY <1>1, <1>2, <1>8, MeantIs

\* The slot of a member is not that of its variable.
LEMMA MemberSlot ==
  ASSUME NEW s, Sound(s), NEW p \in Places(s), p[2] # << >>, NEW l, l = Slot(s, p)
  PROVE  p[1] \in Var /\ On(s, l, p[1]) /\ l \in Slots(s) /\ Reached(s, l, p[1]) /\ l # Variable(p[1])
BY SlotOf, PlaceIs DEF Variable

\* removeMember(n, &w) is Without, and Put of what was there.
LEMMA RemoveStep ==
  ASSUME NEW s, Steady(s), NEW p \in Places(s), p[2] # << >>, NEW w \in Var, p[1] # w, NEW l, l = Slot(s, p),
         NEW u, u = MoveConstructed(s, l), NEW a, a = Exchange(u, Variable(w), Content), NEW t, t = Erased(a, l)
  PROVE  Meant(s, t)
<1> DEFINE v == p[1]
<1>1. Sound(s) /\ v \in Var /\ v # w /\ On(s, l, v) /\ l \in Slots(s) /\ Reached(s, l, v) /\ l # Variable(v)
  BY MemberSlot DEF Steady
<1>2. p = <<v, PathOf(l, v)>>
  BY <1>1, SlotOf
<1> HIDE DEF v
<1>3. Traded(u, s, l, Temporary, Content) /\ On(a, l, v) /\ \E T : Replaced(a, u, Variable(w), Content, T)
  BY <1>1, RemovedIs
<1>4. PICK T : Replaced(a, u, Variable(w), Content, T)
  BY <1>3
<1>5. \E e : /\ \E U : FreedFrom(e, a, l, Field, U)
             /\ DroppedFrom(t, e, l[1], l[2])
  BY <1>1, <1>3, <1>4, ErasedIs DEF Replaced
<1>6. PICK e : (\E U : FreedFrom(e, a, l, Field, U)) /\ DroppedFrom(t, e, l[1], l[2])
  BY <1>5
<1>7. PICK U : FreedFrom(e, a, l, Field, U)
  BY <1>6
<1>8. Values(t) = Semantics!Put(Semantics!Without(Values(s), <<v, PathOf(l, v)>>), <<w, << >> >>, Nodes(s, l))
  BY ONLY <1>1, <1>3, <1>4, <1>6, <1>7, Steady(s), w \in Var, RemoveMeans
<1> QED
  BY <1>1, <1>2, <1>8, MeantIs

\* removeMember(n) is Without.
LEMMA EraseStep ==
  ASSUME NEW s, Steady(s), NEW p \in Places(s), p[2] # << >>, NEW l, l = Slot(s, p), NEW t, t = Erased(s, l)
  PROVE  Meant(s, t)
<1> DEFINE v == p[1]
<1>1. Sound(s) /\ v \in Var /\ On(s, l, v) /\ l \in Slots(s) /\ Reached(s, l, v) /\ l # Variable(v)
  BY MemberSlot DEF Steady
<1>2. p = <<v, PathOf(l, v)>>
  BY <1>1, SlotOf
<1> HIDE DEF v
<1>3. PICK a : (\E U : FreedFrom(a, s, l, Field, U)) /\ DroppedFrom(t, a, l[1], l[2])
  BY <1>1, ErasedIs
<1>4. PICK U : FreedFrom(a, s, l, Field, U)
  BY <1>3
<1>5. Values(t) = Semantics!Without(Values(s), <<v, PathOf(l, v)>>)
  BY ONLY <1>1, <1>3, <1>4, EraseMeans
<1> QED
  BY <1>1, <1>2, <1>5, MeantIs

\* swap is Swap.
LEMMA SwapStep ==
  ASSUME NEW s, Steady(s), NEW v \in Var, NEW w \in Var, v # w,
         NEW t, t = Exchanged(s, Variable(v), Variable(w), Content)
  PROVE  Meant(s, t)
<1>1. Sound(s) /\ Traded(t, s, Variable(v), Variable(w), Content)
  BY SwapIs DEF Steady
<1>2. Values(t) = Semantics!Swap(Values(s), v, w)
  BY <1>1, SwapNodes
<1> QED
  BY <1>2 DEF Meant, Semantics!Step

\* Every variable is null at first.
LEMMA InitMeans == ValueInit => Values(Now) = [v \in Var |-> Semantics!Null]
<1> SUFFICES ASSUME ValueInit PROVE Values(Now) = [v \in Var |-> Semantics!Null]
  OBVIOUS
<1> DEFINE s == Now
<1>1. Sound(s) /\ \A v \in Var : PointersOf(s, Variable(v)) = NullValue
  BY InitIsSteady DEF Steady, ValueInit, Now, PointersOf, Variable
<1> HIDE DEF s
<1>2. ASSUME NEW v \in Var PROVE Nodes(s, Variable(v)) = Semantics!Null
  <2>1. Variable(v) \in Slots(s)
    BY <1>1, SteadyIs
  <2>2. PointersOf(s, Variable(v))["payload"].kind = "null" /\ PointersOf(s, Variable(v))["comments"].kind = "null"
    BY <1>1 DEF NullValue, Nothing, Field
  <2>3. Names(s, Variable(v)) = {} /\ Shape(s, Variable(v)) = [type |-> "null", comment |-> FALSE]
    BY <2>2 DEF Names, Object, Shape, Described
  <2> QED
    BY <1>1, <2>1, <2>3, LeafIs DEF Semantics!Null, Semantics!Leaf
<1> QED
  BY <1>2 DEF Values, s

\* The next state is what an operation makes of this one.
LEMMA BecomeMeans ==
  ASSUME NEW t, Steady(t), Become(t), Meant(Now, t)
  PROVE  Semantics!Step(Values(Now), Values(Now)')
<1>1. Now' = t
  BY BecomeIs
<1>2. Values(Now)' = Values(t)
  BY <1>1
<1> QED
  BY <1>2 DEF Meant

\* Each operation is a step of the values.
LEMMA StepMeans == Steady(Now) /\ ValueNext => Semantics!Step(Values(Now), Values(Now)')
<1> SUFFICES ASSUME Steady(Now), ValueNext PROVE Semantics!Step(Values(Now), Values(Now)')
  OBVIOUS
<1> DEFINE Done == Semantics!Step(Values(Now), Values(Now)')
<1>0. (HasRoom <=> Live(Now) <= MaxLive) /\ Sound(Now)
  BY DEF HasRoom, Live, Now, Steady
<1>1. ASSUME NEW p \in Places(Now), SetComment(p) PROVE Done
  <2> DEFINE l == Slot(Now, p)
             a == Freed(Now, l, {"comments"})
             t == Make(a, l, "comments", "comment")
  <2>1. Become(t) /\ Live(Now) <= MaxLive
    BY <1>0, <1>1 DEF SetComment
  <2>2. Steady(t)
    BY <2>1, PlacesAre, CommentIs
  <2>3. Meant(Now, t)
    BY <2>1, CommentStep
  <2> HIDE DEF t
  <2> QED
    BY <2>1, <2>2, <2>3, BecomeMeans
<1>2. ASSUME NEW p \in Places(Now), NEW x \in {"null", "literal", "string", "object"}, Assign(p, x) \/ AssignPayload(p, x)
      PROVE  Done
  <2>1. PICK F \in {Content, {"payload"}} : Live(Now) <= MaxLive /\ Become(Exchange(Constructed(Now, x), Slot(Now, p), F))
    BY <1>0, <1>2 DEF Assign, AssignPayload
  <2> DEFINE t == Exchange(Constructed(Now, x), Slot(Now, p), F)
  <2>2. Steady(t)
    BY <2>1, PlacesAre, AssignIs, BoundsAre DEF Replaced
  <2>3. Meant(Now, t)
    BY <2>1, AssignStep
  <2>4. Become(t)
    BY <2>1
  <2> HIDE DEF t
  <2> QED
    BY <2>2, <2>3, <2>4, BecomeMeans
<1>3. ASSUME NEW p \in Places(Now), NEW q \in Places(Now), Copy(p, q) PROVE Done
  <2> DEFINE l == Slot(Now, p)
             k == Slot(Now, q)
             d == Duplicated(Now, k, Temporary, Content)
             t == Exchange(d, l, Content)
  <2>1. Become(t) /\ Live(Now) <= MaxLive
    BY <1>0, <1>3 DEF Copy
  <2>2. Steady(t)
    BY <2>1, PlacesAre, CopyIs DEF Replaced, On
  <2>3. Meant(Now, t)
    BY <2>1, CopyStep
  <2> HIDE DEF t
  <2> QED
    BY <2>1, <2>2, <2>3, BecomeMeans
<1>4. ASSUME NEW p \in Places(Now), NEW q \in Places(Now), Move(p, q) PROVE Done
  <2> DEFINE l == Slot(Now, p)
             k == Slot(Now, q)
             u == MoveConstructed(Now, k)
             t == Exchange(u, l, Content)
  <2>1. Become(t) /\ ~(p[1] = q[1] /\ p[2] # << >> /\ q[2] = << >>)
    BY <1>4 DEF Move
  <2>2. Steady(t)
    <3>1. l = Variable(p[1]) \/ k # Variable(p[1])
      BY <2>1, PlacesAre DEF Variable
    <3> QED
      BY <3>1, PlacesAre, MoveIs DEF Replaced
  <2>3. Meant(Now, t)
    BY <2>1, MoveStep
  <2> HIDE DEF t
  <2> QED
    BY <2>1, <2>2, <2>3, BecomeMeans
<1>5. ASSUME NEW p \in Places(Now), NEW q \in Places(Now), CopyInto(p, q) PROVE Done
  <2> DEFINE l == Slot(Now, p)
             k == Slot(Now, q)
             a == Freed(Now, l, {"payload"})
             d == Duplicated(a, k, l, {"payload"})
             b == Freed(d, l, {"comments"})
             t == Duplicated(b, k, l, {"comments"})
  <2>1. Become(t) /\ Live(Now) <= MaxLive /\ p[1] # q[1]
    BY <1>0, <1>5 DEF CopyInto
  <2>2. Steady(t)
    BY <2>1, PlacesAre, CopiedIntoIs
  <2>3. Meant(Now, t)
    BY <2>1, CopyIntoStep
  <2> HIDE DEF t
  <2> QED
    BY <2>1, <2>2, <2>3, BecomeMeans
<1>6. ASSUME NEW v \in Var, NEW w \in Var, SwapVars(v, w) PROVE Done
  <2> DEFINE t == Exchanged(Now, Variable(v), Variable(w), Content)
  <2>1. Become(t) /\ v # w
    BY <1>6 DEF SwapVars
  <2>2. Steady(t) /\ Meant(Now, t)
    BY <2>1, SwapIs, SwapStep
  <2> HIDE DEF t
  <2> QED
    BY <2>1, <2>2, BecomeMeans
<1>7. ASSUME NEW v \in Var, NEW n \in Member, NEW policy \in {"noDuplication", "duplicateOnCopy"}, Reference(v, n, policy)
      PROVE  Done
  <2> DEFINE kind == vars_[v]["payload"].kind
             u == IF kind = "null" THEN Exchange(Constructed(Now, "object"), Variable(v), Content) ELSE Now
             p == <<v, <<n>> >>
             t == IF p \in Places(u) THEN u ELSE Inserted(u, Slot(u, p), policy)
  <2>1. kind \in {"null", "object"} /\ kind = PointersOf(Now, Variable(v))["payload"].kind /\ Live(Now) <= MaxLive
    BY <1>0, <1>7 DEF Reference, PointersOf, Variable, Now
  <2>2. Become(t)
    BY <1>7 DEF Reference
  <2> HIDE DEF kind
  <2>3. u = IF kind = "null" THEN Exchange(Constructed(Now, "object"), Variable(v), Content) ELSE Now
    OBVIOUS
  <2> HIDE DEF u
  <2>4. Steady(u) /\ (p \in Places(u) \/ Entered(Inserted(u, Slot(u, p), policy), u, Slot(u, p)))
    BY <2>1, <2>3, ReferenceIs
  <2>5. Steady(t)
    BY <2>4 DEF Entered
  <2>6. t = IF <<v, <<n>> >> \in Places(u) THEN u ELSE Inserted(u, Slot(u, <<v, <<n>> >>), policy)
    OBVIOUS
  <2> HIDE DEF t
  <2>7. Meant(Now, t)
    BY <2>1, <2>3, <2>6, ReferenceStep
  <2> QED
    BY <2>2, <2>5, <2>7, BecomeMeans
<1>8. ASSUME NEW v \in Var, NEW w \in Var, NEW n \in Member, RemoveMember(v, n, w) PROVE Done
  <2> DEFINE p == <<v, <<n>> >>
             l == Slot(Now, p)
             u == MoveConstructed(Now, l)
             a == Exchange(u, Variable(w), Content)
             t == Erased(a, l)
  <2>1. Become(t) /\ p \in Places(Now) /\ v # w /\ p[1] = v /\ p[2] # << >>
    BY <1>8 DEF RemoveMember
  <2> HIDE DEF p
  <2>2. Steady(t)
    BY <1>0, <2>1, MemberSlot, RemovedIs
  <2>3. Meant(Now, t)
    BY <2>1, RemoveStep
  <2> HIDE DEF t
  <2> QED
    BY <2>1, <2>2, <2>3, BecomeMeans
<1>9. ASSUME NEW v \in Var, NEW n \in Member, EraseMember(v, n) PROVE Done
  <2> DEFINE p == <<v, <<n>> >>
             l == Slot(Now, p)
             t == Erased(Now, l)
  <2>1. Become(t) /\ p \in Places(Now) /\ p[1] = v /\ p[2] # << >>
    BY <1>9 DEF EraseMember
  <2> HIDE DEF p
  <2>2. Steady(t)
    BY <1>0, <2>1, MemberSlot, ErasedIs
  <2>3. Meant(Now, t)
    BY <2>1, EraseStep
  <2> HIDE DEF t
  <2> QED
    BY <2>1, <2>2, <2>3, BecomeMeans
<1> HIDE DEF Done
<1>10. Done
  BY <1>1, <1>2, <1>3, <1>4, <1>5, <1>6, <1>7, <1>8, <1>9 DEF ValueNext
<1> QED
  BY <1>10 DEF Done

\* The memory implements values that do not know of each other: whatever shares,
\* moves and frees buffers, each operation changes the values as ValueSemantics says
\* (Json::Value, all operations).
THEOREM MemoryImplementsValues == MemorySpec => ValueSpec
<1>1. ValueInit => Semantics!Init
  BY InitMeans DEF Values, Semantics!Init
<1>2. Steady(Now) /\ [ValueNext]_valueVars => [Semantics!Next]_([v \in Var |-> Nodes(Now, Variable(v))])
  <2>1. ASSUME UNCHANGED valueVars PROVE UNCHANGED [v \in Var |-> Nodes(Now, Variable(v))]
    BY <2>1 DEF valueVars, Now
  <2>2. ASSUME Steady(Now), ValueNext PROVE Semantics!Next
    BY <2>2, StepMeans DEF Semantics!Next, Values
  <2> QED
    BY <2>1, <2>2
<1> QED
  BY <1>1, <1>2, SteadyAlways, PTL DEF MemorySpec, ValueSpec, Semantics!Spec

=============================================================================
