----------------------------- MODULE JsonValue -----------------------------
(***************************************************************************)
(* The memory of Json::Value: who owns the strings, maps, keys and comments *)
(* that values point to, through construction, copy, move, swap, change of *)
(* payload, new members and removal.                                       *)
(*                                                                         *)
(* A slot is a variable or an entry of a map.  It has three pointers: the  *)
(* payload and the comments of its value and, in a map, the key.  The kind *)
(* of a pointer is what type_ and allocated_ or the policy of a key say of *)
(* it.  Numbers and booleans own nothing and are left out, as are the      *)
(* members of arrays, whose keys are indexes.  The array of comments and   *)
(* the text in it are one buffer.  A value that an operation creates for a *)
(* moment is the variable Other, which it leaves null.                     *)
(***************************************************************************)
EXTENDS Naturals, SequencesExt

CONSTANTS
  Var,          \* the values a program has
  Other,        \* the parameter of operator=, and other temporary values
  Member,       \* keys of members
  Buffer,       \* addresses of memory
  Nil,          \* no address
  Literal,      \* the address of a literal of the program
  Caller,       \* the address of a string a caller will free
  MaxLive       \* bound: buffers in use when an operation that allocates begins

VARIABLES
  vars_,        \* the pointers of each variable
  cells,        \* the buffers in use, and what is in each: the entries of a map
  bad           \* whether what was freed was not in use, or was freed twice

valueVars == <<vars_, cells, bad>>

Field == {"payload", "comments", "key"}
Content == {"payload", "comments"}
Nothing == [kind |-> "null", ptr |-> Nil]
NullValue == [f \in Field |-> Nothing]

\* PointersOf that are freed with the slot.
Owning == {"string", "object", "comment", "duplicate"}

ASSUME MemoryAssumption ==
  /\ IsFiniteSet(Buffer) /\ MaxLive \in Nat /\ 4 * MaxLive + 3 < Cardinality(Buffer)
  /\ Other \notin Var
  /\ Caller \notin Buffer \cup {Nil, Literal}
  /\ "none" \notin Member

ValueInit ==
  /\ vars_ = [v \in Var \cup {Other} |-> NullValue]
  /\ cells = << >>
  /\ bad = FALSE

Now == [vars |-> vars_, cells |-> cells, bad |-> bad]
Become(s) == vars_' = s.vars /\ cells' = s.cells /\ bad' = s.bad

-----------------------------------------------------------------------------
(* Slots of a state, and what they own.                                    *)

None == "none"
Variable(v) == <<v, None>>
Temporary == Variable(Other)
Inside(s, B) == UNION {{b} \X DOMAIN s.cells[b] : b \in B \cap DOMAIN s.cells}
Slots(s) == {Variable(v) : v \in Var \cup {Other}} \cup Inside(s, DOMAIN s.cells)

PointersOf(s, l) == IF l[2] = None THEN s.vars[l[1]] ELSE s.cells[l[1]][l[2]]
Assigned(s, l, x) ==
  IF l[2] = None THEN [s EXCEPT !.vars[l[1]] = x] ELSE [s EXCEPT !.cells[l[1]][l[2]] = x]

Owners(s, L, F) == {o \in L \X F : PointersOf(s, o[1])[o[2]].kind \in Owning}
Target(s, o) == PointersOf(s, o[1])[o[2]].ptr

\* Every owner has a buffer of its own.
Exclusive(s, O) ==
  /\ \A o \in O : Target(s, o) \in DOMAIN s.cells
  /\ \A o, p \in O : Target(s, o) = Target(s, p) => o = p

\* B holds what the owners O own and what its own entries do.
Closed(s, O, B) == \A o \in O \cup Owners(s, Inside(s, B), Field) : Target(s, o) \in B

\* The buffers that hang on O.
Tree(s, O) == {b \in DOMAIN s.cells : \A B \in SUBSET DOMAIN s.cells : Closed(s, O, B) => b \in B}

-----------------------------------------------------------------------------
(* What the parts of the operations do to a state.                         *)

Unused(s) == Buffer \ DOMAIN s.cells

\* A new string, comment or map, and a pointer to it.
Make(s, l, f, kind) ==
  LET b == CHOOSE b \in Unused(s) : TRUE
      t == [s EXCEPT !.cells = [c \in DOMAIN s.cells \cup {b} |-> IF c = b THEN << >> ELSE s.cells[c]]]
  IN Assigned(t, l, [PointersOf(s, l) EXCEPT ![f] = [kind |-> kind, ptr |-> b]])

\* PointersOf x, but for those in F, which are as in y.
Mixed(x, y, F) == [f \in Field |-> IF f \in F THEN y[f] ELSE x[f]]

\* swap, swapPayload: what the slots l and k hold in F changes places.
Exchanged(s, l, k, F) ==
  Assigned(Assigned(s, l, Mixed(PointersOf(s, l), PointersOf(s, k), F)),
           k, Mixed(PointersOf(s, k), PointersOf(s, l), F))

\* ~Value, releasePayload, ~CZString: the pointers F of slot l are freed, and
\* with a map all that is in it.
Freed(s, l, F) ==
  LET O == Owners(s, {l}, F)
      T == Tree(s, O)
      t == [vars |-> s.vars, cells |-> [b \in DOMAIN s.cells \ T |-> s.cells[b]],
            bad |-> s.bad \/ ~Exclusive(s, O \cup Owners(s, Inside(s, T), Field))]
  IN Assigned(t, l, Mixed(PointersOf(s, l), NullValue, F))

\* Mutant: every string is taken for a literal.
IsDuplicated_Shared(kind) == kind \in Owning \ {"string"}

IsDuplicated(kind) == kind \in Owning

\* dupPayload, dupMeta, CZString(CZString const&): the pointers F of slot l are
\* duplicated for slot k, and with a map all that is in it.
Duplicated(s, l, k, F) ==
  LET T == Tree(s, Owners(s, {l}, F))
      copy == CHOOSE f \in Injection(T, Unused(s)) : TRUE
      of(c) == CHOOSE b \in T : copy[b] = c
      Copied(x) == [f \in Field |-> IF IsDuplicated(x[f].kind) THEN [x[f] EXCEPT !.ptr = copy[@]] ELSE x[f]]
      t == [s EXCEPT !.cells = [c \in DOMAIN s.cells \cup Range(copy) |->
                                  IF c \in DOMAIN s.cells THEN s.cells[c]
                                  ELSE [n \in DOMAIN s.cells[of(c)] |-> Copied(s.cells[of(c)][n])]]]
  IN Assigned(t, k, Mixed(PointersOf(s, k), Copied(PointersOf(s, l)), F))

\* What the constructors make of Other.
Constructed(s, x) ==
  CASE x = "null" -> s
    [] x = "literal" -> Assigned(s, Temporary, [NullValue EXCEPT !["payload"] = [kind |-> "literal", ptr |-> Literal]])
    [] x = "string" -> Make(s, Temporary, "payload", "string")
    [] x = "object" -> Make(s, Temporary, "payload", "object")

\* Mutant: the move constructor takes the payload only.
MoveConstructed_PayloadOnly(s, l) == Exchanged(s, l, Temporary, {"payload"})

MoveConstructed(s, l) == Exchanged(s, l, Temporary, Content)

\* operator=(Value other), which ends with the destructor of other.
Exchange(s, l, F) == Freed(Exchanged(s, l, Temporary, F), Temporary, Field)

-----------------------------------------------------------------------------
(* Operations.                                                             *)

\* A place is a variable or a member of one: its variable and its path.
V == INSTANCE ValueSemantics WITH values <- [v \in Var |-> {}]
Slot(s, p) == IF p[2] = << >> THEN Variable(p[1]) ELSE <<s.vars[p[1]]["payload"].ptr, p[2][1]>>
Places(s) ==
  {p \in V!Place : p[2] # << >> =>
     s.vars[p[1]]["payload"].kind = "object" /\ p[2][1] \in DOMAIN s.cells[s.vars[p[1]]["payload"].ptr]}

HasRoom == Cardinality(DOMAIN cells) <= MaxLive

\* p = Value(x), with a constructor that copies what it is given or not.
Assign(p, x) == HasRoom /\ Become(Exchange(Constructed(Now, x), Slot(Now, p), Content))

\* Value v(x); p.swapPayload(v).
AssignPayload(p, x) == HasRoom /\ Become(Exchange(Constructed(Now, x), Slot(Now, p), {"payload"}))

\* p = q, where one may be a member of the other.
Copy(p, q) ==
  HasRoom /\ Become(Exchange(Duplicated(Now, Slot(Now, q), Temporary, Content), Slot(Now, p), Content))

\* p = std::move(q), but never an object into a member of its own.
Move(p, q) ==
  /\ ~(p[1] = q[1] /\ p[2] # << >> /\ q[2] = << >>)
  /\ Become(Exchange(MoveConstructed(Now, Slot(Now, q)), Slot(Now, p), Content))

\* p.copy(q) frees the payload of p before it copies that of q, so q must not be
\* in p, nor p in q.
CopyInto(p, q) ==
  LET l == Slot(Now, p)
      k == Slot(Now, q)
      payload == Duplicated(Freed(Now, l, {"payload"}), k, l, {"payload"})
  IN /\ HasRoom
     /\ p[1] # q[1]
     /\ Become(Duplicated(Freed(payload, l, {"comments"}), k, l, {"comments"}))

SwapVars(v, w) == v # w /\ Become(Exchanged(Now, Variable(v), Variable(w), Content))

\* CZString(char const*, unsigned, DuplicationPolicy) copies nothing, and its copy
\* what is not the program's.
ActualKey(policy) == [kind |-> policy, ptr |-> IF policy = "noDuplication" THEN Literal ELSE Caller]
KeyCopied(s, key) ==
  IF key.kind = "noDuplication" THEN Assigned(s, Temporary, [NullValue EXCEPT !["key"] = key])
  ELSE Make(s, Temporary, "key", "duplicate")

\* The pair of a key and null is copied into the map.
Inserted(s, l, policy) ==
  LET pair == KeyCopied(s, ActualKey(policy))
      entry == [pair EXCEPT !.cells[l[1]] = [n \in DOMAIN @ \cup {l[2]} |-> IF n = l[2] THEN NullValue ELSE @[n]]]
  IN Freed(Duplicated(entry, Temporary, l, Field), Temporary, Field)

\* v[n] of a string or of a literal key.
Reference(v, n, policy) ==
  LET kind == vars_[v]["payload"].kind
      s == IF kind = "null" THEN Exchange(Constructed(Now, "object"), Variable(v), Content) ELSE Now
      p == <<v, <<n>> >>
  IN /\ HasRoom
     /\ kind \in {"null", "object"}
     /\ Become(IF p \in Places(s) THEN s ELSE Inserted(s, Slot(s, p), policy))

\* map_->erase(it).
Erased(s, l) ==
  LET t == Freed(s, l, Field)
  IN [t EXCEPT !.cells[l[1]] = [n \in DOMAIN @ \ {l[2]} |-> @[n]]]

\* removeMember(n, &w): the member is moved out and its node is erased.
RemoveMember(v, n, w) ==
  /\ v # w /\ <<v, <<n>> >> \in Places(Now)
  /\ LET l == Slot(Now, <<v, <<n>> >>)
     IN Become(Erased(Exchange(MoveConstructed(Now, l), Variable(w), Content), l))

\* removeMember(n), without a value to move the member to.
EraseMember(v, n) ==
  /\ <<v, <<n>> >> \in Places(Now)
  /\ Become(Erased(Now, Slot(Now, <<v, <<n>> >>)))

\* CommentInfo::setComment: the old text is freed before the new one is copied.
SetComment(p) ==
  /\ HasRoom
  /\ LET l == Slot(Now, p) IN Become(Make(Freed(Now, l, {"comments"}), l, "comments", "comment"))

ValueNext ==
  \/ \E p \in Places(Now) : SetComment(p)
  \/ \E p \in Places(Now), x \in {"null", "literal", "string", "object"} : Assign(p, x) \/ AssignPayload(p, x)
  \/ \E p, q \in Places(Now) : Copy(p, q) \/ Move(p, q) \/ CopyInto(p, q)
  \/ \E v, w \in Var : SwapVars(v, w)
  \/ \E v \in Var, n \in Member, policy \in {"noDuplication", "duplicateOnCopy"} : Reference(v, n, policy)
  \/ \E v, w \in Var, n \in Member : RemoveMember(v, n, w)
  \/ \E v \in Var, n \in Member : EraseMember(v, n)

MemorySpec == ValueInit /\ [][ValueNext]_valueVars

-----------------------------------------------------------------------------
(* Properties.                                                             *)

\* Every buffer in use hangs on a variable by one owner, none is freed twice, and
\* no value points to memory that is not its own or the program's.
Ownership ==
  LET program == {Variable(v) : v \in Var \cup {Other}}
  IN /\ ~bad
     /\ Exclusive(Now, Owners(Now, Slots(Now), Field))
     /\ Tree(Now, Owners(Now, program, Field)) = DOMAIN cells
     /\ \A l \in Slots(Now) : PointersOf(Now, l)["key"].ptr # Caller

\* The ways from slot l into its members, each the slots it goes through.
Ways(s, l) ==
  LET inner == Inside(s, DOMAIN s.cells)
      Leads(k, m) == PointersOf(s, k)["payload"].kind = "object" /\ m[1] = PointersOf(s, k)["payload"].ptr
  IN {w \in SeqOf(inner, Cardinality(DOMAIN s.cells)) : \A i \in DOMAIN w : Leads(IF i = 1 THEN l ELSE w[i - 1], w[i])}

\* What a value means to its user: the nodes of ValueSemantics.
Described(x) ==
  [type |-> IF x["payload"].kind = "literal" THEN "string" ELSE x["payload"].kind,
   comment |-> x["comments"].kind = "comment"]
Nodes(s, l) ==
  {<<[i \in DOMAIN w |-> w[i][2]], Described(PointersOf(s, IF w = << >> THEN l ELSE Last(w)))>> : w \in Ways(s, l)}

\* The memory implements values that do not know of each other.
Semantics == INSTANCE ValueSemantics WITH values <- [v \in Var |-> Nodes(Now, Variable(v))]
ValueSpec == Semantics!Spec
=============================================================================
