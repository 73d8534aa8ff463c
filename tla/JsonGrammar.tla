---------------------------- MODULE JsonGrammar ----------------------------
(***************************************************************************)
(* What JSON is, as a reference for the parser: the documents of at most   *)
(* MaxLength tokens, without comments, and what each of them means.        *)
(*                                                                         *)
(* A scalar means itself, an array the sequence of what its elements mean, *)
(* an object a function from its names, where the last of two members with *)
(* one name counts.                                                        *)
(***************************************************************************)
EXTENDS Naturals, SequencesExt

CONSTANTS
  Name,         \* strings in documents, "" among them
  Scalar,       \* the strings, and what stands for other values without parts
  MaxLength     \* bound: tokens of a document

ASSUME GrammarAssumption ==
  /\ Name \subseteq Scalar /\ Scalar \subseteq STRING
  /\ MaxLength \in Nat

\* The sentences of one length: texts with their meanings, of values, of the
\* elements of an array and of the members of an object.
Bracketed(open, sentences, close, type) ==
  {<< <<open>> \o s[1] \o <<close>>, <<type, s[2]>> >> : s \in sentences}

Longer(g) ==
  LET n == Len(g) + 1
      value == {<< <<t>>, <<t>> >> : t \in IF n = 1 THEN Scalar ELSE {}}
               \cup (IF n = 2 THEN {<< <<"[", "]">>, <<"array", <<>> >> >>,
                                    << <<"{", "}">>, <<"object", <<>> >> >>} ELSE {})
               \cup (IF n > 2 THEN Bracketed("[", g[n - 2].elements, "]", "array")
                                   \cup Bracketed("{", g[n - 2].members, "}", "object") ELSE {})
      pair(m, name, v) == << m[1] \o <<name, ":">> \o v[1], (name :> v[2]) @@ m[2] >>
  IN [value |-> value,
      elements |-> {<<v[1], <<v[2]>> >> : v \in value}
                   \cup UNION {{<<e[1] \o <<",">> \o v[1], Append(e[2], v[2])>> :
                                 e \in g[k].elements, v \in g[n - k - 1].value} : k \in 1 .. n - 2},
      members |-> {pair(<< <<>>, <<>> >>, name, v) :
                     name \in Name, v \in IF n > 2 THEN g[n - 2].value ELSE {}}
                  \cup UNION {{pair(<<m[1] \o <<",">>, m[2]>>, name, v) :
                                 m \in g[k].members, name \in Name, v \in g[n - k - 3].value} :
                              k \in 1 .. n - 4}]

Sentences == FoldLeft(LAMBDA g, i : Append(g, Longer(g)), <<>>, [i \in 1 .. MaxLength |-> i])

Documents == UNION {Sentences[n].value : n \in 1 .. MaxLength}
Texts == {d[1] : d \in Documents}
Beginnings == UNION {Prefixes(t) : t \in Texts}
Meaning == [t \in Texts |-> (CHOOSE d \in Documents : d[1] = t)[2]]
=============================================================================
