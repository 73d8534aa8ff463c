---------------------------- MODULE JsonString ----------------------------
(***************************************************************************)
(* readString and decodeString of OurReader, behind the opening quote: the *)
(* first finds the quote that ends a string, the second decodes what lies  *)
(* between with an idea of its own of what an escape is.                   *)
(*                                                                         *)
(* An escape has one hexadecimal digit instead of four, "hi" and "lo" for  *)
(* the two halves of the surrogates.  They and "u" stand for all           *)
(* characters besides, which make no escape behind a backslash but \u; an  *)
(* escaped quote and an escaped backslash are the escapes of one           *)
(* character, those that make another one are left out.                    *)
(***************************************************************************)
EXTENDS Naturals, SequencesExt

CONSTANT MaxText  \* bound: characters between the quotes

ASSUME TextAssumption == MaxText \in Nat

VARIABLES
  text,         \* the characters behind the opening quote
  position,     \* where decodeString reads
  decoded,      \* what it has decoded
  outcome       \* what readString and decodeString have come to

stringVars == <<text, position, decoded, outcome>>

Hex == {"0", "hi", "lo"}
Character == Hex \cup {"quote", "escape", "u"}

StringInit ==
  /\ text = <<>>
  /\ position = 1
  /\ decoded = <<>>
  /\ outcome = "reading"

-----------------------------------------------------------------------------
(* readString.                                                             *)

ReadsOn(s) ==
  /\ outcome = "reading"
  /\ Len(text) + Len(s) <= MaxText
  /\ text' = text \o s
  /\ UNCHANGED <<position, decoded, outcome>>

Character1 == \E c \in Character \ {"quote", "escape"} : ReadsOn(<<c>>)

\* Mutant: the character behind a backslash is read like any other.
Escaped_Alone == ReadsOn(<<"escape">>)

\* The character behind a backslash is skipped, whatever it is.
Escaped == \E c \in Character : ReadsOn(<<"escape", c>>)

EndOfString ==
  /\ outcome = "reading"
  /\ outcome' = "decoding"
  /\ UNCHANGED <<text, position, decoded>>

\* The document ends, perhaps behind a backslash.
Unterminated ==
  /\ outcome = "reading"
  /\ text' \in {text, Append(text, "escape")}
  /\ outcome' = "unterminated"
  /\ UNCHANGED <<position, decoded>>

-----------------------------------------------------------------------------
(* decodeString.                                                           *)

\* A word stands behind the first n characters of s.
Stands(word, s, n) == n + Len(word) <= Len(s) /\ \A i \in DOMAIN word : word[i] = s[n + i]

Begins(word) == Stands(word, text, position - 1)

Decodes(s, value) ==
  /\ outcome = "decoding" /\ Begins(s)
  /\ position' = position + Len(s)
  /\ decoded' = Append(decoded, value)
  /\ UNCHANGED <<text, outcome>>

DecodeCharacter == \E c \in Character \ {"quote", "escape"} : Decodes(<<c>>, <<c>>)
DecodeEscape == \E c \in {"quote", "escape"} : Decodes(<<"escape", c>>, <<c>>)

\* decodeUnicodeCodePoint: a high surrogate takes the next escape with it,
\* whatever it encodes; a low one alone is taken for a character.
DecodeUnicode ==
  \/ \E h \in Hex \ {"hi"} : Decodes(<<"escape", "u", h>>, <<"u", h>>)
  \/ \E h \in Hex : Decodes(<<"escape", "u", "hi", "escape", "u", h>>, <<"u", "hi", h>>)

\* A backslash begins nothing of these.
BadEscape ==
  /\ outcome = "decoding" /\ Begins(<<"escape">>)
  /\ \A c \in {"quote", "escape"} : ~Begins(<<"escape", c>>)
  /\ \A h \in Hex \ {"hi"} : ~Begins(<<"escape", "u", h>>)
  /\ \A h \in Hex : ~Begins(<<"escape", "u", "hi", "escape", "u", h>>)
  /\ outcome' = "bad"
  /\ UNCHANGED <<text, position, decoded>>

EndOfText ==
  /\ outcome = "decoding"
  /\ position = Len(text) + 1 \/ Begins(<<"quote">>)
  /\ outcome' = "decoded"
  /\ UNCHANGED <<text, position, decoded>>

StringEnds == outcome \in {"decoded", "bad", "unterminated"} /\ UNCHANGED stringVars

StringNext ==
  \/ Character1 \/ Escaped \/ EndOfString \/ Unterminated
  \/ DecodeCharacter \/ DecodeEscape \/ DecodeUnicode \/ BadEscape \/ EndOfText
  \/ StringEnds

StringSpec == StringInit /\ [][StringNext]_stringVars

-----------------------------------------------------------------------------
(* What a JSON string is: characters and escapes in a row, where a surrogate *)
(* is half of a pair.                                                      *)

Unit ==
  {<< <<c>>, <<c>> >> : c \in Character \ {"quote", "escape"}}
  \cup {<< <<"escape", "quote">>, <<"quote">> >>, << <<"escape", "escape">>, <<"escape">> >>,
        << <<"escape", "u", "0">>, <<"u", "0">> >>,
        << <<"escape", "u", "hi", "escape", "u", "lo">>, <<"u", "hi", "lo">> >>}

\* What the code takes for a unit besides: surrogates that are no pair.
Surrogate ==
  {<< <<"escape", "u", "lo">>, <<"u", "lo">> >>}
  \cup {<< <<"escape", "u", "hi", "escape", "u", h>>, <<"u", "hi", h>> >> : h \in Hex \ {"lo"}}

Units == Unit \cup Surrogate

\* A unit goes from one of the places where s is cut to the next.
Spans(u, s, cuts, n) ==
  /\ Stands(u[1], s, n)
  /\ n + Len(u[1]) \in cuts
  /\ \A k \in cuts : k <= n \/ n + Len(u[1]) <= k

\* The places where s may be cut, its two ends among them.
Cuts(s) == {inner \cup {0, Len(s)} : inner \in SUBSET (1 .. Len(s) - 1)}

\* A text that can be cut into units, and one that then means a value.
IsString(s) ==
  \E cuts \in Cuts(s) :
    \A n \in cuts \ {Len(s)} : \E u \in Unit : Spans(u, s, cuts, n)

Means(s, value) ==
  \E cuts \in Cuts(s) :
    /\ Cardinality(cuts) = Len(value) + 1
    /\ \A n \in cuts \ {Len(s)} : \E u \in Units :
         Spans(u, s, cuts, n) /\ value[Cardinality({k \in cuts : k <= n})] = u[2]

Strings == {s \in SeqOf(Character, MaxText) : IsString(s)}
StringBeginnings == UNION {Prefixes(Append(s, "quote")) : s \in Strings}

\* A JSON string is read up to the quote that ends it and decoded to what it
\* means; what is rejected does not begin a JSON string, and what is accepted is
\* one but for surrogates (readString, decodeString).
ReadsString ==
  /\ outcome = "decoded" => Means(text, decoded)
  /\ outcome = "bad" => Append(text, "quote") \notin StringBeginnings
=============================================================================
