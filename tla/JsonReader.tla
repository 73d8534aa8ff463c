---------------------------- MODULE JsonReader ----------------------------
(***************************************************************************)
(* OurReader::parse of jsoncpp, which reads the configuration file and the *)
(* output of limpet.exe, over a document whose tokens are chosen as they   *)
(* are read.  The recursion of readValue, readObject and readArray is a    *)
(* stack of frames; values are nodes of a tree in the heap, and nodes_ and *)
(* lastValue_ point into it while subtrees are freed.                      *)
(*                                                                         *)
(* A number, true, false and null are one scalar beside the strings; "bad" *)
(* is a number or string that cannot be decoded, "error" what is no token. *)
(* The text of comments is left out; where they may stand, and that one on *)
(* the line of the last value is handed to the value lastValue_ points to, *)
(* is not.  The settings are those of a reader as it is built (Defaults)   *)
(* and those of strictMode (StrictMode).                                   *)
(***************************************************************************)
EXTENDS JsonGrammar, Integers

CONSTANTS
  StackLimit,   \* the setting "stackLimit"
  MaxTokens     \* bound: tokens before the end of a document

ASSUME ReaderAssumption ==
  /\ StackLimit \in Nat \ {0}
  /\ MaxTokens \in Nat

VARIABLES
  features_,    \* the settings of the reader
  heap,         \* the values of the tree: payload, parent and key of each
  nodes_,       \* pointers to the values that are being read
  frames,       \* the calls of readObject and readArray, with their names
  lastValue_,   \* pointer to the value that was read last
  pc,           \* what the innermost call reads next
  errors_,      \* how many errors were added
  result,       \* what parse has returned, or that it threw
  errs,         \* the messages its caller was given
  ended,        \* history: the document has come to its end
  doc           \* history: its tokens as they are taken, up to the first error

vars == <<features_, heap, nodes_, frames, lastValue_, pc, errors_, result, errs, ended, doc>>

EndOfStream == {"end", "nul"}    \* a NUL byte reads like the end
Token == {"{", "}", "[", "]", ",", ":", "comment", "bad", "error"}
         \cup Scalar \cup EndOfStream

Root == 1
Null == 0
Id == Root .. (MaxTokens + 1)   \* a value has a token of its own, or a key has
Closing == [object |-> "}", array |-> "]"]

Top(s) == s[Len(s)]
Pop(s) == SubSeq(s, 1, Len(s) - 1)
Current == Top(nodes_)
Frame == Top(frames)

\* CharReaderBuilder::setDefaults and strictMode, which leaves collectComments null.
Defaults ==
  [collectComments |-> TRUE, allowComments |-> TRUE,
   strictRoot |-> FALSE, failIfExtra |-> FALSE, rejectDupKeys |-> FALSE]
StrictMode ==
  [collectComments |-> FALSE, allowComments |-> FALSE,
   strictRoot |-> TRUE, failIfExtra |-> TRUE, rejectDupKeys |-> TRUE]

\* What newCharReader makes of them, of those a program may set.
Settings == {Defaults, StrictMode}

\* parse() with an empty root.
Init ==
  /\ features_ \in Settings
  /\ heap = [i \in {Root} |-> [payload |-> "scalar", parent |-> Null, key |-> 0]]
  /\ nodes_ = <<Root>>
  /\ frames = <<>>
  /\ lastValue_ = Null
  /\ pc = "value"
  /\ errors_ = 0
  /\ result = "none"
  /\ errs = ""
  /\ ended = FALSE
  /\ doc = <<>>

-----------------------------------------------------------------------------
(* Values.                                                                 *)

Children(i) == {j \in DOMAIN heap : heap[j].parent = i}

\* The values below one: whatever a set holds that has its children and, with
\* each value, the children of that.
Below(i) ==
  {j \in DOMAIN heap : \A S \in SUBSET DOMAIN heap :
     Children(i) \subseteq S /\ (\A k \in S : Children(k) \subseteq S) => j \in S}

\* swapPayload with a new value, which takes the old payload down with it.
SetPayload(i, payload) ==
  [j \in DOMAIN heap \ Below(i) |-> IF j = i THEN [heap[i] EXCEPT !.payload = payload] ELSE heap[j]]

Fresh == CHOOSE j \in Id : j \notin DOMAIN heap

\* Mutant: a member with the same name is erased and made anew.
PushMember_Anew(key) ==
  LET erased == {j \in Children(Current) : heap[j].key = key}
      kept == DOMAIN heap \ (erased \cup UNION {Below(j) : j \in erased})
  IN /\ heap' = [j \in kept \cup {Fresh} |->
                   IF j \in kept THEN heap[j]
                   ELSE [payload |-> "scalar", parent |-> Current, key |-> key]]
     /\ nodes_' = Append(nodes_, Fresh)

\* currentValue()[key]: the member that is there, or a new null.
PushMember(key) ==
  LET there == {j \in Children(Current) : heap[j].key = key}
      child == IF there = {} THEN Fresh ELSE CHOOSE j \in there : TRUE
  IN /\ heap' = [j \in DOMAIN heap \cup {child} |->
                   IF j \in DOMAIN heap THEN heap[j]
                   ELSE [payload |-> "scalar", parent |-> Current, key |-> key]]
     /\ nodes_' = Append(nodes_, child)

-----------------------------------------------------------------------------
(* readToken: a token of the document, or its end for ever.                *)

\* What comes after a comment behind a member is taken for a comma.
TakenFor(t) == IF pc = "any" /\ t \notin {"}", "comment"} THEN "," ELSE t

ReadToken(t) ==
  /\ result = "none"
  /\ t \in IF ended \/ Len(doc) >= MaxTokens THEN {"end"} ELSE Token
  /\ ended' = (ended \/ t = "end")
  /\ doc' = IF errors_ = 0 /\ ~(pc = "rest" /\ ~features_.failIfExtra) THEN Append(doc, TakenFor(t)) ELSE doc
  /\ UNCHANGED <<features_, errs>>

Read(t) == ReadToken(t) /\ UNCHANGED result

\* A comment that is skipped where the code reads on, in objects and behind
\* elements even when comments are not allowed.
Comment ==
  /\ \/ pc \in {"name", "any", "separator", "comma"}
     \/ pc \in {"value", "element", "rest", "failed"} /\ features_.allowComments
  /\ Read("comment")
  /\ pc' = CASE pc = "element" -> "value" [] pc = "comma" -> "any" [] OTHER -> pc
  /\ UNCHANGED <<heap, nodes_, frames, lastValue_, errors_>>

-----------------------------------------------------------------------------
(* How readValue ends: the caller pops the pointer it had pushed and reads *)
(* on, or recovers.  It is parse() when no frame is left.                  *)

KeepLastValue == lastValue_' = IF features_.collectComments THEN Current ELSE lastValue_

Succeed(fs) ==
  /\ KeepLastValue
  /\ frames' = fs
  /\ nodes_' = IF fs = <<>> THEN nodes_ ELSE Pop(nodes_)
  /\ pc' = IF fs = <<>> THEN "rest" ELSE IF Top(fs).type = "object" THEN "comma" ELSE "separator"
  /\ errors_' = errors_

Fail(fs) ==
  /\ frames' = fs
  /\ nodes_' = IF fs = <<>> THEN nodes_ ELSE Pop(nodes_)
  /\ pc' = IF fs = <<>> THEN "failed" ELSE "recover"

\* addErrorAndRecover, in readObject or readArray.
AddErrorAndRecover ==
  /\ errors_' = errors_ + 1
  /\ pc' = "recover"
  /\ UNCHANGED <<heap, nodes_, frames, lastValue_>>

-----------------------------------------------------------------------------
(* readValue.                                                              *)

AtValue == pc \in {"value", "element"} /\ Len(nodes_) <= StackLimit

StackLimitExceeded ==
  /\ result = "none"
  /\ pc \in {"value", "element"} /\ Len(nodes_) > StackLimit
  /\ result' = "threw"
  /\ pc' = "done"
  /\ UNCHANGED <<features_, heap, nodes_, frames, lastValue_, errors_, errs, ended, doc>>

ReadScalar ==
  /\ AtValue
  /\ \E t \in Scalar : Read(t) /\ heap' = SetPayload(Current, t)
  /\ Succeed(frames)

BadScalar ==
  /\ AtValue
  /\ Read("bad")
  /\ errors_' = errors_ + 1
  /\ KeepLastValue
  /\ Fail(frames)
  /\ UNCHANGED heap

\* A token that cannot begin a value: readValue returns before its last lines.
\* readArray has looked ahead and knows that its first token is no ].
NotAValue ==
  /\ AtValue
  /\ \E t \in {"}", "]", ",", ":", "comment", "error"} \cup EndOfStream :
       Read(t) /\ ~(pc = "element" /\ t = "]") /\ ~(t = "comment" /\ features_.allowComments)
  /\ errors_' = errors_ + 1
  /\ Fail(frames)
  /\ UNCHANGED <<heap, lastValue_>>

Open(t, type, first) ==
  /\ AtValue
  /\ Read(t)
  /\ heap' = SetPayload(Current, type)
  /\ frames' = Append(frames, [type |-> type, name |-> ""])
  /\ pc' = first
  /\ UNCHANGED <<nodes_, lastValue_, errors_>>

ReadObject == Open("{", "object", "name")
ReadArray == Open("[", "array", "first")

-----------------------------------------------------------------------------
(* readObject.                                                             *)

\* Mutant: whatever name was read before.
EndObject_AnyName ==
  /\ pc \in {"name", "comma", "any"}
  /\ Read("}")
  /\ Succeed(Pop(frames))
  /\ UNCHANGED heap

\* The end is looked for where a name could stand, and taken when no name was
\* read before or the last one was empty.
EndObject ==
  /\ \/ pc = "name" /\ Frame.name = ""
     \/ pc \in {"comma", "any"}
  /\ Read("}")
  /\ Succeed(Pop(frames))
  /\ UNCHANGED heap

ReadName ==
  /\ pc = "name"
  /\ \E t \in Name : Read(t) /\ frames' = Append(Pop(frames), [Frame EXCEPT !.name = t])
  /\ pc' = "colon"
  /\ UNCHANGED <<heap, nodes_, lastValue_, errors_>>

NotAName ==
  /\ pc = "name"
  /\ \E t \in Token \ (Name \cup {"comment"}) : Read(t) /\ ~(t = "}" /\ Frame.name = "")
  /\ AddErrorAndRecover

IsMember(key) == \E j \in Children(Current) : heap[j].key = key

ReadColon ==
  /\ pc = "colon"
  /\ Read(":")
  /\ ~(features_.rejectDupKeys /\ IsMember(Frame.name))
  /\ PushMember(Frame.name)
  /\ pc' = "value"
  /\ UNCHANGED <<frames, lastValue_, errors_>>

NotAColon ==
  /\ pc = "colon"
  /\ \E t \in Token \ {":"} : Read(t)
  /\ AddErrorAndRecover

DuplicateName ==
  /\ pc = "colon"
  /\ Read(":")
  /\ features_.rejectDupKeys /\ IsMember(Frame.name)
  /\ AddErrorAndRecover

\* After a comment the next token is not looked at, unless it is a }.
ReadComma ==
  /\ \/ pc = "comma" /\ Read(",")
     \/ pc = "any" /\ \E t \in Token \ {"}", "comment"} : Read(t)
  /\ pc' = "name"
  /\ UNCHANGED <<heap, nodes_, frames, lastValue_, errors_>>

NotAComma ==
  /\ pc = "comma"
  /\ \E t \in Token \ {",", "}", "comment"} : Read(t)
  /\ AddErrorAndRecover

-----------------------------------------------------------------------------
(* readArray.                                                              *)

\* The next character is not ], so an element is read.
FirstElement ==
  /\ result = "none" /\ pc = "first"
  /\ PushMember(0)
  /\ pc' = "element"
  /\ UNCHANGED <<features_, frames, lastValue_, errors_, result, errs, ended, doc>>

EndArray ==
  /\ pc \in {"first", "separator"}
  /\ Read("]")
  /\ Succeed(Pop(frames))
  /\ UNCHANGED heap

NextElement ==
  /\ pc = "separator"
  /\ Read(",")
  /\ PushMember(Cardinality(Children(Current)))
  /\ pc' = "value"
  /\ UNCHANGED <<frames, lastValue_, errors_>>

NotASeparator ==
  /\ pc = "separator"
  /\ \E t \in Token \ {",", "]", "comment"} : Read(t)
  /\ AddErrorAndRecover

-----------------------------------------------------------------------------
(* recoverFromError, and the end of parse.                                 *)

\* Mutant: only the closing token ends the search.
EndsRecovery_ClosingOnly(t) == t = Closing[Frame.type]

EndsRecovery(t) == t \in EndOfStream \cup {Closing[Frame.type]}

Skip ==
  /\ pc = "recover"
  /\ \E t \in Token : Read(t) /\ ~EndsRecovery(t)
  /\ UNCHANGED <<heap, nodes_, frames, lastValue_, pc, errors_>>

\* The object or array is given up, and with it the one around it.
Recovered ==
  /\ pc = "recover"
  /\ \E t \in Token : Read(t) /\ EndsRecovery(t)
  /\ KeepLastValue
  /\ Fail(Pop(frames))
  /\ UNCHANGED <<heap, errors_>>

\* One token behind the value is read, and looked at when it must be the end.
Return ==
  /\ pc \in {"rest", "failed"}
  /\ \E t \in Token :
       /\ ReadToken(t) /\ ~(t = "comment" /\ features_.allowComments)
       /\ IF \/ features_.failIfExtra /\ (features_.strictRoot \/ t # "error") /\ t \notin EndOfStream
             \/ features_.strictRoot /\ heap[Root].payload \notin {"array", "object"}
          THEN result' = "false" /\ errors_' = errors_ + 1
          ELSE result' = (IF pc = "rest" THEN "true" ELSE "false") /\ errors_' = errors_
  /\ pc' = "returned"
  /\ UNCHANGED <<heap, nodes_, frames, lastValue_>>

FormattedErrorMessages == IF errors_ = 0 THEN "" ELSE "messages"

\* OurCharReader::parse hands the messages to the caller of parseFromStream.
Report ==
  /\ pc = "returned"
  /\ errs' = FormattedErrorMessages
  /\ pc' = "done"
  /\ UNCHANGED <<features_, heap, nodes_, frames, lastValue_, errors_, result, ended, doc>>

Done == pc = "done" /\ UNCHANGED vars

Parses ==
  \/ Comment \/ StackLimitExceeded \/ ReadScalar \/ BadScalar \/ NotAValue
  \/ ReadObject \/ ReadArray \/ EndObject \/ ReadName \/ NotAName \/ ReadColon \/ DuplicateName \/ NotAColon
  \/ ReadComma \/ NotAComma \/ FirstElement \/ EndArray \/ NextElement \/ NotASeparator
  \/ Skip \/ Recovered \/ Return \/ Report

Next == Parses \/ Done

Spec == Init /\ [][Next]_vars

\* The parser goes on, and a document has an end.
FairSpec == Spec /\ WF_vars(Parses) /\ WF_vars(Parses /\ ended')

-----------------------------------------------------------------------------
(* Properties.                                                             *)

\* The values that are being read are alive, each a member of the one before,
\* and the innermost call builds the last of them; so is the value a comment
\* on its line is handed to, although members with one name replace each other.
PointersAreAlive ==
  /\ \A n \in DOMAIN nodes_ :
       /\ nodes_[n] \in DOMAIN heap
       /\ heap[nodes_[n]].parent = IF n = 1 THEN Null ELSE nodes_[n - 1]
  /\ \A n \in DOMAIN frames : heap[nodes_[n]].payload = frames[n].type
  /\ lastValue_ \in DOMAIN heap \cup {Null}

\* What the tree under a value means, by the measure of JsonGrammar.
Denotation(i) ==
  LET of[j \in DOMAIN heap] ==
        LET at(key) == CHOOSE k \in Children(j) : heap[k].key = key
            keys == {heap[k].key : k \in Children(j)}
        IN CASE heap[j].payload = "array" -> <<"array", [n \in 1 .. Cardinality(keys) |-> of[at(n - 1)]]>>
             [] heap[j].payload = "object" -> <<"object", [key \in keys |-> of[at(key)]]>>
             [] OTHER -> <<heap[j].payload>>
  IN of[i]

PlacesOf(ts) == {n \in DOMAIN doc : doc[n] \in ts}
MembersOfObjects == {j \in DOMAIN heap : j # Root /\ heap[heap[j].parent].payload = "object"}

\* The document without its comments and end, and the commas of it that end an
\* object; the text is what remains without them.
Tokens == SelectSeq(doc, LAMBDA t : t \notin EndOfStream \cup {"comment"})
LastCommas == {n \in 1 .. Len(Tokens) - 1 : Tokens[n] = "," /\ Tokens[n + 1] = "}"}
Text == SelectSeq([n \in DOMAIN Tokens |-> IF n \in LastCommas THEN "comment" ELSE Tokens[n]],
                  LAMBDA t : t # "comment")

\* What parse accepts is a JSON text but for four things, and only these: comments;
\* the token behind a member and a comment, which is taken for a comma whatever it
\* is; a last comma in an object with an empty name; what stands behind the value,
\* or, where nothing may (failIfExtra), behind a NUL.  A strict reader refuses
\* comments around the value, but not within it.  What it accepts is an array or
\* object in which no name comes twice.
AcceptsJsonOnly ==
  result = "true" =>
    /\ Text \in Texts
    /\ LastCommas # {} => PlacesOf({""}) # {}
    /\ features_.strictRoot => Text[1] \in {"[", "{"}
    /\ features_.failIfExtra => Top(doc) \in EndOfStream
    /\ ~features_.allowComments =>
         \A n \in PlacesOf({"comment"}) : 1 < n /\ n < Len(doc) /\ doc[n + 1] \notin EndOfStream
    /\ features_.rejectDupKeys => Cardinality(PlacesOf({":"})) = Cardinality(MembersOfObjects)

\* What it accepts means what JSON says of the text.
MeaningIsKept == result = "true" => Denotation(Root) = Meaning[Text]

\* No JSON document begins like one without comments where an error was found,
\* but for a second name or a scalar that is read strictly; and one it throws at
\* is nested as deep as the stack limit.
RejectsNoJson ==
  /\ errors_ > 0 /\ PlacesOf({"comment"}) = {} =>
       \/ doc \notin Beginnings
       \/ features_.rejectDupKeys /\ Top(doc) = ":"
       \/ features_.strictRoot /\ doc[1] \in Scalar
  /\ result = "threw" => Cardinality(PlacesOf({"{", "["})) - Cardinality(PlacesOf({"}", "]"})) = StackLimit

\* Who is told that parsing failed is told why, and nobody else is told of errors.
ErrorsAreReported == pc = "done" /\ result # "threw" => (result = "false" <=> errs # "")

\* parse reads JSON for what it means (parse, readValue, readObject, readArray).
ReadsJson == AcceptsJsonOnly /\ MeaningIsKept /\ RejectsNoJson /\ ErrorsAreReported

\* parse returns or throws, recovering from every error (recoverFromError).
ParseEnds == <>(pc = "done")
=============================================================================
