---------------------------- MODULE JsonProofs ----------------------------
(***************************************************************************)
(* Proofs about the JSON library: decodeNumber and the accessors of a      *)
(* number (JsonNumber), for integers of every width and every rounding;    *)
(* readString and decodeString (JsonString), for texts of every length;    *)
(* readValue and its tree of values (JsonReader), for documents of every   *)
(* length and depth; arrays (JsonArray), for every element and index.      *)
(*                                                                         *)
(* While decodeNumber reads digits its local holds the number that was     *)
(* read, so nothing has wrapped; once it has given up, the number is       *)
(* larger than maxIntegerValue, or will be with the next digit.            *)
(***************************************************************************)
EXTENDS JsonReader, JsonNumber, JsonString, JsonArray, TLAPS,
        FiniteSetTheorems, SequenceTheorems, NaturalsInduction

-----------------------------------------------------------------------------
(* Sets of numbers.                                                        *)

\* A set of natural numbers has a least element.
LEMMA Smallest ==
  ASSUME NEW S \in SUBSET Nat, S # {}
  PROVE  \E m \in S : \A k \in S : m <= k
<1> DEFINE R == OpToRel(<, Nat)
<1>1. IsWellFoundedOn(R, Nat)
  BY NatLessThanWellFounded, Zenon
<1>2. PICK m \in S : \A k \in S : ~(<<k, m>> \in R)
  <2> HIDE DEF R
  <2> QED
    BY <1>1, WFMin, Zenon
<1>3. \A k \in S : ~(k < m)
  BY <1>2 DEF OpToRel
<1> QED
  BY <1>3

LEMMA Largest ==
  ASSUME NEW b \in Nat, NEW D \in SUBSET (0 .. b), D # {}
  PROVE  \E m \in D : \A k \in D : k <= m
<1> DEFINE S == {b - i : i \in D}
<1>1. S \in SUBSET Nat /\ S # {}
  <2>1. \A i \in D : b - i \in Nat
    OBVIOUS
  <2>2. S # {}
    BY Zenon
  <2> QED
    BY <2>1, <2>2
<1> HIDE DEF S
<1>2. PICK m \in S : \A k \in S : m <= k
  BY <1>1, Smallest
<1>3. PICK i \in D : m = b - i
  BY DEF S
<1>4. ASSUME NEW k \in D PROVE k <= i
  <2>1. m <= b - k
    BY <1>2 DEF S
  <2> QED
    BY <1>3, <2>1
<1> QED
  BY <1>4

-----------------------------------------------------------------------------
(* Numbers.                                                                *)

NumberTyping ==
  /\ negative \in BOOLEAN /\ point \in BOOLEAN /\ half \in BOOLEAN
  /\ value \in Nat /\ exact \in 0 .. MaxExact
  /\ state \in {"start", "digits", "double", "integer", "real", "done"}

ValueIsExact == state \in {"start", "digits", "integer"} =>
  value = exact /\ exact <= MaxIntegerValue /\ ~point

GivenUp ==
  /\ state = "double" => ~point /\ MaxIntegerValue < 10 * exact
  /\ state = "real" => point \/ MaxIntegerValue < exact

Pending == state # "done" => number = Undecoded

NumberInv == NumberTyping /\ ValueIsExact /\ GivenUp /\ Pending /\ NumberIsRead

-----------------------------------------------------------------------------

\* A number of the width is its own remainder, and a negative one wraps once.
LEMMA Remainder ==
  ASSUME NEW m \in Nat, NEW n \in Nat, n < m
  PROVE  n % m = n /\ (0 < n => (-n) % m = m - n)
<1>1. n % m = n
  BY SMT
<1>2. ASSUME 0 < n PROVE (-n) % m = m - n
  BY <1>2, SMT
<1> QED
  BY <1>1, <1>2

LEMMA Casts ==
  ASSUME NEW n \in Nat, n <= MaxLargestUInt
  PROVE  Unsigned(n) = n /\ (0 < n => Unsigned(-n) = MaxLargestUInt + 1 - n)
<1> DEFINE w == MaxLargestUInt + 1
<1>1. MaxLargestUInt \in Nat /\ w \in Nat /\ n < w
  BY NumberAssumption DEF MaxLargestUInt
<1>2. n % w = n /\ (0 < n => (-n) % w = w - n)
  <2> HIDE DEF w
  <2> QED
    BY <1>1, Remainder
<1> QED
  BY <1>1, <1>2 DEF Unsigned

\* The largest magnitude, although -minLargestInt overflows on the way.
LEMMA Magnitude ==
  ASSUME negative \in BOOLEAN
  PROVE  /\ MaxIntegerValue = IF negative THEN MaxLargestInt + 1 ELSE MaxLargestUInt
         /\ MaxIntegerValue \in Nat /\ 10 <= MaxIntegerValue
         /\ MaxIntegerValue <= MaxLargestUInt
<1> DEFINE w == MaxLargestUInt + 1
<1>1. MaxLargestUInt = 2 * MaxLargestInt + 1 /\ w = 2 * MaxLargestInt + 2 /\ -MinLargestInt = MaxLargestInt + 1
      /\ MaxLargestInt \in Nat /\ 9 <= MaxLargestInt
  BY NumberAssumption DEF MaxLargestUInt, MinLargestInt
<1>2. MaxLargestInt + 1 \in Nat /\ MaxLargestInt + 1 <= MaxLargestUInt /\ 0 < MaxLargestInt + 1
  BY <1>1
<1>3. Unsigned(MaxLargestInt + 1) = MaxLargestInt + 1
      /\ Unsigned(-(MaxLargestInt + 1)) = w - (MaxLargestInt + 1)
  BY <1>1, <1>2, Casts
<1>4. Signed(MaxLargestInt + 1) = -(MaxLargestInt + 1)
  BY <1>1, <1>3 DEF Signed
<1> QED
  BY <1>1, <1>3, <1>4 DEF MaxIntegerValue, MaxLargestUInt

\* One more digit fits just when the test of decodeNumber says so.
LEMMA OneMoreDigit ==
  ASSUME NEW m \in Nat, 10 <= m, NEW v \in Nat, NEW c \in 0 .. 9
  PROVE  /\ v < m \div 10 => v * 10 + c <= m
         /\ v = m \div 10 /\ c <= m % 10 => v * 10 + c <= m
         /\ v = m \div 10 /\ ~(c <= m % 10) => m < v * 10 + c
         /\ m \div 10 < v => m < v * 10 + c
         /\ m \div 10 <= v => m < 10 * (v * 10 + c)
<1>1. v < m \div 10 => v * 10 + c <= m
  BY SMT
<1>2. v = m \div 10 /\ c <= m % 10 => v * 10 + c <= m
  BY SMT
<1>3. v = m \div 10 /\ ~(c <= m % 10) => m < v * 10 + c
  BY SMT
<1>4. m \div 10 < v => m < v * 10 + c
  BY SMT
<1>5. m \div 10 <= v => m < 10 * (v * 10 + c)
  BY SMT
<1> QED
  BY <1>1, <1>2, <1>3, <1>4, <1>5

-----------------------------------------------------------------------------

LEMMA NumberStarts == NumberInit => NumberInv
<1> SUFFICES ASSUME NumberInit PROVE NumberInv
  OBVIOUS
<1>1. NumberTyping
  <2>1. 0 \in Nat /\ 0 \in 0 .. MaxExact
    BY NumberAssumption
  <2> QED
    BY <2>1, Zenon DEF NumberInit, NumberTyping
<1>2. 0 <= MaxIntegerValue
  BY <1>1, Magnitude DEF NumberTyping
<1> QED
  BY <1>1, <1>2 DEF NumberInit, NumberInv, ValueIsExact, GivenUp, Pending, NumberIsRead, IsDecoded, Undecoded

\* What the steps that leave the sign and the number alone have to keep.
LEMMA Undecided ==
  ASSUME NumberInv, state # "done", number' = number, negative' = negative
  PROVE  /\ Pending' /\ NumberIsRead' /\ MaxIntegerValue' = MaxIntegerValue
         /\ MaxIntegerValue \in Nat /\ 10 <= MaxIntegerValue /\ MaxIntegerValue <= MaxLargestUInt
<1>1. number' = Undecoded
  BY DEF NumberInv, Pending
<1>2. Pending' /\ NumberIsRead'
  BY <1>1 DEF Pending, NumberIsRead, IsDecoded, Undecoded
<1>3. MaxIntegerValue' = MaxIntegerValue
  BY DEF MaxIntegerValue
<1> QED
  BY <1>2, <1>3, Magnitude DEF NumberInv, NumberTyping

LEMMA DigitKeeps ==
  ASSUME NumberInv, NEW c \in 0 .. 9, NEW last \in BOOLEAN, Digit(c, last)
  PROVE  NumberInv'
<1>1. state \in {"start", "digits"} /\ NumberTyping /\ value = exact /\ ~point
  BY DEF Digit, NumberInv, ValueIsExact
<1>2. Pending' /\ NumberIsRead' /\ MaxIntegerValue' = MaxIntegerValue
      /\ MaxIntegerValue \in Nat /\ 10 <= MaxIntegerValue /\ MaxIntegerValue <= MaxLargestUInt
  BY <1>1, Undecided DEF Digit, Reads
<1>3. value * 10 + c <= MaxIntegerValue
  BY <1>1, <1>2, OneMoreDigit DEF Digit, Fits, Threshold, NumberTyping
<1>4. value * 10 + c \in Nat /\ MaxLargestUInt + 1 \in Nat /\ value * 10 + c < MaxLargestUInt + 1
  BY <1>1, <1>2, <1>3, NumberAssumption DEF NumberTyping, MaxLargestUInt
<1>5. value' = value * 10 + c /\ exact' = value'
  BY <1>1, <1>4, Remainder DEF Digit, Reads, Unsigned
<1>6. NumberTyping'
  BY <1>1, <1>4, <1>5 DEF NumberTyping, Digit, Reads
<1>7. ValueIsExact' /\ GivenUp'
  BY <1>1, <1>2, <1>3, <1>5 DEF ValueIsExact, GivenUp, Digit, Reads
<1> QED
  BY <1>2, <1>6, <1>7 DEF NumberInv

LEMMA TooLargeKeeps ==
  ASSUME NumberInv, NEW c \in 0 .. 9, NEW last \in BOOLEAN, TooLarge(c, last)
  PROVE  NumberInv'
<1>1. state \in {"start", "digits"} /\ NumberTyping /\ value = exact /\ ~point
  BY DEF TooLarge, NumberInv, ValueIsExact
<1>2. Pending' /\ NumberIsRead' /\ MaxIntegerValue' = MaxIntegerValue
      /\ MaxIntegerValue \in Nat /\ 10 <= MaxIntegerValue
  BY <1>1, Undecided DEF TooLarge, Reads
<1>3. exact' = value * 10 + c /\ exact' \in Nat
  BY <1>1 DEF TooLarge, Reads, NumberTyping
<1>4. Threshold <= value /\ (last => Threshold < value \/ ~(c <= MaxIntegerValue % 10))
  BY <1>1, <1>2 DEF TooLarge, Fits, Threshold, NumberTyping
<1>5. MaxIntegerValue < 10 * exact' /\ (last => MaxIntegerValue < exact')
  BY <1>1, <1>2, <1>3, <1>4, OneMoreDigit DEF Threshold, NumberTyping
<1>6. NumberTyping'
  BY <1>1, <1>3 DEF NumberTyping, TooLarge, Reads
<1>7. ValueIsExact' /\ GivenUp'
  BY <1>1, <1>2, <1>5 DEF ValueIsExact, GivenUp, TooLarge, Reads
<1> QED
  BY <1>2, <1>6, <1>7 DEF NumberInv

LEMMA DoubleDigitKeeps ==
  ASSUME NumberInv, NEW c \in 0 .. 9, NEW last \in BOOLEAN, DoubleDigit(c, last)
  PROVE  NumberInv'
<1>1. state = "double" /\ NumberTyping /\ MaxIntegerValue < 10 * exact /\ ~point
  BY DEF DoubleDigit, NumberInv, GivenUp
<1>2. Pending' /\ NumberIsRead' /\ MaxIntegerValue' = MaxIntegerValue /\ MaxIntegerValue \in Nat
  BY <1>1, Undecided DEF DoubleDigit, Reads
<1>3. exact' \in Nat /\ MaxIntegerValue < exact' /\ MaxIntegerValue < 10 * exact'
  BY <1>1, <1>2 DEF DoubleDigit, Reads, NumberTyping
<1>4. NumberTyping'
  BY <1>1, <1>3 DEF NumberTyping, DoubleDigit, Reads
<1>5. ValueIsExact' /\ GivenUp'
  BY <1>1, <1>2, <1>3 DEF ValueIsExact, GivenUp, DoubleDigit, Reads
<1> QED
  BY <1>2, <1>4, <1>5 DEF NumberInv

LEMMA DecodedKeeps ==
  ASSUME NumberInv, Decoded
  PROVE  NumberInv'
<1>1. NumberTyping /\ value = exact /\ exact <= MaxIntegerValue /\ ~point
  BY DEF Decoded, NumberInv, ValueIsExact
<1>2. MaxIntegerValue = IF negative THEN MaxLargestInt + 1 ELSE MaxLargestUInt
  BY <1>1, Magnitude DEF NumberTyping
<1>3. NumberTyping' /\ ValueIsExact' /\ GivenUp' /\ Pending'
  BY <1>1 DEF Decoded, NumberTyping, ValueIsExact, GivenUp, Pending
<1>4. NumberIsRead'
  <2> USE NumberAssumption DEF MaxLargestUInt, MinLargestInt
  <2>1. MaxLargestUInt + 1 = 2 * MaxLargestInt + 2 /\ MaxLargestInt \in Nat /\ value \in Nat
    BY <1>1 DEF NumberTyping
  <2>2. CASE ~negative
    BY <1>1, <1>2, <2>1, <2>2 DEF Decoded, NumberIsRead, IsDecoded, Number
  <2>3. CASE negative
    <3>1. value <= MaxLargestInt + 1 /\ value <= MaxLargestUInt
      BY <1>1, <1>2, <2>1, <2>3
    <3>2. Unsigned(value) = value /\ (0 < value => Unsigned(-value) = MaxLargestUInt + 1 - value)
      BY <2>1, <3>1, Casts
    <3>3. Signed(-Signed(value)) = -value
      <4>1. CASE value = 0
        BY <2>1, <3>2, <4>1 DEF Signed
      <4>2. CASE 0 < value /\ value <= MaxLargestInt
        BY <2>1, <3>2, <4>2 DEF Signed
      <4>3. CASE value = MaxLargestInt + 1
        <5>1. Signed(value) = -value
          BY <2>1, <3>2, <4>3 DEF Signed
        <5>2. -Signed(value) = value
          BY <2>1, <5>1
        <5> QED
          BY <5>1, <5>2
      <4> QED
        BY <2>1, <3>1, <4>1, <4>2, <4>3
    <3> QED
      BY <1>1, <2>1, <2>3, <3>1, <3>3 DEF Decoded, NumberIsRead, IsDecoded, Number
  <2> QED
    BY <1>1, <2>2, <2>3 DEF NumberTyping
<1> QED
  BY <1>3, <1>4 DEF NumberInv

\* A token that is read as a double has a point, or holds no integer that fits.
LEMMA DecodedDoubleKeeps ==
  ASSUME NumberInv, DecodedDouble
  PROVE  NumberInv'
<1>1. NumberTyping /\ (point \/ MaxIntegerValue < exact)
  BY DEF DecodedDouble, NumberInv, GivenUp
<1>2. MaxIntegerValue = IF negative THEN MaxLargestInt + 1 ELSE MaxLargestUInt
  BY <1>1, Magnitude DEF NumberTyping
<1>3. NumberTyping' /\ ValueIsExact' /\ GivenUp' /\ Pending'
  BY <1>1 DEF DecodedDouble, NumberTyping, ValueIsExact, GivenUp, Pending
<1>4. point \/ Number \notin MinLargestInt .. MaxLargestUInt
  BY <1>1, <1>2, NumberAssumption DEF NumberTyping, Number, MinLargestInt, MaxLargestUInt
<1>5. Number' = Number /\ point' = point /\ number' = [type |-> "real", value |-> Nearest(Halves')]
  BY DEF DecodedDouble, Number, Halves
<1>6. NumberIsRead'
  BY <1>4, <1>5 DEF NumberIsRead, MinLargestInt, MaxLargestUInt
<1> QED
  BY <1>3, <1>6 DEF NumberInv

LEMMA NumberKeeps == NumberInv /\ [NumberNext]_numberVars => NumberInv'
<1> SUFFICES ASSUME NumberInv, [NumberNext]_numberVars PROVE NumberInv'
  OBVIOUS
<1>1. ASSUME NEW c \in 0 .. 9, NEW last \in BOOLEAN, Digit(c, last) PROVE NumberInv'
  BY <1>1, DigitKeeps
<1>2. ASSUME NEW c \in 0 .. 9, NEW last \in BOOLEAN, TooLarge(c, last) PROVE NumberInv'
  BY <1>2, TooLargeKeeps
<1>3. ASSUME NEW c \in 0 .. 9, NEW last \in BOOLEAN, DoubleDigit(c, last) PROVE NumberInv'
  BY <1>3, DoubleDigitKeeps
<1>4. CASE SignOnly
  <2>1. Pending' /\ NumberIsRead' /\ MaxIntegerValue' = MaxIntegerValue
    BY <1>4, Undecided DEF SignOnly
  <2> QED
    BY <1>4, <2>1 DEF SignOnly, NumberInv, NumberTyping, ValueIsExact, GivenUp
<1>5. CASE Decoded
  BY <1>5, DecodedKeeps
<1>6. CASE Point
  <2>1. Pending' /\ NumberIsRead' /\ MaxIntegerValue' = MaxIntegerValue
    BY <1>6, Undecided DEF Point
  <2> QED
    BY <1>6, <2>1 DEF Point, NumberInv, NumberTyping, ValueIsExact, GivenUp
<1>7. CASE NoDigits
  BY <1>7 DEF NoDigits, NotANumber, NumberInv, NumberTyping, ValueIsExact, GivenUp, Pending, NumberIsRead, IsDecoded
<1>8. CASE DecodedDouble
  BY <1>8, DecodedDoubleKeeps
<1>9. CASE UNCHANGED numberVars
  BY <1>9 DEF numberVars, NumberInv, NumberTyping, ValueIsExact, GivenUp, Pending, NumberIsRead, IsDecoded,
     Number, Halves, MaxIntegerValue
<1> QED
  BY <1>1, <1>2, <1>3, <1>4, <1>5, <1>6, <1>7, <1>8, <1>9 DEF NumberNext, NumberDone

-----------------------------------------------------------------------------

\* decodeNumber never wraps: its local is the number that was read, and within
\* maxIntegerValue, as long as it reads digits.
THEOREM NothingWraps == NumberSpec => [](NumberTyping /\ ValueIsExact)
<1>1. NumberInv => NumberTyping /\ ValueIsExact
  BY DEF NumberInv
<1> QED
  BY <1>1, NumberStarts, NumberKeeps, PTL DEF NumberSpec

\* Every integer that fits is read as it is, whatever the width of the integers
\* and the precision of doubles (decodeNumber, decodeDouble).
THEOREM NumberIsReadAlways == NumberSpec => []NumberIsRead
<1>1. NumberInv => NumberIsRead
  BY DEF NumberInv
<1> QED
  BY <1>1, NumberStarts, NumberKeeps, PTL DEF NumberSpec

-----------------------------------------------------------------------------
(* Accessors.                                                              *)

\* The widths and limits as plain facts, for the lemmas on accessors.
LEMMA Widths ==
  /\ MaxInt \in Nat /\ MaxLargestInt \in Nat /\ MaxExact \in Nat /\ MaxInt < MaxLargestInt
  /\ MaxLargestUInt = 2 * MaxLargestInt + 1 /\ MaxUInt = 2 * MaxInt + 1
  /\ MaxHalves = 2 * (MaxExact + MaxLargestUInt + 1) /\ MaxHalves \in Nat
  /\ Low("Int") = -MaxInt - 1 /\ High("Int") = MaxInt
  /\ Low("UInt") = 0 /\ High("UInt") = MaxUInt
  /\ Low("Int64") = -MaxLargestInt - 1 /\ High("Int64") = MaxLargestInt
  /\ Low("UInt64") = 0 /\ High("UInt64") = MaxLargestUInt
BY NumberAssumption DEF MaxLargestUInt, MaxUInt, MaxHalves, Low, High, MinLargestInt

\* A double below the one that a limit is rounded to is below the limit.
LEMMA BelowLimit ==
  ASSUME NEW h \in {MaxLargestInt, MaxLargestUInt},
         NEW x \in Int, Nearest(x) = x, -2 * (MaxLargestInt + 1) <= x, x < Nearest(2 * h)
  PROVE  x < 2 * h
<1>1. 2 * h \in -MaxHalves .. MaxHalves /\ 2 * h < 2 * (MaxLargestUInt + 1)
  BY Widths
<1>2. Nearest(2 * h) \in Int /\ Nearest(2 * h) <= 2 * (MaxLargestUInt + 1)
  <2>1. \A n \in -MaxHalves .. MaxHalves, d \in Double : n <= d => Nearest(n) \in Int /\ Nearest(n) <= d
    BY RoundingAssumption
  <2>2. 2 * (MaxLargestUInt + 1) \in Double /\ 2 * h <= 2 * (MaxLargestUInt + 1)
    BY <1>1, RoundingAssumption, Widths
  <2> QED
    BY <1>1, <2>1, <2>2
<1>3. x \in -MaxHalves .. MaxHalves
  BY <1>1, <1>2, Widths
<1>4. x \in Double
  BY <1>3 DEF Double
<1> QED
  BY <1>1, <1>2, <1>4, RoundingAssumption, Widths

\* Every limit of Int and UInt is a double, and so are the least numbers of the
\* wider types, which InRange compares with.
LEMMA ExactLimits ==
  /\ \A t \in IntegerType : Nearest(2 * Low(t)) = 2 * Low(t)
  /\ \A t \in {"Int", "UInt"} : Nearest(2 * High(t)) = 2 * High(t)
  /\ Nearest(2 * MaxLargestInt) \in Int /\ Nearest(2 * MaxLargestUInt) \in Int
  /\ 0 <= Nearest(2 * MaxLargestInt) /\ Nearest(2 * MaxLargestInt) <= Nearest(2 * MaxLargestUInt)
<1> DEFINE small == -2 * (MaxInt + 1) .. 2 * MaxUInt
<1>1. /\ 2 * Low("Int") \in small /\ 2 * Low("UInt") \in small
      /\ 2 * High("Int") \in small /\ 2 * High("UInt") \in small
      /\ 2 * Low("UInt64") \in small /\ 0 \in small
  BY Widths
<1>2. \A n \in small : n \in Double
  BY RoundingAssumption
<1>3. 2 * Low("Int64") = -2 * (MaxLargestInt + 1) /\ -2 * (MaxLargestInt + 1) \in Double
  BY Widths, RoundingAssumption
<1>4. \A d \in Double : Nearest(d) = d
  BY DEF Double
<1>5. \A t \in IntegerType : Nearest(2 * Low(t)) = 2 * Low(t)
  BY <1>1, <1>2, <1>3, <1>4 DEF IntegerType
<1>6. \A t \in {"Int", "UInt"} : Nearest(2 * High(t)) = 2 * High(t)
  BY <1>1, <1>2, <1>4
<1>7. 2 * MaxLargestInt \in -MaxHalves .. MaxHalves /\ 2 * MaxLargestUInt \in -MaxHalves .. MaxHalves
  BY Widths
<1>8. 0 \in Double /\ 2 * (MaxLargestInt + 1) \in Double
  BY <1>1, <1>2, RoundingAssumption
<1>9. /\ Nearest(2 * MaxLargestInt) \in Int /\ Nearest(2 * MaxLargestUInt) \in Int
      /\ 0 <= Nearest(2 * MaxLargestInt)
      /\ Nearest(2 * MaxLargestInt) <= 2 * (MaxLargestInt + 1)
      /\ 2 * (MaxLargestInt + 1) <= Nearest(2 * MaxLargestUInt)
  <2>1. 0 <= 2 * MaxLargestInt /\ 2 * MaxLargestInt <= 2 * (MaxLargestInt + 1)
        /\ 2 * (MaxLargestInt + 1) <= 2 * MaxLargestUInt
    BY Widths, NumberAssumption
  <2> QED
    BY <1>7, <1>8, <2>1, RoundingAssumption
<1> QED
  BY <1>5, <1>6, <1>9, Widths

\* What the accessors are to a value, whatever it holds.
Agree(v) ==
  /\ \A t \in IntegerType : Is(t, v) =>
       As(t, v) = {IF v.type = "real" THEN v.value \div 2 ELSE v.value}
  /\ \A t \in IntegerType : AtRoundedLimit(t, v) \/ \A n \in As(t, v) : Converted(n, v)
  /\ \A t \in {"Int", "UInt"} : IsConvertibleTo(t, v) <=> As(t, v) # {}
  /\ IsIntegral(v) <=> Is("Int64", v) \/ Is("UInt64", v)
  /\ IsConvertibleToNull(v) <=> ~AsBool(v)

LEMMA IntegerAgrees ==
  ASSUME NEW v, v.type # "real", v.value \in MinLargestInt .. MaxLargestUInt
  PROVE  Agree(v)
<1>1. v.value \in Int /\ 2 * v.value \in -MaxHalves .. MaxHalves
  BY Widths DEF MinLargestInt
<1>2. \A t \in IntegerType : As(t, v) = IF Is(t, v) THEN {v.value} ELSE {}
  BY DEF As
<1>3. \A t \in IntegerType : Is(t, v) <=> v.value \in Low(t) .. High(t)
  BY DEF Is
<1>4. Is("Int64", v) \/ Is("UInt64", v)
  BY <1>1, <1>3, Widths DEF MinLargestInt, IntegerType
<1>5. IsIntegral(v)
  BY DEF IsIntegral
<1>6. IsConvertibleToNull(v) <=> ~AsBool(v)
  <2>1. -1 \in Double /\ 1 \in Double /\ 0 \in Double
    BY RoundingAssumption, Widths
  <2>2. Nearest(2 * v.value) \in Int /\ (1 <= 2 * v.value => 1 <= Nearest(2 * v.value))
        /\ (2 * v.value <= -1 => Nearest(2 * v.value) <= -1)
    BY <1>1, <2>1, RoundingAssumption
  <2>3. Nearest(0) = 0
    BY <2>1 DEF Double
  <2> QED
    BY <1>1, <2>2, <2>3 DEF IsConvertibleToNull, AsBool, AsDouble
<1>7. \A t \in IntegerType : \A n \in As(t, v) : Converted(n, v)
  BY <1>2 DEF Converted
<1> QED
  BY <1>2, <1>4, <1>5, <1>6, <1>7 DEF Agree, IsConvertibleTo, IntegerType

LEMMA TruncateIs ==
  ASSUME NEW n \in Int
  PROVE  /\ Truncate(n) \in Int
         /\ n % 2 = 0 => Truncate(n) = n \div 2 /\ n = 2 * (n \div 2)
         /\ n < 0 => n \in {2 * Truncate(n) - 1, 2 * Truncate(n)}
         /\ 0 <= n => n \in {2 * Truncate(n), 2 * Truncate(n) + 1}
         /\ \A l \in Int, h \in Int : l <= 0 /\ 2 * l <= n /\ n <= 2 * h /\ 0 <= h => Truncate(n) \in l .. h
BY DEF Truncate

LEMMA RealAgrees ==
  ASSUME NEW x \in Int, Nearest(x) = x
  PROVE  Agree([type |-> "real", value |-> x])
<1> DEFINE v == [type |-> "real", value |-> x]
<1>1. v.type = "real" /\ v.value = x
  OBVIOUS
<1>2. ASSUME NEW t \in IntegerType, Is(t, v)
      PROVE  InRange(t, v) /\ Truncate(x) = x \div 2 /\ Truncate(x) \in Low(t) .. High(t)
  <2>1. x % 2 = 0 /\ 2 * Low(t) <= x
    BY <1>2 DEF Is, HasNoFraction
  <2>2. x <= Nearest(2 * High(t)) /\ x <= 2 * High(t)
    <3>1. CASE t \in {"Int", "UInt"}
      BY <1>2, <3>1, ExactLimits, Widths DEF Is, Wide
    <3>2. CASE t \in {"Int64", "UInt64"}
      <4>1. x < Nearest(2 * High(t))
        BY <1>2, <3>2 DEF Is, Wide
      <4>2. High(t) \in {MaxLargestInt, MaxLargestUInt} /\ -2 * (MaxLargestInt + 1) <= x
        BY <2>1, <3>2, Widths
      <4> QED
        BY <4>1, <4>2, BelowLimit, ExactLimits, Widths
    <3> QED
      BY <3>1, <3>2 DEF IntegerType
  <2>3. Low(t) \in Int /\ High(t) \in Int /\ Low(t) <= 0 /\ 0 <= High(t)
    BY Widths DEF IntegerType
  <2> QED
    BY <1>1, <2>1, <2>2, <2>3, TruncateIs, ExactLimits DEF InRange
<1>3. ASSUME NEW t \in {"Int", "UInt"}, InRange(t, v)
      PROVE  Truncate(x) \in Low(t) .. High(t)
  <2>1. 2 * Low(t) <= x /\ x <= 2 * High(t)
    BY <1>3, ExactLimits DEF InRange, IntegerType
  <2>2. Low(t) \in Int /\ High(t) \in Int /\ Low(t) <= 0 /\ 0 <= High(t)
    BY Widths
  <2> QED
    BY <2>1, <2>2, TruncateIs
<1>4. \A t \in IntegerType : Is(t, v) => As(t, v) = {x \div 2}
  BY <1>1, <1>2 DEF As
<1>5. \A t \in {"Int", "UInt"} : As(t, v) = IF InRange(t, v) THEN {Truncate(x)} ELSE {}
  BY <1>1, <1>3 DEF As
<1>6. \A t \in {"Int", "UInt"} : IsConvertibleTo(t, v) <=> InRange(t, v)
  BY <1>1, <1>2 DEF IsConvertibleTo, IntegerType
<1>7. IsIntegral(v) <=> Is("Int64", v) \/ Is("UInt64", v)
  <2>1. /\ 2 * MinLargestInt \in Int /\ 2 * MinLargestInt <= 0
        /\ Low("Int64") = MinLargestInt
    BY Widths DEF MinLargestInt
  <2>2. /\ Is("Int64", v) <=> HasNoFraction(v) /\ 2 * MinLargestInt <= x /\ x < Nearest(2 * MaxLargestInt)
        /\ Is("UInt64", v) <=> HasNoFraction(v) /\ 0 <= x /\ x < Nearest(2 * MaxLargestUInt)
    BY <1>1, <2>1, Widths DEF Is, Wide
  <2>3. IsIntegral(v) <=> HasNoFraction(v) /\ 2 * MinLargestInt <= x /\ x < Nearest(2 * MaxLargestUInt)
    BY <1>1 DEF IsIntegral
  <2> HIDE DEF v
  <2> QED
    BY <2>1, <2>2, <2>3, ExactLimits
<1>8. IsConvertibleToNull(v) <=> ~AsBool(v)
  BY <1>1 DEF IsConvertibleToNull, AsBool, AsDouble
<1>9. ASSUME NEW t \in {"Int64", "UInt64"}, InRange(t, v), ~AtRoundedLimit(t, v)
      PROVE  Truncate(x) \in Low(t) .. High(t)
  <2>1. High(t) \in {MaxLargestInt, MaxLargestUInt} /\ Low(t) \in Int /\ High(t) \in Int
        /\ Low(t) <= 0 /\ 0 <= High(t) /\ -2 * (MaxLargestInt + 1) <= 2 * Low(t)
    BY Widths
  <2>2. 2 * Low(t) <= x /\ x <= Nearest(2 * High(t)) /\ Nearest(2 * High(t)) \in Int
    BY <1>9, <2>1, ExactLimits DEF InRange, IntegerType
  <2>3. x <= 2 * High(t)
    <3>1. CASE x = Nearest(2 * High(t))
      BY <1>1, <1>9, <2>1, <3>1 DEF AtRoundedLimit
    <3>2. CASE x < Nearest(2 * High(t))
      <4>1. -2 * (MaxLargestInt + 1) <= x
        BY <2>1, <2>2, Widths
      <4>2. x < 2 * High(t)
        BY <2>1, <3>2, <4>1, BelowLimit
      <4> QED
        BY <2>1, <4>2
    <3> QED
      BY <2>2, <3>1, <3>2
  <2> QED
    BY <2>1, <2>2, <2>3, TruncateIs
<1>10. \A t \in IntegerType : AtRoundedLimit(t, v) \/ \A n \in As(t, v) : n = Truncate(x)
  BY <1>1, <1>3, <1>9 DEF As, IntegerType
<1>11. Converted(Truncate(x), v)
  BY <1>1, TruncateIs DEF Converted
<1> HIDE DEF v
<1>12. Agree(v)
  BY <1>1, <1>4, <1>5, <1>6, <1>7, <1>8, <1>10, <1>11 DEF Agree
<1> QED
  BY <1>12 DEF v

\* The accessors of a Value agree on every number that can be decoded, but for
\* the one double each of asInt64 and asUInt64 casts out of its range, however
\* wide the integers and the doubles are (isInt, asInt, isIntegral, asBool and
\* their like).
THEOREM AccessorsAgreeAlways == NumberSpec => []AccessorsAgree
<1>1. NumberInv => AccessorsAgree
  <2> SUFFICES ASSUME NumberInv, IsDecoded PROVE Agree(number)
    BY DEF AccessorsAgree, Agree
  <2>1. NumberTyping /\ NumberIsRead
    BY DEF NumberInv
  <2>2. CASE number.type \in {"int", "uint"} /\ number.value = Number
             /\ Number \in MinLargestInt .. MaxLargestUInt
    BY <2>2, IntegerAgrees
  <2>3. CASE number = [type |-> "real", value |-> Nearest(Halves)]
    <3>1. Halves \in -MaxHalves .. MaxHalves
      BY <2>1, Widths DEF NumberTyping, Halves
    <3>2. Nearest(Halves) \in Int /\ Nearest(Nearest(Halves)) = Nearest(Halves)
      BY <3>1, RoundingAssumption
    <3> QED
      BY <2>3, <3>2, RealAgrees
  <2> QED
    BY <2>1, <2>2, <2>3 DEF NumberIsRead
<1> QED
  BY <1>1, NumberStarts, NumberKeeps, PTL DEF NumberSpec

-----------------------------------------------------------------------------
(* Strings.                                                                *)
(*                                                                         *)
(* decodeString only ever stands where readString has begun to read, so it *)
(* neither comes upon the quote that ends the string nor is left with half *)
(* an escape.  Where it has stood is where a JSON string must be cut, as   *)
(* no unit begins with another one.                                        *)

\* The places where readString has begun to read a character or an escape.
ReadAt(reads) ==
  /\ {0, Len(text)} \subseteq reads /\ reads \subseteq 0 .. Len(text)
  /\ \A n \in reads \ {Len(text)} :
       /\ text[n + 1] # "quote"
       /\ n + (IF text[n + 1] = "escape" THEN 2 ELSE 1) \in reads

\* The places where decodeString has stood.
DecodedAt(cuts) ==
  /\ {0, position - 1} \subseteq cuts /\ cuts \subseteq 0 .. position - 1
  /\ Cardinality(cuts) = Len(decoded) + 1
  /\ \A n \in cuts \ {position - 1} : \E u \in Units :
       Spans(u, text, cuts, n) /\ decoded[Cardinality({k \in cuts : k <= n})] = u[2]

StringTyping ==
  /\ text \in Seq(Character)
  /\ outcome = "reading" => Len(text) <= MaxText
  /\ position \in 1 .. Len(text) + 1
  /\ decoded \in Seq(Seq(Character))
  /\ outcome \in {"reading", "decoding", "decoded", "bad", "unterminated"}

StringReads ==
  /\ outcome \in {"reading", "decoding"} => \E reads : ReadAt(reads) /\ position - 1 \in reads
  /\ outcome = "reading" => position = 1

StringInv ==
  /\ StringTyping
  /\ StringReads
  /\ \E cuts : DecodedAt(cuts)
  /\ ReadsString

\* The words of the code and of the reference, each with its length.
LEMMA UnitsAre ==
  ASSUME NEW u \in Units
  PROVE  /\ u[1] \in Seq(Character) /\ u[2] \in Seq(Character) /\ Len(u[1]) \in 1 .. 6
         /\ DOMAIN u[1] = 1 .. Len(u[1])
         /\ \A i \in DOMAIN u[1] : i >= 3 => u[1][i] # "quote"
<1>1. ASSUME NEW c \in Character \ {"quote", "escape"}, u = << <<c>>, <<c>> >>
      PROVE  u[1] \in Seq(Character) /\ u[2] \in Seq(Character) /\ Len(u[1]) = 1
  BY <1>1
<1>2. ASSUME NEW c \in {"quote", "escape"}, u = << <<"escape", c>>, <<c>> >>
      PROVE  u[1] \in Seq(Character) /\ u[2] \in Seq(Character) /\ Len(u[1]) = 2
  BY <1>2 DEF Character
<1>3. ASSUME NEW h \in Hex, u = << <<"escape", "u", h>>, <<"u", h>> >>
      PROVE  /\ u[1] \in Seq(Character) /\ u[2] \in Seq(Character) /\ Len(u[1]) = 3
             /\ u[1][3] = h
  BY <1>3 DEF Character
<1>4. ASSUME NEW h \in Hex, u = << <<"escape", "u", "hi", "escape", "u", h>>, <<"u", "hi", h>> >>
      PROVE  /\ u[1] \in Seq(Character) /\ u[2] \in Seq(Character) /\ Len(u[1]) = 6
             /\ u[1][3] = "hi" /\ u[1][4] = "escape" /\ u[1][5] = "u" /\ u[1][6] = h
  BY <1>4 DEF Character, Hex
<1> QED
  BY <1>1, <1>2, <1>3, <1>4 DEF Units, Unit, Surrogate, Hex

LEMMA WordStands ==
  ASSUME NEW s, NEW n \in Nat
  PROVE  /\ \A a : Stands(<<a>>, s, n) <=> n + 1 <= Len(s) /\ s[n + 1] = a
         /\ \A a, b : Stands(<<a, b>>, s, n) <=> n + 2 <= Len(s) /\ s[n + 1] = a /\ s[n + 2] = b
         /\ \A a, b, c : Stands(<<a, b, c>>, s, n) <=>
              n + 3 <= Len(s) /\ s[n + 1] = a /\ s[n + 2] = b /\ s[n + 3] = c
         /\ \A a, b, c, d, e, f : Stands(<<a, b, c, d, e, f>>, s, n) <=>
              /\ n + 6 <= Len(s) /\ s[n + 1] = a /\ s[n + 2] = b /\ s[n + 3] = c
              /\ s[n + 4] = d /\ s[n + 5] = e /\ s[n + 6] = f
<1>1. ASSUME NEW a PROVE Stands(<<a>>, s, n) <=> n + 1 <= Len(s) /\ s[n + 1] = a
  BY DEF Stands
<1>2. ASSUME NEW a, NEW b
      PROVE  Stands(<<a, b>>, s, n) <=> n + 2 <= Len(s) /\ s[n + 1] = a /\ s[n + 2] = b
  BY DEF Stands
<1>3. ASSUME NEW a, NEW b, NEW c
      PROVE  Stands(<<a, b, c>>, s, n) <=>
               n + 3 <= Len(s) /\ s[n + 1] = a /\ s[n + 2] = b /\ s[n + 3] = c
  BY DEF Stands
<1>4. ASSUME NEW a, NEW b, NEW c, NEW d, NEW e, NEW f
      PROVE  Stands(<<a, b, c, d, e, f>>, s, n) <=>
               /\ n + 6 <= Len(s) /\ s[n + 1] = a /\ s[n + 2] = b /\ s[n + 3] = c
               /\ s[n + 4] = d /\ s[n + 5] = e /\ s[n + 6] = f
  BY DEF Stands
<1> QED
  BY <1>1, <1>2, <1>3, <1>4

\* No unit begins with another one.
LEMMA PrefixFree ==
  ASSUME NEW s, NEW n \in Nat, NEW u \in Units, NEW w \in Unit, Stands(u[1], s, n), Stands(w[1], s, n)
  PROVE  Len(u[1]) = Len(w[1])
<1>1. \/ Len(w[1]) = 1 /\ s[n + 1] \notin {"quote", "escape"}
      \/ Len(w[1]) = 2 /\ s[n + 1] = "escape" /\ s[n + 2] \in {"quote", "escape"}
      \/ Len(w[1]) = 3 /\ s[n + 1] = "escape" /\ s[n + 2] = "u" /\ s[n + 3] = "0"
      \/ Len(w[1]) = 6 /\ s[n + 1] = "escape" /\ s[n + 2] = "u" /\ s[n + 3] = "hi"
  <2>1. ASSUME NEW c \in Character \ {"quote", "escape"}, w = << <<c>>, <<c>> >>
        PROVE  Len(w[1]) = 1 /\ s[n + 1] \notin {"quote", "escape"}
    BY <2>1, WordStands
  <2>2. ASSUME NEW c \in {"quote", "escape"}, w = << <<"escape", c>>, <<c>> >>
        PROVE  Len(w[1]) = 2 /\ s[n + 1] = "escape" /\ s[n + 2] \in {"quote", "escape"}
    BY <2>2, WordStands
  <2>3. CASE w = << <<"escape", "u", "0">>, <<"u", "0">> >>
    BY <2>3, WordStands
  <2>4. CASE w = << <<"escape", "u", "hi", "escape", "u", "lo">>, <<"u", "hi", "lo">> >>
    BY <2>4, WordStands
  <2> QED
    BY <2>1, <2>2, <2>3, <2>4 DEF Unit
<1>2. \/ Len(u[1]) = 1 /\ s[n + 1] \notin {"quote", "escape"}
      \/ Len(u[1]) = 2 /\ s[n + 1] = "escape" /\ s[n + 2] \in {"quote", "escape"}
      \/ Len(u[1]) = 3 /\ s[n + 1] = "escape" /\ s[n + 2] = "u" /\ s[n + 3] \in {"0", "lo"}
      \/ Len(u[1]) = 6 /\ s[n + 1] = "escape" /\ s[n + 2] = "u" /\ s[n + 3] = "hi"
  <2>1. ASSUME NEW c \in Character \ {"quote", "escape"}, u = << <<c>>, <<c>> >>
        PROVE  Len(u[1]) = 1 /\ s[n + 1] \notin {"quote", "escape"}
    BY <2>1, WordStands
  <2>2. ASSUME NEW c \in {"quote", "escape"}, u = << <<"escape", c>>, <<c>> >>
        PROVE  Len(u[1]) = 2 /\ s[n + 1] = "escape" /\ s[n + 2] \in {"quote", "escape"}
    BY <2>2, WordStands
  <2>3. ASSUME NEW h \in {"0", "lo"}, u = << <<"escape", "u", h>>, <<"u", h>> >>
        PROVE  Len(u[1]) = 3 /\ s[n + 1] = "escape" /\ s[n + 2] = "u" /\ s[n + 3] \in {"0", "lo"}
    BY <2>3, WordStands
  <2>4. ASSUME NEW h \in Hex, u = << <<"escape", "u", "hi", "escape", "u", h>>, <<"u", "hi", h>> >>
        PROVE  Len(u[1]) = 6 /\ s[n + 1] = "escape" /\ s[n + 2] = "u" /\ s[n + 3] = "hi"
    BY <2>4, WordStands
  <2> QED
    BY <2>1, <2>2, <2>3, <2>4 DEF Units, Unit, Surrogate, Hex
<1> QED
  BY <1>1, <1>2

LEMMA StringStarts == StringInit => StringInv
<1> SUFFICES ASSUME StringInit PROVE StringInv
  OBVIOUS
<1>1. StringTyping /\ ReadsString
  BY TextAssumption DEF StringInit, StringTyping, ReadsString
<1>2. ReadAt({0}) /\ position = 1
  BY DEF StringInit, ReadAt
<1>3. DecodedAt({0})
  <2>1. Cardinality({0}) = 1
    BY FS_Singleton
  <2> QED
    BY <2>1 DEF StringInit, DecodedAt
<1> QED
  BY <1>1, <1>2, <1>3 DEF StringInv, StringReads

\* readString goes on by a character or by an escape.
LEMMA ReadsOnKeeps ==
  ASSUME StringInv, NEW s \in Seq(Character), ReadsOn(s),
         \/ Len(s) = 1 /\ s[1] \notin {"quote", "escape"}
         \/ Len(s) = 2 /\ s[1] = "escape"
  PROVE  StringInv'
<1>1. /\ text \in Seq(Character) /\ Len(text) \in Nat /\ Len(s) \in Nat
      /\ outcome = "reading" /\ position = 1 /\ Len(text) + Len(s) <= MaxText
      /\ UNCHANGED <<position, decoded, outcome>> /\ text' = text \o s
  BY DEF StringInv, StringTyping, StringReads, ReadsOn
<1>2. /\ text' \in Seq(Character) /\ Len(text') = Len(text) + Len(s)
      /\ \A i \in 1 .. Len(text) : text'[i] = text[i]
      /\ text'[Len(text) + 1] = s[1]
  BY <1>1
<1>3. StringTyping' /\ ReadsString'
  BY <1>1, <1>2 DEF StringInv, StringTyping, ReadsString
<1>4. PICK reads : ReadAt(reads)
  BY <1>1 DEF StringInv, StringReads
<1>5. PICK more : more = reads \cup {Len(text')}
  OBVIOUS
<1>6. ReadAt(more)' /\ position' - 1 \in more
  <2>1. ASSUME NEW n \in more \ {Len(text')}
        PROVE  /\ text'[n + 1] # "quote"
               /\ n + (IF text'[n + 1] = "escape" THEN 2 ELSE 1) \in more
    <3>1. n \in reads /\ n \in 0 .. Len(text)
      BY <1>4, <1>5 DEF ReadAt
    <3>2. CASE n = Len(text)
      BY <1>1, <1>2, <1>5, <3>2
    <3>3. CASE n # Len(text)
      <4>1. text'[n + 1] = text[n + 1]
        BY <1>1, <1>2, <3>1, <3>3
      <4> QED
        BY <1>4, <1>5, <3>1, <3>3, <4>1 DEF ReadAt
    <3> QED
      BY <3>2, <3>3
  <2>2. {0, Len(text')} \subseteq more /\ more \subseteq 0 .. Len(text')
    <3>1. Len(text) <= Len(text') /\ Len(text') \in Nat /\ Len(text) \in Nat
      <4>1. Len(text') = Len(text) + Len(s) /\ Len(text) \in Nat /\ Len(s) \in Nat
        BY <1>1, <1>2
      <4> QED
        BY <4>1
    <3>2. reads \subseteq 0 .. Len(text) /\ 0 \in reads
      BY <1>4 DEF ReadAt
    <3>3. \A k \in 0 .. Len(text) : k \in 0 .. Len(text')
      BY <3>1
    <3>4. 0 \in 0 .. Len(text') /\ Len(text') \in 0 .. Len(text')
      BY <3>1
    <3> QED
      BY <1>5, <3>2, <3>3, <3>4
  <2> QED
    BY <1>1, <1>5, <2>1, <2>2 DEF ReadAt
<1>7. PICK cuts : DecodedAt(cuts)
  BY DEF StringInv
<1>8. DecodedAt(cuts)'
  <2>1. cuts \ {0} = {} /\ 0 \in cuts /\ Cardinality(cuts) = Len(decoded) + 1 /\ cuts \subseteq 0 .. 0
    BY <1>1, <1>7 DEF DecodedAt
  <2> QED
    BY <1>1, <2>1 DEF DecodedAt
<1>9. StringReads'
  BY <1>1, <1>6 DEF StringReads
<1> QED
  BY <1>3, <1>8, <1>9 DEF StringInv

\* The word of a unit stands where decodeString is, so it has stood there.
LEMMA DecodesKeeps ==
  ASSUME StringInv, NEW u \in Units, Decodes(u[1], u[2]),
         \A reads : ReadAt(reads) /\ position - 1 \in reads => position - 1 + Len(u[1]) \in reads
  PROVE  StringInv'
<1>1. /\ text \in Seq(Character) /\ Len(text) \in Nat /\ position \in Nat /\ position >= 1 /\ Len(u[1]) \in Nat
      /\ Len(u[1]) >= 1
      /\ outcome = "decoding" /\ position' = position + Len(u[1]) /\ decoded' = Append(decoded, u[2])
      /\ decoded \in Seq(Seq(Character)) /\ u[2] \in Seq(Character) /\ UNCHANGED <<text, outcome>>
      /\ Stands(u[1], text, position - 1)
  <2>1. Len(u[1]) \in Nat /\ Len(u[1]) >= 1 /\ u[2] \in Seq(Character)
    BY UnitsAre
  <2>2. text \in Seq(Character) /\ decoded \in Seq(Seq(Character)) /\ position \in 1 .. Len(text) + 1
    BY DEF StringInv, StringTyping
  <2>3. Len(text) \in Nat /\ position \in Nat /\ position >= 1
    BY <2>2
  <2> QED
    BY <2>1, <2>2, <2>3 DEF Decodes, Begins
<1>2. /\ decoded' \in Seq(Seq(Character)) /\ Len(decoded') = Len(decoded) + 1 /\ Len(decoded) \in Nat
      /\ \A i \in 1 .. Len(decoded) : decoded'[i] = decoded[i]
      /\ decoded'[Len(decoded) + 1] = u[2]
  BY <1>1
<1>3. position - 1 + Len(u[1]) <= Len(text)
  BY <1>1 DEF Stands
<1>4. StringTyping' /\ ReadsString'
  BY <1>1, <1>2, <1>3 DEF StringInv, StringTyping, ReadsString
<1>5. StringReads'
  <2>1. PICK reads : ReadAt(reads) /\ position - 1 \in reads
    BY <1>1 DEF StringInv, StringReads
  <2>2. ReadAt(reads)' /\ position' - 1 \in reads
    <3>1. position' - 1 = position - 1 + Len(u[1]) /\ text' = text
      BY <1>1
    <3>2. position - 1 + Len(u[1]) \in reads
      BY <2>1
    <3> QED
      BY <2>1, <3>1, <3>2 DEF ReadAt
  <2> QED
    BY <1>1, <2>2 DEF StringReads
<1>6. PICK cuts : DecodedAt(cuts)
  BY DEF StringInv
<1>7. PICK p : p = position - 1
  OBVIOUS
<1>8. PICK q : q = position' - 1
  OBVIOUS
<1>9. p \in Nat /\ q \in Nat /\ q = p + Len(u[1]) /\ p < q
  BY <1>1, <1>7, <1>8
<1>10. PICK more : more = cuts \cup {q}
  OBVIOUS
<1>11. /\ cuts \subseteq 0 .. p /\ {0, p} \subseteq cuts /\ IsFiniteSet(cuts) /\ q \notin cuts
       /\ more \subseteq 0 .. q /\ {0, q} \subseteq more
  <2>1. cuts \subseteq 0 .. p /\ {0, p} \subseteq cuts
    BY <1>6, <1>7 DEF DecodedAt
  <2>2. IsFiniteSet(0 .. p)
    BY <1>9, FS_Interval
  <2>3. IsFiniteSet(cuts)
    BY <2>1, <2>2, FS_Subset
  <2>4. more \subseteq 0 .. q /\ q \notin cuts /\ {0, q} \subseteq more
    <3>1. \A k \in 0 .. p : k \in 0 .. q /\ k # q
      BY <1>9
    <3>2. 0 \in 0 .. q /\ q \in 0 .. q
      BY <1>9
    <3> QED
      BY <1>10, <2>1, <3>1, <3>2
  <2> QED
    BY <2>1, <2>3, <2>4
<1>12. Cardinality(more) = Len(decoded') + 1
  <2>1. Cardinality(more) = Cardinality(cuts) + 1
    BY <1>10, <1>11, FS_AddElement
  <2>2. Cardinality(cuts) = Len(decoded) + 1
    BY <1>6 DEF DecodedAt
  <2> QED
    BY <1>2, <2>1, <2>2
<1>13. ASSUME NEW n \in more \ {q}
       PROVE  \E w \in Units : Spans(w, text', more, n) /\ decoded'[Cardinality({k \in more : k <= n})] = w[2]
  <2>1. n \in cuts /\ n \in 0 .. p
    BY <1>10, <1>11, <1>13
  <2>2. {k \in more : k <= n} = {k \in cuts : k <= n}
    BY <1>9, <1>10, <2>1
  <2>3. CASE n = p
    <3>1. {k \in more : k <= n} = cuts
      <4>1. \A k \in 0 .. p : k <= p
        BY <1>9
      <4> QED
        BY <1>11, <2>2, <2>3, <4>1
    <3>2. decoded'[Cardinality({k \in more : k <= n})] = u[2]
      BY <1>2, <1>6, <3>1 DEF DecodedAt
    <3>3. \A k \in more : k <= n \/ n + Len(u[1]) <= k
      BY <1>9, <1>10, <1>11, <2>3
    <3>4. Stands(u[1], text', n)
      BY <1>1, <1>7, <2>3 DEF Stands
    <3> QED
      BY <1>9, <1>11, <2>3, <3>2, <3>3, <3>4 DEF Spans
  <2>4. CASE n # p
    <3>1. PICK w \in Units : Spans(w, text, cuts, n) /\ decoded[Cardinality({k \in cuts : k <= n})] = w[2]
      BY <1>6, <1>7, <2>1, <2>4 DEF DecodedAt
    <3>2. Len(w[1]) \in Nat
      BY UnitsAre
    <3>3. Spans(w, text', more, n)
      <4>1. Stands(w[1], text', n) /\ n + Len(w[1]) \in more
        BY <1>1, <1>10, <3>1 DEF Spans, Stands
      <4>2. n + Len(w[1]) <= p
        <5>1. n + Len(w[1]) \in 0 .. p
          BY <1>11, <3>1 DEF Spans
        <5> QED
          BY <1>9, <5>1
      <4>3. \A k \in more : k <= n \/ n + Len(w[1]) <= k
        <5>1. \A k \in cuts : k <= n \/ n + Len(w[1]) <= k
          BY <3>1 DEF Spans
        <5>2. n + Len(w[1]) <= q
          BY <1>9, <2>1, <3>2, <4>2
        <5> QED
          BY <1>10, <5>1, <5>2
      <4> QED
        BY <4>1, <4>3 DEF Spans
    <3>4. Cardinality({k \in cuts : k <= n}) \in 1 .. Len(decoded)
      <4> DEFINE low == {k \in cuts : k <= n}
      <4>1. low \subseteq cuts /\ p \notin low /\ p \in cuts /\ n \in low
        BY <1>9, <1>11, <2>1, <2>4
      <4>2. IsFiniteSet(low) /\ Cardinality(low) \in Nat
        BY <1>11, <4>1, FS_Subset, FS_CardinalityType
      <4>3. Cardinality(low) < Cardinality(cuts)
        <5>1. Cardinality(low) <= Cardinality(cuts) /\ Cardinality(low) # Cardinality(cuts)
          BY <1>11, <4>1, FS_Subset
        <5>2. Cardinality(cuts) \in Nat
          BY <1>11, FS_CardinalityType
        <5> HIDE DEF low
        <5> QED
          BY <4>2, <5>1, <5>2
      <4>4. Cardinality(low) # 0
        BY <4>1, <4>2, FS_EmptySet
      <4>5. Cardinality(cuts) = Len(decoded) + 1
        BY <1>6 DEF DecodedAt
      <4> HIDE DEF low
      <4>6. Cardinality(low) \in 1 .. Len(decoded)
        BY <1>2, <4>2, <4>3, <4>4, <4>5
      <4> QED
        BY <4>6 DEF low
    <3>5. decoded'[Cardinality({k \in more : k <= n})] = w[2]
      BY <1>2, <2>2, <3>1, <3>4
    <3> QED
      BY <3>3, <3>5
  <2> QED
    BY <2>3, <2>4
<1>14. DecodedAt(more)'
  BY <1>8, <1>11, <1>12, <1>13 DEF DecodedAt
<1> QED
  BY <1>4, <1>5, <1>14 DEF StringInv

\* Where the units of decodeString end, readString has begun to read as well.
LEMMA ReadThrough ==
  ASSUME NEW reads, ReadAt(reads), NEW p \in reads, p < Len(text), Len(text) \in Nat
  PROVE  /\ p \in Nat /\ text[p + 1] # "quote"
         /\ text[p + 1] = "escape" => p + 2 \in reads /\ p + 2 <= Len(text)
         /\ text[p + 1] # "escape" => p + 1 \in reads
BY DEF ReadAt

LEMMA UnitRead ==
  ASSUME NEW u \in Units, NEW reads, ReadAt(reads), NEW p \in reads, Stands(u[1], text, p), Len(text) \in Nat
  PROVE  p + Len(u[1]) \in reads
<1>1. p \in Nat
  BY DEF ReadAt
<1>2. ASSUME NEW c \in Character \ {"quote", "escape"}, u = << <<c>>, <<c>> >>
      PROVE  p + Len(u[1]) \in reads
  <2>1. p + 1 <= Len(text) /\ text[p + 1] = c /\ Len(u[1]) = 1
    BY <1>1, <1>2, WordStands
  <2>2. p < Len(text) /\ text[p + 1] # "escape"
    BY <1>1, <1>2, <2>1
  <2> QED
    BY <2>1, <2>2, ReadThrough
<1>3. ASSUME NEW c \in {"quote", "escape"}, u = << <<"escape", c>>, <<c>> >>
      PROVE  p + Len(u[1]) \in reads
  <2>1. p + 2 <= Len(text) /\ text[p + 1] = "escape" /\ Len(u[1]) = 2
    BY <1>1, <1>3, WordStands
  <2>2. p < Len(text)
    BY <1>1, <2>1
  <2> QED
    BY <2>1, <2>2, ReadThrough
<1>4. ASSUME NEW h \in Hex, p + 3 <= Len(text), text[p + 1] = "escape", text[p + 3] = h
      PROVE  p + 3 \in reads
  <2>1. p + 2 \in reads
    <3>1. p < Len(text)
      BY <1>1, <1>4
    <3> QED
      BY <1>4, <3>1, ReadThrough
  <2>2. text[(p + 2) + 1] # "escape"
    BY <1>1, <1>4 DEF Hex
  <2>3. p + 2 < Len(text)
    BY <1>1, <1>4
  <2>4. (p + 2) + 1 \in reads
    BY <2>1, <2>2, <2>3, ReadThrough
  <2> QED
    BY <1>1, <2>4
<1>5. ASSUME NEW h \in Hex, u = << <<"escape", "u", h>>, <<"u", h>> >>
      PROVE  p + Len(u[1]) \in reads
  <2>1. p + 3 <= Len(text) /\ text[p + 1] = "escape" /\ text[p + 3] = h /\ Len(u[1]) = 3
    BY <1>1, <1>5, WordStands
  <2> QED
    BY <1>4, <2>1
<1>6. ASSUME NEW h \in Hex, u = << <<"escape", "u", "hi", "escape", "u", h>>, <<"u", "hi", h>> >>
      PROVE  p + Len(u[1]) \in reads
  <2>1. /\ p + 6 <= Len(text) /\ text[p + 1] = "escape" /\ text[p + 3] = "hi" /\ Len(u[1]) = 6
        /\ text[p + 4] = "escape" /\ text[p + 6] = h
    BY <1>1, <1>6, WordStands
  <2>2. p + 3 \in reads
    BY <1>1, <1>4, <2>1 DEF Hex
  <2>3. (p + 3) + 2 \in reads
    <3>1. p + 3 < Len(text) /\ text[(p + 3) + 1] = "escape"
      BY <1>1, <2>1
    <3> QED
      BY <2>2, <3>1, ReadThrough
  <2>4. (p + 5) + 1 \in reads
    <3>1. p + 5 < Len(text) /\ text[(p + 5) + 1] # "escape" /\ p + 5 \in reads
      BY <1>1, <2>1, <2>3 DEF Hex
    <3> QED
      BY <3>1, ReadThrough
  <2> QED
    BY <1>1, <2>1, <2>4
<1> QED
  BY <1>2, <1>3, <1>5, <1>6 DEF Units, Unit, Surrogate, Hex

LEMMA DecodingKeeps ==
  ASSUME StringInv, DecodeCharacter \/ DecodeEscape \/ DecodeUnicode
  PROVE  StringInv'
<1>1. PICK u \in Units : Decodes(u[1], u[2])
  <2>1. ASSUME NEW c \in Character \ {"quote", "escape"}, Decodes(<<c>>, <<c>>)
        PROVE  \E u \in Units : Decodes(u[1], u[2])
    <3>1. << <<c>>, <<c>> >> \in Units
      BY DEF Units, Unit
    <3> QED
      BY <2>1, <3>1
  <2>2. ASSUME DecodeEscape PROVE \E u \in Units : Decodes(u[1], u[2])
    <3>1. \A c \in {"quote", "escape"} : << <<"escape", c>>, <<c>> >> \in Units
      BY DEF Units, Unit
    <3> QED
      BY <2>2, <3>1 DEF DecodeEscape
  <2>3. ASSUME NEW h \in Hex \ {"hi"}, Decodes(<<"escape", "u", h>>, <<"u", h>>)
        PROVE  \E u \in Units : Decodes(u[1], u[2])
    <3>1. << <<"escape", "u", h>>, <<"u", h>> >> \in Units
      BY DEF Units, Unit, Surrogate, Hex
    <3> QED
      BY <2>3, <3>1
  <2>4. ASSUME NEW h \in Hex, Decodes(<<"escape", "u", "hi", "escape", "u", h>>, <<"u", "hi", h>>)
        PROVE  \E u \in Units : Decodes(u[1], u[2])
    <3>1. << <<"escape", "u", "hi", "escape", "u", h>>, <<"u", "hi", h>> >> \in Units
      BY DEF Units, Unit, Surrogate, Hex
    <3> QED
      BY <2>4, <3>1
  <2> QED
    BY <2>1, <2>2, <2>3, <2>4 DEF DecodeCharacter, DecodeUnicode
<1>2. Len(text) \in Nat /\ Stands(u[1], text, position - 1)
  BY <1>1 DEF StringInv, StringTyping, Decodes, Begins
<1>3. \A reads : ReadAt(reads) /\ position - 1 \in reads => position - 1 + Len(u[1]) \in reads
  BY <1>2, UnitRead
<1> QED
  BY <1>1, <1>3, DecodesKeeps

\* A JSON string is cut where decodeString has stood, as far as it came.
LEMMA SameCuts ==
  ASSUME StringTyping, NEW cuts, DecodedAt(cuts), NEW s \in Seq(Character),
         Len(text) <= Len(s), \A i \in 1 .. Len(text) : s[i] = text[i],
         NEW strict \in Cuts(s), \A n \in strict \ {Len(s)} : \E u \in Unit : Spans(u, s, strict, n)
  PROVE  cuts \subseteq strict
<1>1. /\ Len(text) \in Nat /\ Len(s) \in Nat /\ position - 1 \in 0 .. Len(text)
      /\ cuts \subseteq 0 .. position - 1 /\ 0 \in strict
  BY DEF StringTyping, DecodedAt, Cuts
<1> SUFFICES ASSUME cuts \ strict # {} PROVE FALSE
  OBVIOUS
<1>2. PICK m \in cuts \ strict : \A k \in cuts \ strict : m <= k
  <2>1. cuts \ strict \in SUBSET Nat
    <3>1. \A k \in 0 .. position - 1 : k \in Nat
      BY <1>1
    <3> QED
      BY <1>1, <3>1
  <2> QED
    BY <2>1, Smallest
<1>3. m \in 1 .. position - 1 /\ m <= Len(text)
  BY <1>1, <1>2
<1>4. PICK n \in {k \in cuts : k < m} : \A k \in {i \in cuts : i < m} : k <= n
  <2>1. {k \in cuts : k < m} \in SUBSET (0 .. position - 1)
    BY <1>1
  <2>2. 0 \in {k \in cuts : k < m}
    BY <1>3 DEF DecodedAt
  <2>3. position - 1 \in Nat
    BY <1>1
  <2> QED
    BY <2>1, <2>2, <2>3, Largest
<1>5. n \in strict /\ n < m /\ n \in cuts /\ n \in Nat /\ m \in Nat /\ n # Len(s) /\ n # position - 1
  <2>1. n \in Nat /\ m \in Nat /\ n < m /\ n \in cuts
    BY <1>1, <1>2, <1>4
  <2>2. n \in strict
    <3> SUFFICES ASSUME n \notin strict PROVE FALSE
      OBVIOUS
    <3>1. m <= n
      BY <1>2, <2>1
    <3> QED
      BY <2>1, <3>1
  <2>3. n # Len(s) /\ n # position - 1
    BY <1>1, <1>3, <2>1
  <2> QED
    BY <2>1, <2>2, <2>3
<1>6. PICK u \in Units : Spans(u, text, cuts, n)
  BY <1>5 DEF DecodedAt
<1>7. PICK w \in Unit : Spans(w, s, strict, n)
  BY <1>5
<1>8. Len(u[1]) \in Nat /\ Len(u[1]) >= 1
  BY UnitsAre
<1>9. DOMAIN u[1] = 1 .. Len(u[1])
  BY UnitsAre
<1>10. n + Len(u[1]) = m
  <2>1. /\ n + Len(u[1]) \in cuts
        /\ \A k \in cuts : k <= n \/ n + Len(u[1]) <= k
    BY <1>6 DEF Spans
  <2>2. n + Len(u[1]) <= m
    BY <1>2, <1>5, <2>1
  <2>3. ~(n + Len(u[1]) < m)
    <3> SUFFICES ASSUME n + Len(u[1]) < m PROVE FALSE
      OBVIOUS
    <3>1. n + Len(u[1]) <= n
      BY <1>4, <2>1
    <3> QED
      BY <1>5, <1>8, <3>1
  <2> QED
    BY <1>5, <1>8, <2>2, <2>3
<1>11. Stands(u[1], s, n)
  <2>1. n + Len(u[1]) <= Len(s)
    BY <1>1, <1>3, <1>10
  <2>2. ASSUME NEW i \in 1 .. Len(u[1]) PROVE u[1][i] = s[n + i]
    <3>1. n + i \in 1 .. Len(text)
      BY <1>1, <1>3, <1>5, <1>8, <1>10
    <3>2. u[1][i] = text[n + i]
      BY <1>6, <1>9 DEF Spans, Stands
    <3> QED
      BY <3>1, <3>2
  <2> QED
    BY <1>9, <2>1, <2>2 DEF Stands
<1>12. Len(w[1]) = Len(u[1]) /\ n + Len(w[1]) \in strict
  BY <1>5, <1>7, <1>11, PrefixFree DEF Spans
<1> QED
  BY <1>2, <1>10, <1>12

\* Where decodeString gives up, no JSON string goes on.
LEMMA BadIsBad ==
  ASSUME StringTyping, StringReads, NEW cuts, DecodedAt(cuts), BadEscape
  PROVE  Append(text, "quote") \notin StringBeginnings
<1>1. /\ text \in Seq(Character) /\ Len(text) \in Nat /\ position - 1 \in 0 .. Len(text)
      /\ outcome = "decoding" /\ Stands(<<"escape">>, text, position - 1)
  BY DEF StringTyping, BadEscape, Begins
<1>2. PICK p \in Nat : p = position - 1
  BY <1>1
<1>3. p < Len(text) /\ text[p + 1] = "escape"
  <2>1. p + 1 <= Len(text) /\ text[p + 1] = "escape"
    BY <1>1, <1>2, WordStands
  <2> QED
    BY <1>1, <1>2, <2>1
<1>4. p + 2 <= Len(text)
  <2>1. PICK reads : ReadAt(reads) /\ p \in reads
    BY <1>1, <1>2 DEF StringReads
  <2> QED
    BY <1>1, <1>3, <2>1, ReadThrough
<1> SUFFICES ASSUME NEW s \in Strings, Append(text, "quote") \in Prefixes(Append(s, "quote")) PROVE FALSE
  BY DEF StringBeginnings
<1>5. s \in Seq(Character) /\ Len(s) \in Nat /\ IsString(s)
  BY DEF Strings, SeqOf
<1>6. /\ Len(text) <= Len(s) /\ \A i \in 1 .. Len(text) : s[i] = text[i]
      /\ Len(text) < Len(s) => s[Len(text) + 1] = "quote"
  <2>1. PICK l \in 0 .. Len(Append(s, "quote")) : Append(text, "quote") = SubSeq(Append(s, "quote"), 1, l)
    BY DEF Prefixes
  <2>2. /\ Append(s, "quote") \in Seq(Character) /\ Len(Append(s, "quote")) = Len(s) + 1
        /\ \A i \in 1 .. Len(s) : Append(s, "quote")[i] = s[i]
        /\ Append(text, "quote") \in Seq(Character) /\ Len(Append(text, "quote")) = Len(text) + 1
        /\ \A i \in 1 .. Len(text) : Append(text, "quote")[i] = text[i]
        /\ Append(text, "quote")[Len(text) + 1] = "quote"
    BY <1>1, <1>5 DEF Character
  <2>3. l \in Nat /\ l <= Len(s) + 1
    BY <1>5, <2>2
  <2>4. /\ Len(SubSeq(Append(s, "quote"), 1, l)) = l
        /\ \A i \in 1 .. l : SubSeq(Append(s, "quote"), 1, l)[i] = Append(s, "quote")[i]
    BY <2>2, <2>3, SubSeqProperties
  <2>5. l = Len(text) + 1 /\ \A i \in 1 .. l : Append(text, "quote")[i] = Append(s, "quote")[i]
    BY <2>1, <2>2, <2>4
  <2>6. Len(text) <= Len(s)
    BY <1>1, <1>5, <2>3, <2>5
  <2>7. ASSUME NEW i \in 1 .. Len(text) PROVE s[i] = text[i]
    <3>1. i \in 1 .. l /\ i \in 1 .. Len(s)
      BY <1>1, <1>5, <2>5, <2>6
    <3> QED
      BY <2>2, <2>5, <3>1
  <2>8. ASSUME Len(text) < Len(s) PROVE s[Len(text) + 1] = "quote"
    <3>1. Len(text) + 1 \in 1 .. l /\ Len(text) + 1 \in 1 .. Len(s)
      BY <1>1, <1>5, <2>5, <2>8
    <3> QED
      BY <2>2, <2>5, <3>1
  <2> QED
    BY <2>6, <2>7, <2>8
<1>7. PICK strict \in Cuts(s) : \A n \in strict \ {Len(s)} : \E u \in Unit : Spans(u, s, strict, n)
  BY <1>5 DEF IsString
<1>8. p \in strict /\ p # Len(s)
  <2>1. cuts \subseteq strict /\ p \in cuts
    BY <1>2, <1>5, <1>6, <1>7, SameCuts DEF DecodedAt
  <2> QED
    BY <1>1, <1>2, <1>3, <1>5, <1>6, <2>1
<1>9. PICK w \in Unit : Stands(w[1], s, p)
  BY <1>7, <1>8 DEF Spans
<1>10. /\ Len(w[1]) \in Nat /\ DOMAIN w[1] = 1 .. Len(w[1])
       /\ \A i \in DOMAIN w[1] : i >= 3 => w[1][i] # "quote"
  BY UnitsAre DEF Units
<1>11. p + Len(w[1]) <= Len(s) /\ \A i \in 1 .. Len(w[1]) : w[1][i] = s[p + i]
  BY <1>9, <1>10 DEF Stands
<1>12. CASE p + Len(w[1]) <= Len(text)
  <2>1. Stands(w[1], text, p)
    <3>1. ASSUME NEW i \in 1 .. Len(w[1]) PROVE w[1][i] = text[p + i]
      <4>1. p + i \in 1 .. Len(text)
        BY <1>1, <1>10, <1>12
      <4> QED
        BY <1>6, <1>11, <4>1
    <3> QED
      BY <1>10, <1>12, <3>1 DEF Stands
  <2>2. w[1] \notin {<<"escape", "quote">>, <<"escape", "escape">>, <<"escape", "u", "0">>,
                     <<"escape", "u", "hi", "escape", "u", "lo">>}
    <3>1. Begins(w[1])
      BY <1>2, <2>1 DEF Begins
    <3> QED
      BY <3>1 DEF BadEscape, Hex
  <2>3. PICK c \in Character \ {"quote", "escape"} : w[1] = <<c>>
    BY <2>2 DEF Unit
  <2> QED
    BY <1>3, <2>1, <2>3, WordStands
<1>13. CASE ~(p + Len(w[1]) <= Len(text))
  <2>1. s[Len(text) + 1] = "quote"
    <3>1. Len(text) < Len(s)
      BY <1>1, <1>5, <1>10, <1>11, <1>13
    <3> QED
      BY <1>6, <3>1
  <2>2. PICK i \in Nat : i = Len(text) + 1 - p
    BY <1>1, <1>3
  <2>3. i \in 1 .. Len(w[1]) /\ i >= 3 /\ p + i = Len(text) + 1
    BY <1>1, <1>4, <1>10, <1>13, <2>2
  <2> QED
    BY <1>10, <1>11, <2>1, <2>3
<1> QED
  BY <1>12, <1>13

LEMMA EndOfTextKeeps ==
  ASSUME StringInv, EndOfText
  PROVE  StringInv'
<1>1. /\ text \in Seq(Character) /\ Len(text) \in Nat /\ position \in 1 .. Len(text) + 1
      /\ outcome = "decoding" /\ outcome' = "decoded" /\ UNCHANGED <<text, position, decoded>>
      /\ position = Len(text) + 1 \/ Stands(<<"quote">>, text, position - 1)
  BY DEF StringInv, StringTyping, EndOfText, Begins
<1>2. PICK p \in Nat : p = position - 1
  BY <1>1
<1>3. p = Len(text)
  <2> SUFFICES ASSUME Stands(<<"quote">>, text, p) PROVE FALSE
    BY <1>1, <1>2
  <2>1. p + 1 <= Len(text) /\ text[p + 1] = "quote"
    BY WordStands
  <2>2. PICK reads : ReadAt(reads) /\ p \in reads
    BY <1>1, <1>2 DEF StringInv, StringReads
  <2>3. p < Len(text)
    BY <1>1, <1>2, <2>1
  <2> QED
    BY <1>1, <2>1, <2>2, <2>3, ReadThrough
<1>4. PICK cuts : DecodedAt(cuts)
  BY DEF StringInv
<1>5. Means(text, decoded)
  <2>1. cuts = (cuts \ {0, Len(text)}) \cup {0, Len(text)}
    BY <1>2, <1>3, <1>4 DEF DecodedAt
  <2>2. cuts \ {0, Len(text)} \in SUBSET (1 .. Len(text) - 1)
    <3>1. ASSUME NEW k \in 0 .. Len(text), k # 0, k # Len(text) PROVE k \in 1 .. Len(text) - 1
      BY <1>1, <3>1
    <3>2. cuts \subseteq 0 .. Len(text)
      BY <1>2, <1>3, <1>4 DEF DecodedAt
    <3> QED
      BY <3>1, <3>2
  <2>3. cuts \in Cuts(text)
    BY <2>1, <2>2 DEF Cuts
  <2> QED
    BY <1>2, <1>3, <1>4, <2>3 DEF Means, DecodedAt
<1>6. StringTyping' /\ StringReads' /\ ReadsString'
  BY <1>1, <1>5 DEF StringInv, StringTyping, StringReads, ReadsString, Means
<1>7. DecodedAt(cuts)'
  BY <1>1, <1>4 DEF DecodedAt
<1> QED
  BY <1>6, <1>7 DEF StringInv

LEMMA EndsKeep ==
  ASSUME StringInv, EndOfString \/ Unterminated \/ BadEscape \/ StringEnds \/ UNCHANGED stringVars
  PROVE  StringInv'
<1>1. PICK cuts : DecodedAt(cuts)
  BY DEF StringInv
<1>2. CASE EndOfString
  <2>1. outcome = "reading" /\ outcome' = "decoding" /\ UNCHANGED <<text, position, decoded>>
    BY <1>2 DEF EndOfString
  <2>2. StringTyping' /\ StringReads' /\ ReadsString'
    BY <2>1 DEF StringInv, StringTyping, StringReads, ReadsString, ReadAt
  <2>3. DecodedAt(cuts)'
    BY <1>1, <2>1 DEF DecodedAt
  <2> QED
    BY <2>2, <2>3 DEF StringInv
<1>3. CASE Unterminated
  <2>1. /\ outcome = "reading" /\ outcome' = "unterminated" /\ UNCHANGED <<position, decoded>>
        /\ text' \in {text, Append(text, "escape")} /\ position = 1 /\ text \in Seq(Character)
        /\ decoded \in Seq(Seq(Character))
    BY <1>3 DEF Unterminated, StringInv, StringReads, StringTyping
  <2>2. text' \in Seq(Character) /\ Len(text') \in Nat
    BY <2>1 DEF Character
  <2>3. StringTyping' /\ StringReads' /\ ReadsString'
    BY <2>1, <2>2 DEF StringTyping, StringReads, ReadsString
  <2>4. DecodedAt(cuts)'
    <3>1. cuts \ {0} = {} /\ 0 \in cuts /\ Cardinality(cuts) = Len(decoded) + 1 /\ cuts \subseteq 0 .. 0
      BY <1>1, <2>1 DEF DecodedAt
    <3> QED
      BY <2>1, <3>1 DEF DecodedAt
  <2> QED
    BY <2>3, <2>4 DEF StringInv
<1>4. CASE BadEscape
  <2>1. Append(text, "quote") \notin StringBeginnings
    BY <1>1, <1>4, BadIsBad DEF StringInv
  <2>2. outcome' = "bad" /\ UNCHANGED <<text, position, decoded>>
    BY <1>4 DEF BadEscape
  <2>3. StringTyping' /\ StringReads' /\ ReadsString'
    BY <2>1, <2>2 DEF StringInv, StringTyping, StringReads, ReadsString
  <2>4. DecodedAt(cuts)'
    BY <1>1, <2>2 DEF DecodedAt
  <2> QED
    BY <2>3, <2>4 DEF StringInv
<1>5. CASE StringEnds \/ UNCHANGED stringVars
  <2>1. UNCHANGED <<text, position, decoded, outcome>>
    BY <1>5 DEF StringEnds, stringVars
  <2>2. StringTyping' /\ StringReads' /\ ReadsString'
    BY <2>1 DEF StringInv, StringTyping, StringReads, ReadsString, ReadAt
  <2>3. DecodedAt(cuts)'
    BY <1>1, <2>1 DEF DecodedAt
  <2> QED
    BY <2>2, <2>3 DEF StringInv
<1> QED
  BY <1>2, <1>3, <1>4, <1>5

LEMMA StringKeeps == StringInv /\ [StringNext]_stringVars => StringInv'
<1> SUFFICES ASSUME StringInv, [StringNext]_stringVars PROVE StringInv'
  OBVIOUS
<1>1. ASSUME NEW c \in Character \ {"quote", "escape"}, ReadsOn(<<c>>) PROVE StringInv'
  <2>1. <<c>> \in Seq(Character) /\ Len(<<c>>) = 1 /\ <<c>>[1] \notin {"quote", "escape"}
    OBVIOUS
  <2> QED
    BY <1>1, <2>1, ReadsOnKeeps
<1>2. ASSUME NEW c \in Character, ReadsOn(<<"escape", c>>) PROVE StringInv'
  <2>1. <<"escape", c>> \in Seq(Character) /\ Len(<<"escape", c>>) = 2 /\ <<"escape", c>>[1] = "escape"
    BY DEF Character
  <2> QED
    BY <1>2, <2>1, ReadsOnKeeps
<1>3. CASE DecodeCharacter \/ DecodeEscape \/ DecodeUnicode
  BY <1>3, DecodingKeeps
<1>4. CASE EndOfText
  BY <1>4, EndOfTextKeeps
<1>5. CASE EndOfString \/ Unterminated \/ BadEscape \/ StringEnds \/ UNCHANGED stringVars
  BY <1>5, EndsKeep
<1> QED
  BY <1>1, <1>2, <1>3, <1>4, <1>5 DEF StringNext, Character1, Escaped

\* A string is decoded to what it means, and only what begins no JSON string is
\* rejected, for strings of any length (readString, decodeString,
\* decodeUnicodeCodePoint).
THEOREM ReadsStringAlways == StringSpec => []ReadsString
<1>1. StringInv => ReadsString
  BY DEF StringInv
<1> QED
  BY <1>1, StringStarts, StringKeeps, PTL DEF StringSpec

-----------------------------------------------------------------------------
(* The reader.                                                             *)
(*                                                                         *)
(* The values that are being read lie on a path: the first is the root,    *)
(* each is the parent of the next, and none of them is below the last one. *)
(* That is why what the last one loses with its old payload is never a     *)
(* value that the reader goes on writing to.                               *)

Payload == Scalar \cup {"scalar", "object", "array"}
Key == Name \cup {""} \cup Nat
FrameType == [type : {"object", "array"}, name : Name \cup {""}]
Within == {"name", "colon", "comma", "any", "first", "separator", "recover"}
Reading == (Within \ {"recover"}) \cup {"value", "element"}

HeapTyping ==
  /\ DOMAIN heap \subseteq Id
  /\ heap \in [DOMAIN heap -> [payload : Payload, parent : Id \cup {Null}, key : Key]]

ReaderTyping ==
  /\ features_ \in Settings
  /\ HeapTyping
  /\ nodes_ \in Seq(Id)
  /\ frames \in Seq(FrameType)
  /\ lastValue_ \in Id \cup {Null}
  /\ pc \in Reading \cup {"recover", "rest", "failed", "returned", "done"}
  /\ errors_ \in Nat
  /\ doc \in Seq(Token)

\* The pointers are a path in the tree, on which no value comes twice, with one
\* value for each open object or array and one for the value that is begun.
Path ==
  /\ Len(nodes_) = IF pc \in Within THEN Len(frames) ELSE Len(frames) + 1
  /\ pc \in Within => frames # <<>>
  /\ \A m, n \in DOMAIN nodes_ : nodes_[m] = nodes_[n] => m = n
  /\ \A n \in DOMAIN nodes_ :
       /\ nodes_[n] \in DOMAIN heap
       /\ heap[nodes_[n]].parent = IF n = 1 THEN Null ELSE nodes_[n - 1]
  /\ \A n \in DOMAIN frames : heap[nodes_[n]].payload = frames[n].type

\* lastValue_ points to the root, or to a member of what is open.
LastValue ==
  lastValue_ # Null =>
    /\ features_.collectComments
    /\ lastValue_ \in DOMAIN heap
    /\ heap[lastValue_].parent \in {Null} \cup {nodes_[n] : n \in DOMAIN frames}

Pointers == Path /\ LastValue

\* There is an identity for one more value wherever one is made.
Room ==
  /\ pc \in Reading \ {"first"} => Cardinality(DOMAIN heap) <= Len(doc) + 1
  /\ pc = "first" => Cardinality(DOMAIN heap) <= Len(doc) /\ Len(doc) <= MaxTokens

Errors ==
  /\ pc \in Reading \cup {"rest"} => errors_ = 0
  /\ pc \in {"recover", "failed"} => errors_ > 0
  /\ pc = "returned" => result \in {"true", "false"} /\ (result = "false" <=> errors_ > 0)
  /\ ErrorsAreReported

ReaderInv == ReaderTyping /\ Pointers /\ Room /\ Errors

-----------------------------------------------------------------------------
LEMMA PopIs ==
  ASSUME NEW T, NEW s \in Seq(T), s # <<>>
  PROVE  /\ Pop(s) \in Seq(T) /\ Len(Pop(s)) = Len(s) - 1
         /\ \A n \in 1 .. Len(s) - 1 : Pop(s)[n] = s[n]
         /\ Len(s) \in Nat /\ Len(s) \in DOMAIN s /\ DOMAIN s = 1 .. Len(s) /\ Top(s) = s[Len(s)] /\ Top(s) \in T
         /\ (Pop(s) = <<>> <=> Len(s) = 1)
<1>1. Len(s) \in Nat /\ Len(s) # 0 /\ DOMAIN s = 1 .. Len(s) /\ \A n \in 1 .. Len(s) : s[n] \in T
  OBVIOUS
<1>2. Pop(s) \in Seq(T) /\ Len(Pop(s)) = Len(s) - 1 /\ \A n \in 1 .. Len(s) - 1 : Pop(s)[n] = s[n]
  BY <1>1, SubSeqProperties DEF Pop
<1>3. Pop(s) = <<>> <=> Len(Pop(s)) = 0
  BY <1>2
<1> QED
  BY <1>1, <1>2, <1>3 DEF Top

LEMMA BelowSpares ==
  ASSUME NEW i, NEW S \in SUBSET DOMAIN heap, Children(i) \subseteq S,
         \A k \in S : Children(k) \subseteq S
  PROVE  Below(i) \subseteq S
BY DEF Below

\* The heap is finite, so there is an identity that is not in use.
LEMMA FreshIs ==
  ASSUME DOMAIN heap \subseteq Id, Cardinality(DOMAIN heap) <= MaxTokens
  PROVE  Fresh \in Id /\ Fresh \notin DOMAIN heap
<1>1. IsFiniteSet(Id) /\ Cardinality(Id) = MaxTokens + 1
  BY ReaderAssumption, FS_Interval DEF Id, Root
<1>2. \E j \in Id : j \notin DOMAIN heap
  <2>1. ASSUME DOMAIN heap = Id PROVE FALSE
    BY <1>1, <2>1, ReaderAssumption
  <2> QED
    BY <2>1
<1> QED
  BY <1>2 DEF Fresh

LEMMA HeapIsFinite ==
  ASSUME HeapTyping
  PROVE  /\ IsFiniteSet(DOMAIN heap) /\ Cardinality(DOMAIN heap) \in Nat
         /\ \A S \in SUBSET DOMAIN heap :
              IsFiniteSet(S) /\ Cardinality(S) \in Nat /\ Cardinality(S) <= Cardinality(DOMAIN heap)
<1>1. IsFiniteSet(Id)
  BY ReaderAssumption, FS_Interval DEF Id, Root
<1>2. IsFiniteSet(DOMAIN heap)
  BY <1>1, FS_Subset DEF HeapTyping
<1> QED
  BY <1>2, FS_Subset, FS_CardinalityType

\* The values on the path are no children of the last one.
LEMMA NoChildOnPath ==
  ASSUME ReaderTyping, Path
  PROVE  /\ nodes_ # <<>> /\ Current \in DOMAIN heap /\ Current # Null
         /\ \A n \in DOMAIN nodes_ : nodes_[n] \notin Children(Current)
<1>1. nodes_ # <<>>
  BY DEF ReaderTyping, Path
<1>2. Len(nodes_) \in DOMAIN nodes_ /\ Current = nodes_[Len(nodes_)] /\ DOMAIN nodes_ = 1 .. Len(nodes_)
      /\ Len(nodes_) \in Nat
  BY <1>1, PopIs DEF ReaderTyping, Current
<1>3. Null \notin DOMAIN heap
  BY ReaderAssumption DEF ReaderTyping, HeapTyping, Id, Root, Null
<1>4. Current \in DOMAIN heap
  BY <1>2 DEF Path
<1>5. ASSUME NEW n \in DOMAIN nodes_, nodes_[n] \in Children(Current) PROVE FALSE
  <2>1. heap[nodes_[n]].parent = Current
    BY <1>5 DEF Children
  <2>2. n # 1 /\ nodes_[n - 1] = nodes_[Len(nodes_)]
    BY <1>2, <1>3, <1>4, <2>1 DEF Path
  <2>3. n - 1 \in DOMAIN nodes_ /\ n - 1 # Len(nodes_)
    BY <1>2, <2>2
  <2> QED
    BY <1>2, <2>2, <2>3 DEF Path
<1> QED
  BY <1>1, <1>3, <1>4, <1>5

LEMMA PathShape ==
  ASSUME ReaderTyping, Path
  PROVE  /\ nodes_ # <<>> /\ Current = nodes_[Len(nodes_)] /\ Len(nodes_) \in DOMAIN nodes_
         /\ DOMAIN nodes_ = 1 .. Len(nodes_) /\ Len(nodes_) \in Nat /\ Current \in Id
         /\ DOMAIN frames = 1 .. Len(frames) /\ Len(frames) \in Nat
         /\ Len(nodes_) = IF pc \in Within THEN Len(frames) ELSE Len(frames) + 1
<1>1. DOMAIN frames = 1 .. Len(frames) /\ Len(frames) \in Nat
  BY DEF ReaderTyping
<1>2. nodes_ # <<>> /\ nodes_ \in Seq(Id)
  BY NoChildOnPath DEF ReaderTyping
<1>3. /\ Current = nodes_[Len(nodes_)] /\ Len(nodes_) \in DOMAIN nodes_
      /\ DOMAIN nodes_ = 1 .. Len(nodes_) /\ Len(nodes_) \in Nat /\ Current \in Id
  BY <1>2, PopIs DEF Current
<1> QED
  BY <1>1, <1>2, <1>3 DEF Path

\* Giving the value that is begun its payload frees nothing that is pointed to.
LEMMA SetPayloadKeeps ==
  ASSUME ReaderTyping, Path, LastValue, pc \notin Within,
         NEW payload \in Payload, heap' = SetPayload(Current, payload)
  PROVE  /\ HeapTyping' /\ DOMAIN heap' \subseteq DOMAIN heap
         /\ \A n \in DOMAIN nodes_ : nodes_[n] \in DOMAIN heap'
         /\ lastValue_ # Null => lastValue_ \in DOMAIN heap'
         /\ \A j \in DOMAIN heap' : heap'[j].parent = heap[j].parent
         /\ \A j \in DOMAIN heap' : j # Current => heap'[j] = heap[j]
         /\ heap'[Current].payload = payload
<1> DEFINE S == DOMAIN heap \ ({nodes_[n] : n \in DOMAIN nodes_} \cup {lastValue_})
<1>1. /\ nodes_ # <<>> /\ Current \in DOMAIN heap /\ Current # Null
      /\ \A n \in DOMAIN nodes_ : nodes_[n] \notin Children(Current)
  BY NoChildOnPath
<1>2. Len(nodes_) \in DOMAIN nodes_ /\ Current = nodes_[Len(nodes_)] /\ DOMAIN nodes_ = 1 .. Len(nodes_)
      /\ Len(nodes_) = Len(frames) + 1 /\ DOMAIN frames = 1 .. Len(frames) /\ Len(frames) \in Nat
  BY <1>1, PopIs DEF ReaderTyping, Current, Path
<1>3. Null \notin DOMAIN heap
  BY ReaderAssumption DEF ReaderTyping, HeapTyping, Id, Root, Null
<1>4. lastValue_ \notin Children(Current)
  <2>1. CASE lastValue_ = Null
    BY <1>3, <2>1 DEF Children
  <2>2. CASE lastValue_ # Null
    <3>1. heap[lastValue_].parent = Null \/ \E n \in DOMAIN frames : heap[lastValue_].parent = nodes_[n]
      BY <2>2 DEF LastValue
    <3>2. \A n \in DOMAIN frames : nodes_[n] # Current
      BY <1>2 DEF Path
    <3> QED
      BY <1>1, <3>1, <3>2 DEF Children
  <2> QED
    BY <2>1, <2>2
<1>5. Children(Current) \subseteq S
  BY <1>1, <1>4 DEF Children
<1>6. \A k \in S : Children(k) \subseteq S
  <2> SUFFICES ASSUME NEW k \in S, NEW c \in Children(k) PROVE c \in S
    OBVIOUS
  <2>1. c \in DOMAIN heap /\ heap[c].parent = k /\ k # Null
    BY <1>3 DEF Children
  <2>2. \A n \in DOMAIN nodes_ : c # nodes_[n]
    BY <1>2, <2>1 DEF Path
  <2>3. c # lastValue_
    BY <1>2, <1>3, <2>1 DEF LastValue
  <2> QED
    BY <2>1, <2>2, <2>3
<1>7. Below(Current) \subseteq S
  <2> HIDE DEF S
  <2>1. S \subseteq DOMAIN heap
    BY DEF S
  <2> QED
    BY <1>5, <1>6, <2>1, BelowSpares
<1>8. /\ DOMAIN heap' = DOMAIN heap \ Below(Current)
      /\ \A j \in DOMAIN heap' :
           heap'[j] = IF j = Current THEN [heap[Current] EXCEPT !.payload = payload] ELSE heap[j]
      /\ heap' \in [DOMAIN heap' -> [payload : Payload, parent : Id \cup {Null}, key : Key]]
  BY <1>1 DEF SetPayload, ReaderTyping, HeapTyping
<1>9. HeapTyping'
  BY <1>8 DEF HeapTyping, ReaderTyping
<1>10. \A n \in DOMAIN nodes_ : nodes_[n] \in DOMAIN heap'
  BY <1>7, <1>8 DEF Path
<1>11. lastValue_ # Null => lastValue_ \in DOMAIN heap'
  BY <1>7, <1>8 DEF LastValue
<1>12. Current \in DOMAIN heap'
  BY <1>2, <1>10
<1>13. heap'[Current].payload = payload /\ heap'[Current].parent = heap[Current].parent
  BY <1>1, <1>8, <1>12 DEF ReaderTyping, HeapTyping
<1> QED
  BY <1>8, <1>9, <1>10, <1>11, <1>13

\* A member or an element that is looked up or made is not on the path.
LEMMA PushMemberKeeps ==
  ASSUME ReaderTyping, Path, Cardinality(DOMAIN heap) <= MaxTokens,
         NEW key \in Key, PushMember(key)
  PROVE  \E child \in Id :
           /\ nodes_' = Append(nodes_, child)
           /\ \A n \in DOMAIN nodes_ : nodes_[n] # child
           /\ DOMAIN heap' = DOMAIN heap \cup {child}
           /\ \A j \in DOMAIN heap : heap'[j] = heap[j]
           /\ heap'[child].parent = Current
           /\ HeapTyping'
           /\ Cardinality(DOMAIN heap') \in Nat
           /\ Cardinality(DOMAIN heap') <= Cardinality(DOMAIN heap) + 1
<1> DEFINE there == {j \in Children(Current) : heap[j].key = key}
           child == IF there = {} THEN Fresh ELSE CHOOSE j \in there : TRUE
           new == [payload |-> "scalar", parent |-> Current, key |-> key]
<1>1. /\ nodes_ # <<>> /\ Current \in DOMAIN heap
      /\ \A n \in DOMAIN nodes_ : nodes_[n] \notin Children(Current)
  BY NoChildOnPath
<1>2. Fresh \in Id /\ Fresh \notin DOMAIN heap
  BY FreshIs DEF ReaderTyping, HeapTyping
<1>3. child \in Id /\ (child \in DOMAIN heap => child \in Children(Current))
  BY <1>2 DEF ReaderTyping, HeapTyping, Children
<1>4. nodes_' = Append(nodes_, child) /\ heap' = [j \in DOMAIN heap \cup {child} |-> IF j \in DOMAIN heap THEN heap[j] ELSE new]
  BY DEF PushMember
<1>5. \A n \in DOMAIN nodes_ : nodes_[n] # child
  BY <1>1, <1>3 DEF Path
<1>6. new \in [payload : Payload, parent : Id \cup {Null}, key : Key]
  BY <1>1 DEF ReaderTyping, HeapTyping, Payload
<1> HIDE DEF child, new
<1>7. DOMAIN heap' = DOMAIN heap \cup {child} /\ \A j \in DOMAIN heap : heap'[j] = heap[j]
  BY <1>4
<1>8. heap'[child].parent = Current
  <2>1. CASE child \in DOMAIN heap
    BY <1>3, <1>7, <2>1 DEF Children
  <2>2. CASE child \notin DOMAIN heap
    BY <1>4, <2>2 DEF new
  <2> QED
    BY <2>1, <2>2
<1>9. HeapTyping'
  BY <1>3, <1>4, <1>6, <1>7 DEF ReaderTyping, HeapTyping
<1>10. Cardinality(DOMAIN heap') \in Nat /\ Cardinality(DOMAIN heap') <= Cardinality(DOMAIN heap) + 1
  <2>1. IsFiniteSet(DOMAIN heap) /\ Cardinality(DOMAIN heap) \in Nat
    BY HeapIsFinite DEF ReaderTyping
  <2>2. Cardinality(DOMAIN heap \cup {child}) \in {Cardinality(DOMAIN heap), Cardinality(DOMAIN heap) + 1}
    BY <2>1, FS_AddElement
  <2> QED
    BY <1>7, <2>1, <2>2
<1> QED
  BY <1>3, <1>4, <1>5, <1>7, <1>8, <1>9, <1>10

-----------------------------------------------------------------------------
(* The steps.                                                              *)

\* A call of readValue has returned: its caller pops the pointer it had pushed,
\* which lastValue_ may point to now, and goes on with the frames fs.
LEMMA ReturnKeeps ==
  ASSUME ReaderTyping, Path, LastValue,
         NEW fs \in Seq(FrameType), Len(nodes_) = Len(fs) + 1,
         \A n \in DOMAIN fs : n \in DOMAIN frames /\ fs[n] = frames[n],
         \A n \in DOMAIN nodes_ : nodes_[n] \in DOMAIN heap',
         \A j \in DOMAIN heap' : heap'[j].parent = heap[j].parent,
         \A n \in DOMAIN fs : heap'[nodes_[n]].payload = heap[nodes_[n]].payload,
         frames' = fs, nodes_' = (IF fs = <<>> THEN nodes_ ELSE Pop(nodes_)),
         pc' \in Within <=> fs # <<>>,
         features_' = features_,
         KeepLastValue \/ (lastValue_' = lastValue_ /\ fs = frames),
         lastValue_ # Null => lastValue_ \in DOMAIN heap'
  PROVE  Path' /\ LastValue' /\ nodes_' \in Seq(Id) /\ lastValue_' \in Id \cup {Null}
<1>1. /\ nodes_ # <<>> /\ Current = nodes_[Len(nodes_)] /\ Current \in Id /\ Len(nodes_) \in DOMAIN nodes_
      /\ DOMAIN nodes_ = 1 .. Len(nodes_) /\ Len(nodes_) \in Nat
      /\ DOMAIN fs = 1 .. Len(fs) /\ Len(fs) \in Nat /\ (fs = <<>> <=> Len(fs) = 0)
  BY NoChildOnPath, PopIs DEF ReaderTyping, Current
<1>2. /\ nodes_' \in Seq(Id)
      /\ Len(nodes_') = IF fs = <<>> THEN 1 ELSE Len(fs)
      /\ \A n \in DOMAIN nodes_' : n \in DOMAIN nodes_ /\ nodes_'[n] = nodes_[n]
      /\ DOMAIN nodes_' = 1 .. Len(nodes_')
  <2>1. CASE fs = <<>>
    <3>1. nodes_' = nodes_ /\ Len(fs) = 0
      BY <1>1, <2>1
    <3>2. Len(nodes_) = 1 /\ nodes_ \in Seq(Id)
      BY <3>1 DEF ReaderTyping
    <3> QED
      BY <1>1, <2>1, <3>1, <3>2
  <2>2. CASE fs # <<>>
    <3>1. /\ Pop(nodes_) \in Seq(Id) /\ Len(Pop(nodes_)) = Len(nodes_) - 1
          /\ \A n \in 1 .. Len(nodes_) - 1 : Pop(nodes_)[n] = nodes_[n]
      BY <1>1, PopIs DEF ReaderTyping
    <3> QED
      BY <1>1, <2>2, <3>1
  <2> QED
    BY <2>1, <2>2
<1>3. \A n \in DOMAIN fs : n \in DOMAIN nodes_' /\ nodes_'[n] = nodes_[n]
  BY <1>1, <1>2
<1>4. Path'
  <2>1. Len(nodes_') = IF pc' \in Within THEN Len(frames') ELSE Len(frames') + 1
    BY <1>1, <1>2
  <2>2. \A m, n \in DOMAIN nodes_' : nodes_'[m] = nodes_'[n] => m = n
    BY <1>2 DEF Path
  <2>3. \A n \in DOMAIN nodes_' :
          /\ nodes_'[n] \in DOMAIN heap'
          /\ heap'[nodes_'[n]].parent = IF n = 1 THEN Null ELSE nodes_'[n - 1]
    <3> SUFFICES ASSUME NEW n \in DOMAIN nodes_'
                 PROVE  /\ nodes_'[n] \in DOMAIN heap'
                        /\ heap'[nodes_'[n]].parent = IF n = 1 THEN Null ELSE nodes_'[n - 1]
      OBVIOUS
    <3>1. nodes_[n] \in DOMAIN heap' /\ heap'[nodes_[n]].parent = heap[nodes_[n]].parent
      BY <1>2
    <3>2. n # 1 => n - 1 \in DOMAIN nodes_'
      BY <1>2
    <3> QED
      BY <1>2, <3>1, <3>2 DEF Path
  <2>4. \A n \in DOMAIN frames' : heap'[nodes_'[n]].payload = frames'[n].type
    BY <1>3 DEF Path
  <2> QED
    BY <2>1, <2>2, <2>3, <2>4 DEF Path
<1>5. LastValue' /\ lastValue_' \in Id \cup {Null}
  <2>1. CASE KeepLastValue /\ features_.collectComments
    <3>1. lastValue_' = Current /\ Current \in DOMAIN heap' /\ heap'[Current].parent = heap[Current].parent
      BY <1>1, <2>1 DEF KeepLastValue
    <3>2. CASE fs = <<>>
      BY <1>1, <2>1, <3>1, <3>2 DEF Path, LastValue
    <3>3. CASE fs # <<>>
      <4>1. heap[Current].parent = nodes_[Len(fs)] /\ Len(fs) \in DOMAIN fs
        BY <1>1, <3>3 DEF Path
      <4>2. heap'[lastValue_'].parent \in {nodes_'[n] : n \in DOMAIN frames'}
        BY <1>3, <3>1, <4>1
      <4> QED
        BY <1>1, <2>1, <3>1, <4>2 DEF LastValue
    <3> QED
      BY <3>2, <3>3
  <2>2. CASE lastValue_' = lastValue_ /\ (fs = frames \/ ~features_.collectComments)
    <3>1. CASE lastValue_ = Null
      BY <2>2, <3>1 DEF LastValue
    <3>2. CASE lastValue_ # Null
      <4>1. fs = frames /\ features_.collectComments
        BY <2>2, <3>2 DEF LastValue
      <4>2. /\ lastValue_' \in DOMAIN heap' /\ heap'[lastValue_'].parent = heap[lastValue_].parent
        BY <2>2, <3>2
      <4>3. heap[lastValue_].parent \in {Null} \cup {nodes_[n] : n \in DOMAIN fs}
        BY <3>2, <4>1 DEF LastValue
      <4>4. heap[lastValue_].parent \in {Null} \cup {nodes_'[n] : n \in DOMAIN frames'}
        BY <1>3, <4>3
      <4> QED
        BY <2>2, <4>1, <4>2, <4>4 DEF LastValue, ReaderTyping
    <3> QED
      BY <3>1, <3>2
  <2> QED
    BY <2>1, <2>2 DEF KeepLastValue
<1> QED
  BY <1>2, <1>4, <1>5

\* A step inside of a call, or one that begins or ends none, leaves the pointers
\* alone.
LEMMA StayKeeps ==
  ASSUME ReaderTyping, Path, LastValue,
         heap' = heap, nodes_' = nodes_, lastValue_' = lastValue_, features_' = features_,
         frames' \in Seq(FrameType), Len(frames') = Len(frames),
         \A n \in DOMAIN frames : frames'[n].type = frames[n].type,
         pc' \in Within <=> pc \in Within
  PROVE  Path' /\ LastValue' /\ HeapTyping'
<1>1. DOMAIN frames = DOMAIN frames' /\ (frames' = <<>> <=> frames = <<>>)
  BY DEF ReaderTyping
<1>2. Path'
  BY <1>1 DEF Path
<1>3. LastValue'
  BY <1>1 DEF LastValue
<1> QED
  BY <1>2, <1>3 DEF HeapTyping, ReaderTyping

\* readObject or readArray is entered.
LEMMA OpenKeeps ==
  ASSUME ReaderTyping, Path, LastValue,
         NEW t, NEW type \in {"object", "array"}, NEW first \in Within, Open(t, type, first), pc \notin Within
  PROVE  /\ Path' /\ LastValue' /\ HeapTyping' /\ DOMAIN heap' \subseteq DOMAIN heap
         /\ frames' \in Seq(FrameType)
<1>1. /\ HeapTyping' /\ DOMAIN heap' \subseteq DOMAIN heap
      /\ \A n \in DOMAIN nodes_ : nodes_[n] \in DOMAIN heap'
      /\ lastValue_ # Null => lastValue_ \in DOMAIN heap'
      /\ \A j \in DOMAIN heap' : heap'[j].parent = heap[j].parent
      /\ \A j \in DOMAIN heap' : j # Current => heap'[j] = heap[j]
      /\ heap'[Current].payload = type
  BY SetPayloadKeeps DEF Open, Payload
<1>2. /\ nodes_ # <<>> /\ Current = nodes_[Len(nodes_)] /\ Len(nodes_) \in DOMAIN nodes_
      /\ DOMAIN nodes_ = 1 .. Len(nodes_) /\ Len(nodes_) \in Nat /\ Len(nodes_) = Len(frames) + 1
      /\ DOMAIN frames = 1 .. Len(frames) /\ Len(frames) \in Nat
  BY PathShape
<1> DEFINE new == [type |-> type, name |-> ""]
<1>3. /\ frames' = Append(frames, new) /\ new \in FrameType /\ new.type = type
      /\ nodes_' = nodes_ /\ lastValue_' = lastValue_ /\ pc' \in Within /\ features_' = features_
  BY DEF Open, Read, ReadToken, FrameType
<1> HIDE DEF new
<1>4. /\ frames' \in Seq(FrameType) /\ frames' # <<>>
      /\ Len(frames') = Len(frames) + 1 /\ DOMAIN frames' = 1 .. Len(frames) + 1
      /\ \A n \in DOMAIN frames : frames'[n] = frames[n]
      /\ frames'[Len(frames) + 1] = new
  BY <1>2, <1>3, AppendProperties DEF ReaderTyping
<1>5. \A n \in DOMAIN frames' : heap'[nodes_[n]].payload = frames'[n].type
  <2>1. ASSUME NEW n \in DOMAIN frames PROVE heap'[nodes_[n]].payload = frames'[n].type
    <3>1. nodes_[n] # Current /\ n \in DOMAIN nodes_
      BY <1>2 DEF Path
    <3> QED
      BY <1>1, <1>4, <3>1 DEF Path
  <2>2. heap'[nodes_[Len(frames) + 1]].payload = frames'[Len(frames) + 1].type
    BY <1>1, <1>2, <1>3, <1>4
  <2> QED
    BY <1>2, <1>4, <2>1, <2>2
<1>6. Path'
  <2>1. Len(nodes_') = IF pc' \in Within THEN Len(frames') ELSE Len(frames') + 1
    BY <1>2, <1>3, <1>4
  <2>2. \A n \in DOMAIN nodes_ : heap'[nodes_[n]].parent = IF n = 1 THEN Null ELSE nodes_[n - 1]
    BY <1>1 DEF Path
  <2> QED
    BY <1>1, <1>3, <1>4, <1>5, <2>1, <2>2 DEF Path
<1>7. LastValue'
  BY <1>1, <1>2, <1>3, <1>4 DEF LastValue
<1> QED
  BY <1>1, <1>4, <1>6, <1>7

\* A member or an element is begun.
LEMMA PushKeeps ==
  ASSUME ReaderTyping, Path, LastValue, pc \in Within, pc' \notin Within,
         Cardinality(DOMAIN heap) <= MaxTokens, NEW key \in Key, PushMember(key),
         frames' = frames, lastValue_' = lastValue_, features_' = features_
  PROVE  /\ Path' /\ LastValue' /\ HeapTyping' /\ nodes_' \in Seq(Id)
         /\ Cardinality(DOMAIN heap') \in Nat
         /\ Cardinality(DOMAIN heap') <= Cardinality(DOMAIN heap) + 1
<1>1. PICK child \in Id :
           /\ nodes_' = Append(nodes_, child)
           /\ \A n \in DOMAIN nodes_ : nodes_[n] # child
           /\ DOMAIN heap' = DOMAIN heap \cup {child}
           /\ \A j \in DOMAIN heap : heap'[j] = heap[j]
           /\ heap'[child].parent = Current
           /\ HeapTyping'
           /\ Cardinality(DOMAIN heap') \in Nat
           /\ Cardinality(DOMAIN heap') <= Cardinality(DOMAIN heap) + 1
  BY PushMemberKeeps
<1>2. /\ nodes_ # <<>> /\ Current = nodes_[Len(nodes_)] /\ DOMAIN nodes_ = 1 .. Len(nodes_)
      /\ Len(nodes_) \in Nat /\ 1 <= Len(nodes_) /\ Len(nodes_) = Len(frames)
      /\ DOMAIN frames = 1 .. Len(frames)
  <2>1. Len(nodes_) \in DOMAIN nodes_ /\ DOMAIN nodes_ = 1 .. Len(nodes_) /\ Len(nodes_) \in Nat
    BY PathShape
  <2>2. 1 <= Len(nodes_)
    BY <2>1
  <2> QED
    BY <2>2, PathShape
<1>3. /\ nodes_' \in Seq(Id) /\ Len(nodes_') = Len(nodes_) + 1
      /\ DOMAIN nodes_' = 1 .. Len(nodes_) + 1
      /\ \A n \in DOMAIN nodes_ : nodes_'[n] = nodes_[n]
      /\ nodes_'[Len(nodes_) + 1] = child
  BY <1>1, <1>2, AppendProperties DEF ReaderTyping
<1>4. Path'
  <2>1. \A m, n \in DOMAIN nodes_' : nodes_'[m] = nodes_'[n] => m = n
    BY <1>1, <1>2, <1>3 DEF Path
  <2>2. ASSUME NEW n \in DOMAIN nodes_'
        PROVE  /\ nodes_'[n] \in DOMAIN heap'
               /\ heap'[nodes_'[n]].parent = IF n = 1 THEN Null ELSE nodes_'[n - 1]
    <3>1. CASE n \in DOMAIN nodes_
      <4>1. /\ nodes_[n] \in DOMAIN heap /\ heap'[nodes_[n]] = heap[nodes_[n]]
            /\ heap[nodes_[n]].parent = IF n = 1 THEN Null ELSE nodes_[n - 1]
        BY <1>1, <3>1 DEF Path
      <4>2. nodes_'[n] = nodes_[n] /\ (n # 1 => nodes_'[n - 1] = nodes_[n - 1])
        BY <1>2, <1>3, <3>1
      <4>3. nodes_[n] \in DOMAIN heap'
        BY <1>1, <4>1
      <4>4. CASE n = 1
        BY <4>1, <4>2, <4>3, <4>4
      <4>5. CASE n # 1
        BY <4>1, <4>2, <4>3, <4>5
      <4> QED
        BY <4>4, <4>5
    <3>2. CASE n = Len(nodes_) + 1
      <4>1. n # 1 /\ n - 1 = Len(nodes_) /\ nodes_'[n - 1] = Current /\ nodes_'[n] = child
        BY <1>2, <1>3, <3>2
      <4> QED
        BY <1>1, <4>1
    <3> QED
      BY <1>2, <1>3, <3>1, <3>2
  <2>3. \A n \in DOMAIN frames' : heap'[nodes_'[n]].payload = frames'[n].type
    BY <1>1, <1>2, <1>3 DEF Path
  <2>4. Len(nodes_') = Len(frames') + 1
    BY <1>2, <1>3
  <2> QED
    BY <2>1, <2>2, <2>3, <2>4 DEF Path
<1>5. LastValue'
  BY <1>1, <1>2, <1>3 DEF LastValue
<1> QED
  BY <1>1, <1>3, <1>4, <1>5

\* A token is read: as long as there was no error the document grows by it.
LEMMA ReadIs ==
  ASSUME ReaderTyping, NEW t, ReadToken(t)
  PROVE  /\ t \in Token /\ features_' = features_ /\ errs' = errs /\ result = "none"
         /\ doc' \in Seq(Token) /\ Len(doc) \in Nat /\ Len(doc') \in Nat
         /\ t # "end" => Len(doc) < MaxTokens
         /\ Len(doc') = Len(doc) \/ Len(doc') = Len(doc) + 1
         /\ errors_ = 0 /\ pc # "rest" => Len(doc') = Len(doc) + 1
<1>1. t \in Token /\ TakenFor(t) \in Token
  BY DEF ReadToken, TakenFor, Token, EndOfStream
<1>2. doc \in Seq(Token) /\ Len(doc) \in Nat
  BY DEF ReaderTyping
<1>3. Append(doc, TakenFor(t)) \in Seq(Token) /\ Len(Append(doc, TakenFor(t))) = Len(doc) + 1
  BY <1>1, <1>2, AppendProperties
<1>4. doc' = doc \/ doc' = Append(doc, TakenFor(t))
  BY DEF ReadToken
<1>5. errors_ = 0 /\ pc # "rest" => doc' = Append(doc, TakenFor(t))
  BY DEF ReadToken
<1>6. t # "end" => Len(doc) < MaxTokens
  BY <1>2, ReaderAssumption DEF ReadToken
<1> QED
  BY <1>1, <1>2, <1>3, <1>4, <1>5, <1>6 DEF ReadToken

\* A token is enough for the value that is made of it.
LEMMA RoomKeeps ==
  ASSUME ReaderInv, NEW t, ReadToken(t), HeapTyping', DOMAIN heap' \subseteq DOMAIN heap,
         pc' \in Reading => pc \in Reading,
         pc' = "first" => t = "["
  PROVE  Room'
<1>1. Cardinality(DOMAIN heap') \in Nat /\ Cardinality(DOMAIN heap) \in Nat
      /\ Cardinality(DOMAIN heap') <= Cardinality(DOMAIN heap)
  BY HeapIsFinite DEF ReaderInv, ReaderTyping
<1>2. CASE pc' \notin Reading
  BY <1>2 DEF Room, Reading, Within
<1>3. CASE pc' \in Reading
  <2>1. errors_ = 0 /\ pc # "rest" /\ Cardinality(DOMAIN heap) <= Len(doc) + 1
    <3>1. Len(doc) \in Nat
      BY ReadIs DEF ReaderInv
    <3> QED
      BY <1>1, <1>3, <3>1 DEF ReaderInv, Room, Errors, Reading, Within
  <2>2. Len(doc') = Len(doc) + 1 /\ Len(doc) \in Nat /\ (t = "[" => Len(doc) < MaxTokens)
    BY <2>1, ReadIs DEF ReaderInv
  <2> QED
    BY <1>1, <2>1, <2>2, ReaderAssumption DEF Room
<1> QED
  BY <1>2, <1>3

\* Errors of a step that goes on: none as long as something is read, and some
\* where the code recovers or has failed.
LEMMA ErrorsKeep ==
  ASSUME errors_ \in Nat,
         \/ pc' \in {"recover", "failed"} /\ (errors_' = errors_ + 1 \/ (errors_' = errors_ /\ pc \in {"recover", "failed"}))
         \/ pc' \in Reading \cup {"rest"} /\ errors_' = errors_ /\ pc \in Reading \cup {"rest"},
         Errors
  PROVE  errors_' \in Nat /\ Errors'
<1>1. \/ pc' \in {"recover", "failed"} /\ errors_' \in Nat /\ errors_' > 0
      \/ pc' \in Reading \cup {"rest"} /\ errors_' = 0
  BY DEF Errors
<1>2. pc' # "done" /\ pc' # "returned" /\ (pc' \in {"recover", "failed"} => pc' \notin Reading \cup {"rest"})
  BY <1>1 DEF Reading, Within
<1> QED
  BY <1>1, <1>2 DEF Errors, ErrorsAreReported

\* The steps that leave the values, the pointers and the calls as they are.
Stay ==
  \/ Comment \/ NotAName \/ ReadName \/ NotAColon \/ DuplicateName \/ ReadComma \/ NotAComma
  \/ NotASeparator \/ Skip

LEMMA StayIs ==
  ASSUME ReaderInv, Stay
  PROVE  /\ \E t : ReadToken(t)
         /\ heap' = heap /\ nodes_' = nodes_ /\ lastValue_' = lastValue_ /\ result' = result
         /\ frames' \in Seq(FrameType) /\ Len(frames') = Len(frames)
         /\ \A n \in DOMAIN frames : frames'[n].type = frames[n].type
         /\ pc' \in Within <=> pc \in Within
         /\ pc' \in Reading \/ pc' \in {"recover", "rest", "failed"}
         /\ pc' \in Reading => pc \in Reading
         /\ pc' # "first"
         /\ \/ pc' = "recover" /\ (errors_' = errors_ + 1 \/ (pc = "recover" /\ errors_' = errors_))
            \/ pc' = pc /\ errors_' = errors_
            \/ pc \in Reading /\ pc' \in Reading /\ errors_' = errors_
<1> USE DEF Read, Reading, Within
<1>1. frames \in Seq(FrameType)
  BY DEF ReaderInv, ReaderTyping
<1>2. CASE Comment
  BY <1>1, <1>2 DEF Comment
<1>3. CASE NotAName \/ NotAColon \/ DuplicateName \/ NotAComma \/ NotASeparator
  BY <1>1, <1>3 DEF NotAName, NotAColon, DuplicateName, NotAComma, NotASeparator, AddErrorAndRecover
<1>4. CASE ReadComma \/ Skip
  BY <1>1, <1>4 DEF ReadComma, Skip
<1>5. CASE ReadName
  <2>1. frames # <<>>
    BY <1>5 DEF ReadName, ReaderInv, Pointers, Path
  <2>2. PICK t \in Name : frames' = Append(Pop(frames), [Frame EXCEPT !.name = t])
    BY <1>5 DEF ReadName
  <2> DEFINE new == [Frame EXCEPT !.name = t]
  <2>3. /\ Pop(frames) \in Seq(FrameType) /\ Len(Pop(frames)) = Len(frames) - 1
        /\ \A n \in 1 .. Len(frames) - 1 : Pop(frames)[n] = frames[n]
        /\ Len(frames) \in Nat /\ DOMAIN frames = 1 .. Len(frames)
        /\ Frame = frames[Len(frames)] /\ Frame \in FrameType
    BY <1>1, <2>1, PopIs DEF Frame
  <2>4. new \in FrameType /\ new.type = Frame.type
    BY <2>3 DEF FrameType
  <2> HIDE DEF new
  <2>5. /\ frames' \in Seq(FrameType) /\ Len(frames') = Len(frames)
        /\ \A n \in 1 .. Len(frames) - 1 : frames'[n] = frames[n]
        /\ frames'[Len(frames)] = new
    <3>1. frames' = Append(Pop(frames), new)
      BY <2>2 DEF new
    <3> QED
      BY <2>3, <2>4, <3>1, AppendProperties
  <2>6. \A n \in DOMAIN frames : frames'[n].type = frames[n].type
    BY <2>3, <2>4, <2>5
  <2> QED
    BY <1>5, <2>5, <2>6 DEF ReadName
<1> QED
  BY <1>2, <1>3, <1>4, <1>5 DEF Stay

LEMMA StayInv ==
  ASSUME ReaderInv, Stay
  PROVE  ReaderInv'
<1>1. PICK t : ReadToken(t)
  BY StayIs
<1>2. ReaderTyping /\ Path /\ LastValue /\ Errors
  BY DEF ReaderInv, Pointers
<1>3. /\ features_' = features_ /\ errs' = errs /\ result' = "none" /\ doc' \in Seq(Token)
  BY <1>1, <1>2, ReadIs, StayIs
<1>4. Path' /\ LastValue' /\ HeapTyping'
  BY <1>2, <1>3, StayIs, StayKeeps
<1>5. Room'
  <2>1. DOMAIN heap' \subseteq DOMAIN heap
    BY StayIs
  <2> QED
    BY <1>1, <1>4, <2>1, RoomKeeps, StayIs
<1>6. errors_' \in Nat /\ Errors'
  <2>1. errors_ \in Nat
    BY <1>2 DEF ReaderTyping
  <2>2. \/ pc' \in {"recover", "failed"} /\ (errors_' = errors_ + 1 \/ (errors_' = errors_ /\ pc \in {"recover", "failed"}))
        \/ pc' \in Reading \cup {"rest"} /\ errors_' = errors_ /\ pc \in Reading \cup {"rest"}
    BY StayIs
  <2> QED
    BY <1>2, <2>1, <2>2, ErrorsKeep
<1>7. ReaderTyping'
  BY <1>2, <1>3, <1>4, <1>6, StayIs DEF ReaderTyping
<1> QED
  BY <1>4, <1>5, <1>6, <1>7 DEF ReaderInv, Pointers

\* The steps of readValue that return: a value is read, or none begins.
LEMMA ScalarInv ==
  ASSUME ReaderInv, ReadScalar \/ BadScalar \/ NotAValue
  PROVE  ReaderInv'
<1>1. ReaderTyping /\ Path /\ LastValue /\ Errors
  BY DEF ReaderInv, Pointers
<1>2. PICK t : Read(t) /\ (ReadScalar => t \in Scalar /\ heap' = SetPayload(Current, t))
  BY DEF ReadScalar, BadScalar, NotAValue
<1>3. /\ features_' = features_ /\ errs' = errs /\ result' = "none" /\ doc' \in Seq(Token) /\ ReadToken(t)
  BY <1>1, <1>2, ReadIs DEF Read
<1>4. /\ pc \in {"value", "element"} /\ frames' = frames
      /\ nodes_' = IF frames = <<>> THEN nodes_ ELSE Pop(nodes_)
      /\ KeepLastValue \/ lastValue_' = lastValue_
      /\ frames = <<>> => pc' \in {"rest", "failed"}
      /\ frames # <<>> => pc' \in {"comma", "separator", "recover"}
      /\ pc' \in {"recover", "failed"} => errors_' = errors_ + 1
      /\ pc' \in {"rest", "comma", "separator"} => errors_' = errors_
  BY DEF ReadScalar, BadScalar, NotAValue, AtValue, Succeed, Fail
<1>5. /\ HeapTyping' /\ DOMAIN heap' \subseteq DOMAIN heap
      /\ \A n \in DOMAIN nodes_ : nodes_[n] \in DOMAIN heap'
      /\ lastValue_ # Null => lastValue_ \in DOMAIN heap'
      /\ \A j \in DOMAIN heap' : heap'[j].parent = heap[j].parent
      /\ \A n \in DOMAIN frames : heap'[nodes_[n]].payload = heap[nodes_[n]].payload
  <2>1. CASE ReadScalar
    <3>1. /\ HeapTyping' /\ DOMAIN heap' \subseteq DOMAIN heap
          /\ \A n \in DOMAIN nodes_ : nodes_[n] \in DOMAIN heap'
          /\ lastValue_ # Null => lastValue_ \in DOMAIN heap'
          /\ \A j \in DOMAIN heap' : heap'[j].parent = heap[j].parent
          /\ \A j \in DOMAIN heap' : j # Current => heap'[j] = heap[j]
      BY <1>1, <1>2, <1>4, <2>1, SetPayloadKeeps DEF Payload, Within
    <3>2. \A n \in DOMAIN frames : n \in DOMAIN nodes_ /\ nodes_[n] # Current
      BY <1>1, <1>4, PathShape DEF Path, Within
    <3> QED
      BY <3>1, <3>2
  <2>2. CASE heap' = heap
    BY <1>1, <2>2 DEF ReaderTyping, HeapTyping, Path, LastValue
  <2> QED
    BY <2>1, <2>2 DEF ReadScalar, BadScalar, NotAValue
<1>6. Path' /\ LastValue' /\ nodes_' \in Seq(Id) /\ lastValue_' \in Id \cup {Null}
  <2>1. frames \in Seq(FrameType) /\ Len(nodes_) = Len(frames) + 1
        /\ \A n \in DOMAIN frames : n \in DOMAIN frames /\ frames[n] = frames[n]
    BY <1>1, <1>4, PathShape DEF ReaderTyping, Within
  <2>2. pc' \in Within <=> frames # <<>>
    BY <1>4 DEF Within
  <2> QED
    BY <1>1, <1>3, <1>4, <1>5, <2>1, <2>2, ReturnKeeps
<1>7. Room'
  BY <1>3, <1>4, <1>5, RoomKeeps DEF Reading, Within
<1>8. errors_' \in Nat /\ Errors'
  BY <1>1, <1>4, ErrorsKeep DEF ReaderTyping, Reading, Within
<1>9. ReaderTyping'
  BY <1>1, <1>3, <1>4, <1>5, <1>6, <1>8 DEF ReaderTyping, Reading, Within
<1> QED
  BY <1>6, <1>7, <1>8, <1>9 DEF ReaderInv, Pointers

\* The ends of readObject and readArray.
LEMMA EndInv ==
  ASSUME ReaderInv, EndObject \/ EndArray \/ Recovered
  PROVE  ReaderInv'
<1>1. ReaderTyping /\ Path /\ LastValue /\ Errors
  BY DEF ReaderInv, Pointers
<1>2. PICK t : Read(t)
  BY DEF EndObject, EndArray, Recovered
<1>3. /\ features_' = features_ /\ errs' = errs /\ result' = "none" /\ doc' \in Seq(Token) /\ ReadToken(t)
  BY <1>1, <1>2, ReadIs DEF Read
<1> DEFINE fs == Pop(frames)
<1>4. /\ pc \in Within /\ frames' = fs /\ heap' = heap
      /\ nodes_' = IF fs = <<>> THEN nodes_ ELSE Pop(nodes_)
      /\ KeepLastValue /\ errors_' = errors_
      /\ fs = <<>> => pc' \in {"rest", "failed"}
      /\ fs # <<>> => pc' \in {"comma", "separator", "recover"}
      /\ pc' \in {"recover", "failed"} => pc = "recover"
      /\ pc' \in {"rest", "comma", "separator"} => pc \in Reading
  BY DEF EndObject, EndArray, Recovered, Succeed, Fail, Within, Reading
<1>5. frames # <<>>
  BY <1>1, <1>4 DEF Path
<1>6. /\ fs \in Seq(FrameType) /\ Len(nodes_) = Len(fs) + 1
      /\ \A n \in DOMAIN fs : n \in DOMAIN frames /\ fs[n] = frames[n]
  <2>1. /\ fs \in Seq(FrameType) /\ Len(fs) = Len(frames) - 1 /\ DOMAIN frames = 1 .. Len(frames)
        /\ \A n \in 1 .. Len(frames) - 1 : fs[n] = frames[n]
        /\ Len(frames) \in Nat
    BY <1>1, <1>5, PopIs DEF ReaderTyping
  <2>2. DOMAIN fs = 1 .. Len(frames) - 1
    BY <2>1
  <2>3. Len(nodes_) = Len(frames)
    BY <1>1, <1>4, PathShape
  <2> QED
    BY <2>1, <2>2, <2>3
<1>7. /\ HeapTyping'
      /\ \A n \in DOMAIN nodes_ : nodes_[n] \in DOMAIN heap'
      /\ lastValue_ # Null => lastValue_ \in DOMAIN heap'
  BY <1>1, <1>4 DEF ReaderTyping, HeapTyping, Path, LastValue
<1> HIDE DEF fs
<1>8. Path' /\ LastValue' /\ nodes_' \in Seq(Id) /\ lastValue_' \in Id \cup {Null}
  <2>1. pc' \in Within <=> fs # <<>>
    BY <1>4 DEF Within
  <2>2. /\ \A j \in DOMAIN heap' : heap'[j].parent = heap[j].parent
        /\ \A n \in DOMAIN fs : heap'[nodes_[n]].payload = heap[nodes_[n]].payload
    BY <1>4
  <2> QED
    BY <1>1, <1>3, <1>4, <1>6, <1>7, <2>1, <2>2, ReturnKeeps
<1>9. Room'
  BY <1>3, <1>4, <1>7, RoomKeeps DEF Reading, Within
<1>10. errors_' \in Nat /\ Errors'
  BY <1>1, <1>4, ErrorsKeep DEF ReaderTyping, Reading, Within
<1>11. ReaderTyping'
  BY <1>1, <1>3, <1>4, <1>6, <1>7, <1>8, <1>10 DEF ReaderTyping, Reading, Within
<1> QED
  BY <1>8, <1>9, <1>10, <1>11 DEF ReaderInv, Pointers

LEMMA OpenInv ==
  ASSUME ReaderInv, ReadObject \/ ReadArray
  PROVE  ReaderInv'
<1>1. ReaderTyping /\ Path /\ LastValue /\ Errors
  BY DEF ReaderInv, Pointers
<1>2. PICK t \in {"{", "["}, type \in {"object", "array"}, first \in {"name", "first"} :
        Open(t, type, first) /\ (first = "first" => t = "[")
  BY DEF ReadObject, ReadArray
<1>3. /\ pc \in {"value", "element"} /\ ReadToken(t) /\ pc' = first
      /\ nodes_' = nodes_ /\ lastValue_' = lastValue_ /\ errors_' = errors_ /\ result' = result
  BY <1>2 DEF Open, AtValue, Read
<1>4. /\ features_' = features_ /\ doc' \in Seq(Token)
  BY <1>1, <1>3, ReadIs
<1>5. /\ Path' /\ LastValue' /\ HeapTyping' /\ DOMAIN heap' \subseteq DOMAIN heap
      /\ frames' \in Seq(FrameType)
  <2>1. first \in Within /\ pc \notin Within
    BY <1>3 DEF Within
  <2> QED
    BY <1>1, <1>2, <2>1, OpenKeeps
<1>6. Room'
  BY <1>2, <1>3, <1>5, RoomKeeps DEF Reading, Within
<1>7. errors_' \in Nat /\ Errors'
  BY <1>1, <1>3, ErrorsKeep DEF ReaderTyping, Reading, Within
<1>8. ReaderTyping'
  BY <1>1, <1>3, <1>4, <1>5, <1>7 DEF ReaderTyping, Reading, Within
<1> QED
  BY <1>5, <1>6, <1>7, <1>8 DEF ReaderInv, Pointers

\* A member or an element is begun: its value has the colon, the comma or the
\* opening bracket as a token of its own.
LEMMA PushInv ==
  ASSUME ReaderInv, ReadColon \/ NextElement \/ FirstElement
  PROVE  ReaderInv'
<1>1. ReaderTyping /\ Path /\ LastValue /\ Errors
  BY DEF ReaderInv, Pointers
<1>2. /\ pc \in {"colon", "separator", "first"} /\ pc' \in {"value", "element"}
      /\ frames' = frames /\ lastValue_' = lastValue_ /\ errors_' = errors_ /\ errs' = errs /\ result' = result
  BY DEF ReadColon, NextElement, FirstElement, Read, ReadToken
<1>3. Cardinality(DOMAIN heap) \in Nat /\ Len(doc) \in Nat
  BY <1>1, HeapIsFinite DEF ReaderTyping
<1>4. /\ Cardinality(DOMAIN heap) <= MaxTokens /\ Cardinality(DOMAIN heap) <= Len(doc')
      /\ doc' \in Seq(Token) /\ Len(doc') \in Nat /\ features_' = features_
  <2>1. CASE FirstElement
    BY <1>1, <1>3, <2>1, ReaderAssumption DEF FirstElement, ReaderInv, Room, ReaderTyping
  <2>2. CASE ReadColon \/ NextElement
    <3>1. PICK t : ReadToken(t) /\ t # "end"
      <4>1. CASE ReadColon
        <5>1. ReadToken(":") /\ ":" # "end"
          BY <4>1 DEF ReadColon, Read
        <5> QED
          BY <5>1, Zenon
      <4>2. CASE NextElement
        <5>1. ReadToken(",") /\ "," # "end"
          BY <4>2 DEF NextElement, Read
        <5> QED
          BY <5>1, Zenon
      <4> QED
        BY <2>2, <4>1, <4>2, Zenon
    <3>2. Cardinality(DOMAIN heap) <= Len(doc) + 1 /\ errors_ = 0 /\ pc # "rest"
      BY <1>2, <1>3, <2>2 DEF ReadColon, NextElement, ReaderInv, Room, Errors, Reading, Within
    <3>3. /\ Len(doc) < MaxTokens /\ Len(doc') = Len(doc) + 1
          /\ doc' \in Seq(Token) /\ Len(doc') \in Nat /\ features_' = features_
      BY <1>1, <3>1, <3>2, ReadIs
    <3> QED
      BY <1>3, <3>2, <3>3, ReaderAssumption
  <2> QED
    BY <2>1, <2>2
<1>5. \E key \in Key : PushMember(key)
  <2>1. CASE FirstElement
    BY <2>1 DEF FirstElement, Key
  <2>2. CASE NextElement
    <3>1. Children(Current) \in SUBSET DOMAIN heap
      BY DEF Children
    <3>2. Cardinality(Children(Current)) \in Nat
      BY <1>1, <3>1, HeapIsFinite DEF ReaderTyping
    <3> QED
      BY <2>2, <3>2 DEF NextElement, Key
  <2>3. CASE ReadColon
    <3>1. frames # <<>> /\ frames \in Seq(FrameType)
      BY <1>1, <1>2 DEF Path, Within, ReaderTyping
    <3>2. Frame \in FrameType
      BY <3>1, PopIs DEF Frame
    <3> QED
      BY <2>3, <3>2 DEF ReadColon, Key, FrameType
  <2> QED
    BY <2>1, <2>2, <2>3
<1>6. /\ Path' /\ LastValue' /\ HeapTyping' /\ nodes_' \in Seq(Id)
      /\ Cardinality(DOMAIN heap') \in Nat
      /\ Cardinality(DOMAIN heap') <= Cardinality(DOMAIN heap) + 1
  <2>1. pc \in Within /\ pc' \notin Within
    BY <1>2 DEF Within
  <2> QED
    BY <1>1, <1>2, <1>4, <1>5, <2>1, PushKeeps
<1>7. Room'
  BY <1>2, <1>3, <1>4, <1>6 DEF Room
<1>8. errors_' \in Nat /\ Errors'
  BY <1>1, <1>2, ErrorsKeep DEF ReaderTyping, Reading, Within
<1>9. ReaderTyping'
  BY <1>1, <1>2, <1>4, <1>6, <1>8 DEF ReaderTyping, Reading
<1> QED
  BY <1>6, <1>7, <1>8, <1>9 DEF ReaderInv, Pointers

\* The end of parse, whose result is told with the messages.
LEMMA FinishInv ==
  ASSUME ReaderInv, StackLimitExceeded \/ Return \/ Report
  PROVE  ReaderInv'
<1>1. ReaderTyping /\ Path /\ LastValue /\ Errors /\ errors_ \in Nat
  BY DEF ReaderInv, Pointers, ReaderTyping
<1>2. /\ heap' = heap /\ nodes_' = nodes_ /\ frames' = frames /\ lastValue_' = lastValue_
      /\ pc \in {"value", "element", "rest", "failed", "returned"} /\ pc' \in {"returned", "done"}
  BY DEF StackLimitExceeded, Return, Report
<1>3. features_' = features_ /\ doc' \in Seq(Token)
  <2>1. CASE Return
    BY <1>1, <2>1, ReadIs DEF Return
  <2>2. CASE StackLimitExceeded \/ Report
    BY <1>1, <2>2 DEF StackLimitExceeded, Report, ReaderTyping
  <2> QED
    BY <2>1, <2>2
<1>4. Path' /\ LastValue' /\ HeapTyping'
  <2>1. pc' \notin Within /\ pc \notin Within
    BY <1>2 DEF Within
  <2>2. frames' \in Seq(FrameType) /\ Len(frames') = Len(frames)
        /\ \A n \in DOMAIN frames : frames'[n].type = frames[n].type
    BY <1>1, <1>2 DEF ReaderTyping
  <2> QED
    BY <1>1, <1>2, <1>3, <2>1, <2>2, StayKeeps
<1>5. Room'
  BY <1>2 DEF Room, Reading, Within
<1>6. errors_' \in Nat /\ Errors'
  <2>1. pc' \notin Reading \cup {"rest", "recover", "failed"}
    BY <1>2 DEF Reading, Within
  <2>2. CASE StackLimitExceeded
    BY <1>1, <2>1, <2>2 DEF StackLimitExceeded, Errors, ErrorsAreReported
  <2>3. CASE Return
    <3>1. (pc = "rest" /\ errors_ = 0) \/ (pc = "failed" /\ errors_ > 0)
      BY <1>1, <2>3 DEF Return, Errors
    <3>2. \/ result' = "false" /\ errors_' = errors_ + 1
          \/ result' = (IF pc = "rest" THEN "true" ELSE "false") /\ errors_' = errors_
      BY <2>3 DEF Return
    <3>3. errors_' \in Nat /\ result' \in {"true", "false"} /\ (result' = "false" <=> errors_' > 0)
      BY <1>1, <3>1, <3>2
    <3>4. pc' = "returned"
      BY <2>3 DEF Return
    <3> QED
      BY <2>1, <3>3, <3>4 DEF Errors, ErrorsAreReported
  <2>4. CASE Report
    <3>1. /\ pc' = "done" /\ errors_' = errors_ /\ result' = result
          /\ errs' = IF errors_ = 0 THEN "" ELSE "messages"
          /\ result \in {"true", "false"} /\ (result = "false" <=> errors_ > 0)
      BY <1>1, <2>4 DEF Report, FormattedErrorMessages, Errors
    <3>2. errs' # "" <=> errors_ > 0
      <4>1. CASE errors_ = 0
        <5>1. errs' = ""
          BY <3>1, <4>1, Zenon
        <5>2. ~(errors_ > 0)
          BY <4>1
        <5> QED
          BY <5>1, <5>2, Zenon
      <4>2. CASE errors_ # 0
        <5>1. errs' = "messages" /\ errors_ > 0
          BY <1>1, <3>1, <4>2
        <5>2. "messages" # ""
          OBVIOUS
        <5> QED
          BY <5>1, <5>2
      <4> QED
        BY <4>1, <4>2
    <3> QED
      BY <1>1, <2>1, <3>1, <3>2 DEF Errors, ErrorsAreReported
  <2> QED
    BY <2>2, <2>3, <2>4
<1>7. ReaderTyping'
  BY <1>1, <1>2, <1>3, <1>4, <1>6 DEF ReaderTyping
<1> QED
  BY <1>4, <1>5, <1>6, <1>7 DEF ReaderInv, Pointers

LEMMA ReaderStarts == Init => ReaderInv
<1> SUFFICES ASSUME Init PROVE ReaderInv
  OBVIOUS
<1>1. Root \in Id
  BY ReaderAssumption DEF Id, Root
<1>2. DOMAIN heap = {Root}
  BY DEF Init
<1>3. /\ heap[Root] = [payload |-> "scalar", parent |-> Null, key |-> 0]
      /\ heap = [i \in {Root} |-> heap[Root]]
  BY DEF Init
<1>4. HeapTyping
  <2>1. 0 \in Key /\ "scalar" \in Payload
    BY DEF Key, Payload
  <2>2. heap[Root] \in [payload : Payload, parent : Id \cup {Null}, key : Key]
    BY <1>3, <2>1
  <2> QED
    BY <1>1, <1>2, <1>3, <2>2 DEF HeapTyping
<1>5. nodes_ = <<Root>> /\ frames = <<>> /\ lastValue_ = Null /\ pc = "value" /\ doc = <<>>
  BY DEF Init
<1>6. pc \in Reading /\ pc \notin Within
  BY <1>5 DEF Reading, Within
<1>7. ReaderTyping
  <2>1. nodes_ \in Seq(Id) /\ frames \in Seq(FrameType) /\ doc \in Seq(Token)
    BY <1>1, <1>5
  <2>2. features_ \in Settings /\ errors_ \in Nat
    BY DEF Init
  <2> QED
    BY <1>4, <1>5, <1>6, <2>1, <2>2, Zenon DEF ReaderTyping
<1>8. Path
  <2>1. Len(nodes_) = 1 /\ Len(frames) = 0 /\ DOMAIN nodes_ = {1} /\ nodes_[1] = Root /\ DOMAIN frames = {}
    BY <1>5
  <2>2. heap[Root].parent = Null
    BY <1>3
  <2> QED
    BY <1>2, <1>6, <2>1, <2>2 DEF Path
<1>9. Room
  <2>1. Cardinality(DOMAIN heap) = 1 /\ Len(doc) = 0
    BY <1>2, <1>5, FS_Singleton
  <2> QED
    BY <1>5, <2>1 DEF Room
<1>10. Errors
  BY DEF Init, Errors, ErrorsAreReported
<1> QED
  BY <1>5, <1>7, <1>8, <1>9, <1>10 DEF ReaderInv, Pointers, LastValue

LEMMA ReaderKeeps == ReaderInv /\ [Next]_vars => ReaderInv'
<1> SUFFICES ASSUME ReaderInv, [Next]_vars PROVE ReaderInv'
  OBVIOUS
<1>1. CASE Parses
  BY <1>1, StayInv, ScalarInv, EndInv, OpenInv, PushInv, FinishInv DEF Parses, Stay
<1>2. CASE UNCHANGED vars
  <2>1. /\ features_' = features_ /\ heap' = heap /\ nodes_' = nodes_ /\ frames' = frames
        /\ lastValue_' = lastValue_ /\ pc' = pc /\ errors_' = errors_ /\ result' = result
        /\ errs' = errs /\ doc' = doc
    BY <1>2 DEF vars
  <2>2. ReaderTyping'
    BY <2>1 DEF ReaderInv, ReaderTyping, HeapTyping
  <2>3. Path' /\ LastValue'
    BY <2>1 DEF ReaderInv, Pointers, Path, LastValue
  <2>4. Room' /\ Errors'
    BY <2>1 DEF ReaderInv, Room, Errors, ErrorsAreReported
  <2> QED
    BY <2>2, <2>3, <2>4 DEF ReaderInv, Pointers
<1> QED
  BY <1>1, <1>2 DEF Next, Done

\* No pointer of the parser dangles, in documents of any length and any nesting:
\* what a payload or a member takes down with it is neither a value that is being
\* read nor the one that lastValue_ points to (readValue, readObject, readArray,
\* recoverFromError).
THEOREM PointersAreAliveAlways == Spec => []PointersAreAlive
<1>1. ReaderInv => PointersAreAlive
  BY DEF ReaderInv, Pointers, Path, LastValue, PointersAreAlive
<1> QED
  BY <1>1, ReaderStarts, ReaderKeeps, PTL DEF Spec

\* Whoever is told that parsing failed is told why, and nobody else is told of
\* errors (parse of OurReader and of OurCharReader).
THEOREM ErrorsAreReportedAlways == Spec => []ErrorsAreReported
<1>1. ReaderInv => ErrorsAreReported
  BY DEF ReaderInv, Errors
<1> QED
  BY <1>1, ReaderStarts, ReaderKeeps, PTL DEF Spec

-----------------------------------------------------------------------------
(* Arrays.                                                                 *)
(*                                                                         *)
(* The size of an array is its greatest index plus one, and operator<      *)
(* looks at the entries of two arrays in the order of their indexes, up to *)
(* the smallest one where they differ.                                     *)

LEMMA Greatest ==
  ASSUME NEW D \in SUBSET Index, D # {}
  PROVE  Max(D) \in D /\ \A k \in D : k <= Max(D)
<1>1. PICK m \in D : \A k \in D : k <= m
  BY Largest, ArrayAssumption DEF Index
<1>2. \A k \in D : k \in Int
  BY DEF Index
<1>3. \A k \in D : m >= k
  BY <1>1, <1>2
<1>4. Max(D) \in D /\ \A k \in D : Max(D) >= k
  BY <1>1, <1>3, Zenon DEF Max
<1> QED
  BY <1>2, <1>4

LEMMA IndexIs == Index \subseteq Nat
BY ArrayAssumption DEF Index

\* The values arrays hold.
LEMMA ValueIs ==
  ASSUME NEW v \in ArrayValue
  PROVE  /\ v = [type |-> v.type, map |-> v.map]
         /\ v.type \in {nullValue, arrayValue}
         /\ DOMAIN v.map \subseteq Index
         /\ v.map = [j \in DOMAIN v.map |-> v.map[j]]
         /\ \A j \in DOMAIN v.map : v.map[j] \in Element
         /\ v.type = nullValue => DOMAIN v.map = {} /\ v.map = << >>
<1>1. CASE v = [type |-> nullValue, map |-> << >>]
  BY <1>1
<1>2. CASE v \in [type : {arrayValue}, map : UNION {[D -> Element] : D \in SUBSET Index}]
  <2>1. PICK D \in SUBSET Index : v.map \in [D -> Element]
    BY <1>2
  <2>2. arrayValue # nullValue
    BY DEF arrayValue, nullValue
  <2> QED
    BY <1>2, <2>1, <2>2
<1> QED
  BY <1>1, <1>2 DEF ArrayValue

LEMMA IsValue ==
  ASSUME NEW D \in SUBSET Index, NEW f \in [D -> Element]
  PROVE  [type |-> arrayValue, map |-> f] \in ArrayValue
BY DEF ArrayValue

LEMMA SizeIs ==
  ASSUME NEW v \in ArrayValue
  PROVE  /\ Size(v) \in 0 .. MaxIndex + 1
         /\ \A k \in DOMAIN v.map : k < Size(v)
         /\ Size(v) # 0 => Size(v) - 1 \in DOMAIN v.map
<1>1. DOMAIN v.map \in SUBSET Index
  BY ValueIs
<1>2. CASE DOMAIN v.map = {}
  BY <1>2, ArrayAssumption DEF Size
<1>3. CASE DOMAIN v.map # {}
  <2> DEFINE D == DOMAIN v.map
  <2>1. Max(D) \in D /\ \A k \in D : k <= Max(D)
    BY <1>1, <1>3, Greatest
  <2>2. Size(v) = Max(D) + 1
    BY <1>3 DEF Size
  <2> HIDE DEF D
  <2>3. Max(D) \in 0 .. MaxIndex /\ \A k \in D : k \in Int
    BY <1>1, <2>1 DEF Index, D
  <2> QED
    BY <2>1, <2>2, <2>3, ArrayAssumption DEF D
<1> QED
  BY <1>2, <1>3

LEMMA SizeIsUnique ==
  ASSUME NEW v \in ArrayValue, NEW n \in Nat,
         \A k \in DOMAIN v.map : k < n, n # 0 => n - 1 \in DOMAIN v.map
  PROVE  Size(v) = n
<1>1. /\ Size(v) \in Nat
      /\ \A k \in DOMAIN v.map : k < Size(v)
      /\ Size(v) # 0 => Size(v) - 1 \in DOMAIN v.map
  BY SizeIs, ArrayAssumption
<1>2. ~(n < Size(v))
  <2> SUFFICES ASSUME n < Size(v) PROVE FALSE
    OBVIOUS
  <2>1. Size(v) - 1 < n
    BY <1>1
  <2>2. Size(v) = n
    BY <1>1, <2>1
  <2> QED
    BY <1>1, <2>2
<1>3. ~(Size(v) < n)
  <2> SUFFICES ASSUME Size(v) < n PROVE FALSE
    OBVIOUS
  <2>1. n - 1 < Size(v)
    BY <1>1
  <2> QED
    BY <1>1, <2>1
<1> QED
  BY <1>1, <1>2, <1>3

LEMMA ElementsAre ==
  ASSUME NEW v \in ArrayValue
  PROVE  /\ Elements(v) \in Seq(Element) /\ Len(Elements(v)) = Size(v)
         /\ DOMAIN Elements(v) = 1 .. Size(v) /\ Size(v) \in Nat
         /\ \A n \in 1 .. Size(v) : Elements(v)[n] = ElementAt(v, n - 1)
         /\ \A i : ElementAt(v, i) \in Element
<1>1. \A i : ElementAt(v, i) \in Element
  BY ValueIs DEF ElementAt, Element
<1>2. Size(v) \in Nat
  BY SizeIs, ArrayAssumption
<1> QED
  BY <1>1, <1>2 DEF Elements

\* What keeps the elements of an array, up to nulls behind them, keeps what the
\* sequence says: all of them when none is missing below the size.
LEMMA SequenceKept ==
  ASSUME NEW r \in ArrayValue, NEW s \in Seq(Element), Size(r) <= Len(s),
         \A n \in 1 .. Len(s) : ElementAt(r, n - 1) = s[n]
  PROVE  /\ Size(r) = Len(s) => Elements(r) = s
         /\ Elements(r) \in Sequences!WithoutNulls(s)
<1>1. /\ Elements(r) \in Seq(Element) /\ Len(Elements(r)) = Size(r) /\ Size(r) \in Nat /\ Len(s) \in Nat
      /\ \A n \in 1 .. Size(r) : Elements(r)[n] = s[n]
  BY ElementsAre
<1>2. Size(r) = Len(s) => Elements(r) = s
  BY <1>1, SeqEqual
<1>3. Elements(r) \in Sequences!Prefixes(s)
  <2> DEFINE p == SubSeq(s, 1, Size(r))
  <2>1. /\ p \in Seq(Element) /\ Len(p) = Size(r) /\ \A n \in 1 .. Size(r) : p[n] = s[n]
    BY <1>1, SubSeqProperties
  <2>2. Elements(r) = p
    BY <1>1, <2>1, SeqEqual
  <2> QED
    BY <1>1, <2>2 DEF Sequences!Prefixes
<1>4. ASSUME NEW n \in Size(r) + 1 .. Len(s) PROVE s[n] = NullElement
  <2>1. n - 1 \notin DOMAIN r.map /\ n \in 1 .. Len(s)
    BY <1>1, SizeIs
  <2> QED
    BY <2>1 DEF ElementAt
<1> QED
  BY <1>1, <1>2, <1>3, <1>4 DEF Sequences!WithoutNulls

LEMMA ReferencedIs ==
  ASSUME NEW v \in ArrayValue, NEW i \in Index
  PROVE  /\ Referenced(v, i) \in ArrayValue
         /\ DOMAIN Referenced(v, i).map = DOMAIN v.map \cup {i}
         /\ Size(Referenced(v, i)) = IF i < Size(v) THEN Size(v) ELSE i + 1
         /\ \A j : ElementAt(Referenced(v, i), j) = ElementAt(v, j)
<1> DEFINE r == Referenced(v, i)
           f == [j \in DOMAIN v.map \cup {i} |-> ElementAt(v, j)]
<1>1. DOMAIN v.map \cup {i} \in SUBSET Index
  BY ValueIs
<1>2. r = [type |-> arrayValue, map |-> f] /\ f \in [DOMAIN v.map \cup {i} -> Element]
  BY ElementsAre DEF Referenced
<1>3. r \in ArrayValue
  <2> HIDE DEF r, f
  <2> QED
    BY <1>1, <1>2, IsValue
<1>4. DOMAIN r.map = DOMAIN v.map \cup {i} /\ \A j \in DOMAIN v.map \cup {i} : r.map[j] = ElementAt(v, j)
  BY <1>2
<1> HIDE DEF r, f
<1>5. \A j : ElementAt(r, j) = ElementAt(v, j)
  BY <1>4 DEF ElementAt
<1>6. Size(r) = IF i < Size(v) THEN Size(v) ELSE i + 1
  <2>1. /\ Size(v) \in Nat /\ i \in Nat
        /\ \A k \in DOMAIN v.map : k < Size(v) /\ k \in Nat
        /\ Size(v) # 0 => Size(v) - 1 \in DOMAIN v.map
    <3>1. DOMAIN v.map \subseteq Nat
      BY <1>1, ArrayAssumption DEF Index
    <3> QED
      BY <3>1, SizeIs, ArrayAssumption DEF Index
  <2>2. CASE i < Size(v)
    BY <1>3, <1>4, <2>1, <2>2, SizeIsUnique
  <2>3. CASE ~(i < Size(v))
    <3>1. \A k \in DOMAIN r.map : k < i + 1
      BY <1>4, <2>1, <2>3
    <3>2. (i + 1) - 1 \in DOMAIN r.map /\ i + 1 \in Nat
      BY <1>4, <2>1
    <3>3. Size(r) = i + 1
      BY <1>3, <3>1, <3>2, SizeIsUnique
    <3> QED
      BY <2>3, <3>3
  <2> QED
    BY <2>2, <2>3
<1> QED
  BY <1>3, <1>4, <1>5, <1>6 DEF r

LEMMA SetIs ==
  ASSUME NEW v \in ArrayValue, NEW i \in DOMAIN v.map, NEW x \in Element, v.type = arrayValue
  PROVE  /\ [v EXCEPT !.map[i] = x] \in ArrayValue
         /\ Size([v EXCEPT !.map[i] = x]) = Size(v)
         /\ \A j : ElementAt([v EXCEPT !.map[i] = x], j) = IF j = i THEN x ELSE ElementAt(v, j)
<1> DEFINE r == [v EXCEPT !.map[i] = x]
           f == [v.map EXCEPT ![i] = x]
<1>1. /\ DOMAIN v.map \in SUBSET Index /\ v.map \in [DOMAIN v.map -> Element]
      /\ v = [type |-> arrayValue, map |-> v.map]
  BY ValueIs
<1>2. f \in [DOMAIN v.map -> Element] /\ r = [type |-> arrayValue, map |-> f]
      /\ \A j \in DOMAIN v.map : f[j] = IF j = i THEN x ELSE v.map[j]
  BY <1>1
<1> HIDE DEF r, f
<1>3. r \in ArrayValue
  BY <1>1, <1>2, IsValue
<1>4. r.map = f /\ DOMAIN r.map = DOMAIN v.map
  BY <1>2
<1>5. Size(r) = Size(v)
  BY <1>4 DEF Size
<1>6. \A j : ElementAt(r, j) = IF j = i THEN x ELSE ElementAt(v, j)
  BY <1>2, <1>4 DEF ElementAt
<1> QED
  BY <1>3, <1>5, <1>6 DEF r

\* Elements that are left, with some below them made for it.
LEMMA LeftIs ==
  ASSUME NEW v \in ArrayValue, v.type = arrayValue, NEW D \in SUBSET Index, NEW f \in [D -> Element]
  PROVE  /\ [v EXCEPT !.map = f] \in ArrayValue
         /\ [v EXCEPT !.map = f].map = f
<1>1. v = [type |-> arrayValue, map |-> v.map]
  BY ValueIs
<1>2. [v EXCEPT !.map = f] = [type |-> arrayValue, map |-> f]
  BY <1>1
<1> QED
  BY <1>2, IsValue

LEMMA ResizedIs ==
  ASSUME NEW s \in Seq(Element), NEW n \in Nat
  PROVE  /\ Sequences!Resized(s, n) \in Seq(Element)
         /\ Len(Sequences!Resized(s, n)) = n
         /\ \A i \in 1 .. n : Sequences!Resized(s, n)[i] = IF i <= Len(s) THEN s[i] ELSE NullElement
<1>1. \A i \in 1 .. n : (IF i <= Len(s) THEN s[i] ELSE NullElement) \in Element
  BY DEF Element
<1> QED
  BY <1>1 DEF Sequences!Resized

LEMMA ClearedIs ==
  ASSUME NEW v \in ArrayValue
  PROVE  /\ Cleared(v) \in ArrayValue /\ DOMAIN Cleared(v).map = {}
         /\ Size(Cleared(v)) = 0 /\ Elements(Cleared(v)) = <<>>
<1>1. Cleared(v) = [type |-> v.type, map |-> << >>]
  <2>1. v = [type |-> v.type, map |-> v.map]
    BY ValueIs
  <2> QED
    BY <2>1 DEF Cleared
<1>2. << >> \in [{} -> Element] /\ {} \in SUBSET Index /\ DOMAIN << >> = {}
  OBVIOUS
<1>3. Cleared(v) \in ArrayValue
  <2>1. CASE v.type = arrayValue
    BY <1>1, <1>2, <2>1, IsValue
  <2>2. CASE v.type = nullValue
    BY <1>1, <2>2 DEF ArrayValue
  <2> QED
    BY <2>1, <2>2, ValueIs
<1>4. Size(Cleared(v)) = 0
  BY <1>1, <1>2 DEF Size
<1> QED
  BY <1>1, <1>2, <1>3, <1>4, ElementsAre

-----------------------------------------------------------------------------
ArrayTyping == arrays \in [Array -> ArrayValue]

Sparse(v) == DOMAIN v.map # 0 .. Size(v) - 1

\* A call that leaves value r in a is one of the calls of the abstract sequences.
LEMMA CallIs ==
  ASSUME ArrayTyping, NEW a \in Array, NEW r \in ArrayValue, NEW c, Becomes(a, r, c),
         c.array = a, c.op # "none", c.threw => Sparse(arrays[a]),
         \/ Elements(r) = Sequences!After(Elements(arrays[a]), c) /\ ~(Sparse(arrays[a]) /\ Sequences!Shrinks(c))
         \/ Elements(r) \in Sequences!WithoutNulls(Sequences!After(Elements(arrays[a]), c))
            /\ Sparse(arrays[a]) /\ Sequences!Shrinks(c)
  PROVE  Sequences!Next /\ ArrayTyping'
<1>1. arrays' = [arrays EXCEPT ![a] = r] /\ call' = c
  BY DEF Becomes
<1>2. ArrayTyping'
  BY <1>1 DEF ArrayTyping
<1>3. [b \in Array |-> Elements(arrays'[b])]
        = [[b \in Array |-> Elements(arrays[b])] EXCEPT ![a] = Elements(r)]
  BY <1>1 DEF ArrayTyping
<1>4. a \in {b \in Array : DOMAIN arrays[b].map # 0 .. Size(arrays[b]) - 1} <=> Sparse(arrays[a])
  BY DEF Sparse
<1>5. [b \in Array |-> Elements(arrays[b])][a] = Elements(arrays[a])
  OBVIOUS
<1> QED
  BY <1>1, <1>2, <1>3, <1>4, <1>5 DEF Sequences!Next

\* An index behind the last element makes the array longer, with nulls.
LEMMA ReachedIs ==
  ASSUME NEW v \in ArrayValue, NEW r \in ArrayValue, NEW i \in Nat,
         Size(r) = IF i < Size(v) THEN Size(v) ELSE i + 1,
         \A j : ElementAt(r, j) = ElementAt(v, j)
  PROVE  Elements(r) = Sequences!Resized(Elements(v), IF i < Len(Elements(v)) THEN Len(Elements(v)) ELSE i + 1)
<1> DEFINE s == Elements(v)
           n == IF i < Len(s) THEN Len(s) ELSE i + 1
           t == Sequences!Resized(s, n)
<1>1. /\ s \in Seq(Element) /\ Len(s) = Size(v) /\ Size(v) \in Nat
      /\ \A k \in 1 .. Size(v) : s[k] = ElementAt(v, k - 1)
      /\ Elements(r) \in Seq(Element) /\ Len(Elements(r)) = Size(r)
      /\ \A k \in 1 .. Size(r) : Elements(r)[k] = ElementAt(r, k - 1)
  BY ElementsAre
<1> HIDE DEF s
<1>2. n = Size(r) /\ n \in Nat
  BY <1>1
<1> HIDE DEF n
<1>3. t \in Seq(Element) /\ Len(t) = n /\ \A k \in 1 .. n : t[k] = IF k <= Len(s) THEN s[k] ELSE NullElement
  BY <1>1, <1>2, ResizedIs
<1>4. \A k \in 1 .. n : Elements(r)[k] = t[k]
  <2> TAKE k \in 1 .. n
  <2>1. Elements(r)[k] = ElementAt(v, k - 1)
    BY <1>1, <1>2
  <2>2. CASE k <= Len(s)
    BY <1>1, <1>2, <1>3, <2>1, <2>2
  <2>3. CASE ~(k <= Len(s))
    <3>1. k - 1 \notin DOMAIN v.map
      BY <1>1, <1>2, <2>3, SizeIs
    <3> QED
      BY <1>3, <2>1, <2>3, <3>1 DEF ElementAt
  <2> QED
    BY <2>2, <2>3
<1> HIDE DEF t
<1>5. Elements(r) = t
  BY <1>1, <1>2, <1>3, <1>4, SeqEqual
<1> QED
  BY <1>5 DEF t, n, s

LEMMA ReferenceKeeps ==
  ASSUME ArrayTyping, NEW a \in Array, NEW i \in Index, ReferenceAt(a, i)
  PROVE  Sequences!Next /\ ArrayTyping'
<1> DEFINE v == arrays[a]
           r == Referenced(v, i)
           c == Call("reference", a, i, NullElement)
           s == Elements(v)
           reached == Sequences!Resized(s, IF i < Len(s) THEN Len(s) ELSE i + 1)
<1>1. v \in ArrayValue /\ i \in Nat
  BY DEF ArrayTyping, Index
<1>2. /\ r \in ArrayValue /\ Size(r) = (IF i < Size(v) THEN Size(v) ELSE i + 1)
      /\ \A j : ElementAt(r, j) = ElementAt(v, j)
  BY <1>1, ReferencedIs
<1>3. Becomes(a, r, c)
  BY DEF ReferenceAt
<1>4. c.op = "reference" /\ c.array = a /\ c.n = i /\ c.threw = FALSE
  BY DEF Call
<1> HIDE DEF v, r, c
<1>5. Elements(r) = reached
  BY <1>1, <1>2, ReachedIs
<1>6. Sequences!After(s, c) = reached
  BY <1>4 DEF Sequences!After
<1>7. c.op # "none" /\ ~Sequences!Shrinks(c)
  BY <1>4 DEF Sequences!Shrinks
<1> QED
  BY <1>1, <1>2, <1>3, <1>4, <1>5, <1>6, <1>7, CallIs DEF v

LEMMA SetKeeps ==
  ASSUME ArrayTyping, NEW a \in Array, NEW i \in Index, NEW x \in Element, Set(a, i, x)
  PROVE  Sequences!Next /\ ArrayTyping'
<1> DEFINE v == arrays[a]
           w == Referenced(v, i)
           r == [w EXCEPT !.map[i] = x]
           c == Call("set", a, i, x)
           s == Elements(v)
           reached == Sequences!Resized(s, IF i < Len(s) THEN Len(s) ELSE i + 1)
<1>1. v \in ArrayValue /\ i \in Nat
  BY DEF ArrayTyping, Index
<1>2. /\ w \in ArrayValue /\ w.type = arrayValue /\ i \in DOMAIN w.map
      /\ Size(w) = (IF i < Size(v) THEN Size(v) ELSE i + 1)
      /\ \A j : ElementAt(w, j) = ElementAt(v, j)
  <2>1. w.type = arrayValue
    BY DEF Referenced
  <2> HIDE DEF v
  <2> QED
    BY <1>1, <2>1, ReferencedIs
<1>3. Becomes(a, r, c)
  BY DEF Set
<1>4. c.op = "set" /\ c.array = a /\ c.n = i /\ c.threw = FALSE /\ c.element = x
  BY DEF Call
<1> HIDE DEF v, w, c
<1>5. /\ r \in ArrayValue /\ Size(r) = Size(w)
      /\ \A j : ElementAt(r, j) = IF j = i THEN x ELSE ElementAt(w, j)
  BY <1>2, SetIs
<1> HIDE DEF r
<1>6. Elements(w) = reached
  BY <1>1, <1>2, ReachedIs
<1>7. Elements(r) = [reached EXCEPT ![i + 1] = x]
  <2>1. /\ Elements(w) \in Seq(Element) /\ Len(Elements(w)) = Size(w) /\ Size(w) \in Nat /\ Size(v) \in Nat
        /\ \A n \in 1 .. Size(w) : Elements(w)[n] = ElementAt(w, n - 1)
        /\ Elements(r) \in Seq(Element) /\ Len(Elements(r)) = Size(w)
        /\ \A n \in 1 .. Size(w) : Elements(r)[n] = ElementAt(r, n - 1)
    BY <1>1, <1>2, <1>5, ElementsAre
  <2>2. i + 1 \in 1 .. Size(w)
    BY <1>1, <1>2, <2>1
  <2> DEFINE t == [Elements(w) EXCEPT ![i + 1] = x]
  <2>3. t \in Seq(Element) /\ Len(t) = Size(w)
        /\ \A n \in 1 .. Size(w) : t[n] = IF n = i + 1 THEN x ELSE Elements(w)[n]
    BY <2>1, <2>2, ExceptSeq
  <2> HIDE DEF t
  <2>4. \A n \in 1 .. Size(w) : Elements(r)[n] = t[n]
    <3> TAKE n \in 1 .. Size(w)
    <3>1. n - 1 = i <=> n = i + 1
      BY <1>1, <2>1
    <3> QED
      BY <1>5, <2>1, <2>3, <3>1
  <2>5. Elements(r) = t
    BY <2>1, <2>3, <2>4, SeqEqual
  <2> QED
    BY <1>6, <2>5 DEF t
<1>8. Sequences!After(s, c) = [reached EXCEPT ![i + 1] = x]
  BY <1>4 DEF Sequences!After
<1>9. c.op # "none" /\ ~Sequences!Shrinks(c)
  BY <1>4 DEF Sequences!Shrinks
<1> QED
  BY <1>1, <1>3, <1>4, <1>5, <1>7, <1>8, <1>9, CallIs DEF v

LEMMA AppendKeeps ==
  ASSUME ArrayTyping, NEW a \in Array, NEW x \in Element, AppendElement(a, x)
  PROVE  Sequences!Next /\ ArrayTyping'
<1> DEFINE v == arrays[a]
           n == Size(v)
           w == Referenced(v, n)
           r == [w EXCEPT !.map[n] = x]
           c == Call("append", a, 0, x)
           s == Elements(v)
<1>1. v \in ArrayValue /\ n \in Index /\ n \in Nat
  BY DEF ArrayTyping, Index, AppendElement
<1>2. /\ w \in ArrayValue /\ w.type = arrayValue /\ n \in DOMAIN w.map
      /\ Size(w) = n + 1
      /\ \A j : ElementAt(w, j) = ElementAt(v, j)
  <2>1. w.type = arrayValue
    BY DEF Referenced
  <2> HIDE DEF v
  <2>2. ~(n < Size(v))
    BY <1>1
  <2> HIDE DEF n
  <2> QED
    BY <1>1, <2>1, <2>2, ReferencedIs
<1>3. Becomes(a, r, c)
  BY DEF AppendElement
<1>4. c.op = "append" /\ c.array = a /\ c.threw = FALSE /\ c.element = x
  BY DEF Call
<1> HIDE DEF v, w, c
<1>5. /\ r \in ArrayValue /\ Size(r) = Size(w)
      /\ \A j : ElementAt(r, j) = IF j = n THEN x ELSE ElementAt(w, j)
  <2> HIDE DEF n
  <2> QED
    BY <1>2, SetIs
<1> HIDE DEF r
<1>6. Elements(r) = Append(s, x)
  <2>1. /\ s \in Seq(Element) /\ Len(s) = n
        /\ \A k \in 1 .. n : s[k] = ElementAt(v, k - 1)
        /\ Elements(r) \in Seq(Element) /\ Len(Elements(r)) = n + 1
        /\ \A k \in 1 .. n + 1 : Elements(r)[k] = ElementAt(r, k - 1)
    BY <1>1, <1>2, <1>5, ElementsAre
  <2> HIDE DEF s, n
  <2>2. /\ Append(s, x) \in Seq(Element) /\ Len(Append(s, x)) = n + 1
        /\ \A k \in 1 .. n : Append(s, x)[k] = s[k]
        /\ Append(s, x)[n + 1] = x
    BY <2>1, AppendProperties
  <2>3. \A k \in 1 .. n + 1 : Elements(r)[k] = Append(s, x)[k]
    <3> TAKE k \in 1 .. n + 1
    <3>1. CASE k = n + 1
      <4>1. k - 1 = n
        BY <1>1, <3>1
      <4> QED
        BY <1>5, <2>1, <2>2, <3>1, <4>1
    <3>2. CASE k # n + 1
      <4>1. k \in 1 .. n /\ k - 1 # n
        BY <1>1, <3>2
      <4> QED
        BY <1>2, <1>5, <2>1, <2>2, <4>1
    <3> QED
      BY <3>1, <3>2
  <2> QED
    BY <2>1, <2>2, <2>3, SeqEqual
<1>7. Sequences!After(s, c) = Append(s, x)
  BY <1>4 DEF Sequences!After
<1>8. c.op # "none" /\ ~Sequences!Shrinks(c)
  BY <1>4 DEF Sequences!Shrinks
<1> QED
  BY <1>1, <1>3, <1>4, <1>5, <1>6, <1>7, <1>8, CallIs DEF v

LEMMA ClearKeeps ==
  ASSUME ArrayTyping, NEW a \in Array, Clear(a)
  PROVE  Sequences!Next /\ ArrayTyping'
<1> DEFINE v == arrays[a]
           c == Call("clear", a, 0, NullElement)
<1>1. v \in ArrayValue /\ Becomes(a, Cleared(v), c)
  BY DEF ArrayTyping, Clear
<1>2. c.op = "clear" /\ c.array = a /\ c.threw = FALSE
  BY DEF Call
<1> HIDE DEF v, c
<1>3. Cleared(v) \in ArrayValue /\ Elements(Cleared(v)) = <<>>
  BY <1>1, ClearedIs
<1>4. Sequences!After(Elements(v), c) = <<>> /\ c.op # "none" /\ ~Sequences!Shrinks(c)
  BY <1>2 DEF Sequences!After, Sequences!Shrinks
<1> QED
  BY <1>1, <1>2, <1>3, <1>4, CallIs DEF v

LEMMA ResizeKeeps ==
  ASSUME ArrayTyping, NEW a \in Array, NEW n \in 0 .. MaxIndex + 1, Resize(a, n)
  PROVE  Sequences!Next /\ ArrayTyping'
<1> DEFINE u == arrays[a]
           v == [u EXCEPT !.type = arrayValue]
           shorter == [i \in DOMAIN v.map \cap (0 .. n - 1) |-> v.map[i]]
           r == IF n = 0 THEN Cleared(v)
                ELSE IF n > Size(v) THEN Referenced(v, n - 1)
                ELSE [v EXCEPT !.map = shorter]
           c == [Call("resize", a, n, NullElement) EXCEPT !.threw = (Size(r) # n)]
           s == Elements(u)
           t == Sequences!Resized(s, n)
<1>1. u \in ArrayValue /\ n \in Nat /\ Becomes(a, r, c)
  BY ArrayAssumption DEF ArrayTyping, Resize
<1>2. c.op = "resize" /\ c.array = a /\ c.n = n /\ c.threw = (Size(r) # n)
  BY DEF Call
<1>3. v.map = u.map /\ v.type = arrayValue /\ v \in ArrayValue
  <2>1. u = [type |-> u.type, map |-> u.map] /\ DOMAIN u.map \in SUBSET Index /\ u.map \in [DOMAIN u.map -> Element]
    BY <1>1, ValueIs
  <2> HIDE DEF u
  <2>2. v = [type |-> arrayValue, map |-> u.map]
    BY <2>1
  <2> QED
    BY <2>1, <2>2, IsValue
<1> HIDE DEF u
<1>4. Size(v) = Size(u) /\ \A i : ElementAt(v, i) = ElementAt(u, i)
  BY <1>3 DEF Size, ElementAt
<1>5. /\ s \in Seq(Element) /\ Len(s) = Size(u) /\ Size(u) \in Nat
      /\ \A k \in 1 .. Size(u) : s[k] = ElementAt(v, k - 1)
      /\ \A k \in DOMAIN v.map : k < Size(u) /\ k \in Nat
  <2>1. \A k \in DOMAIN v.map : k < Size(u)
    BY <1>3, <1>4, SizeIs
  <2>2. DOMAIN v.map \subseteq Nat
    BY <1>3, ValueIs, IndexIs
  <2> QED
    BY <1>1, <1>4, <2>1, <2>2, ElementsAre
<1> HIDE DEF s
<1>6. t \in Seq(Element) /\ Len(t) = n /\ \A k \in 1 .. n : t[k] = IF k <= Len(s) THEN s[k] ELSE NullElement
  BY <1>1, <1>5, ResizedIs
<1> HIDE DEF t, v
<1>7. /\ r \in ArrayValue /\ Size(r) <= n
      /\ \A k \in 1 .. n : ElementAt(r, k - 1) = t[k]
      /\ ~Sparse(u) => Size(r) = n
  <2>1. CASE n = 0
    <3>1. r = Cleared(v)
      BY <2>1
    <3> HIDE DEF r
    <3> QED
      BY <1>3, <2>1, <3>1, ClearedIs
  <2>2. CASE n # 0 /\ n > Size(v)
    <3>1. r = Referenced(v, n - 1)
      BY <2>2
    <3> HIDE DEF r
    <3>2. n - 1 \in Index
      BY <2>2, ArrayAssumption DEF Index
    <3>3. r \in ArrayValue /\ Size(r) = n /\ \A j : ElementAt(r, j) = ElementAt(v, j)
      <4>1. ~(n - 1 < Size(v)) /\ (n - 1) + 1 = n
        BY <1>1, <1>4, <1>5, <2>2
      <4> QED
        BY <1>3, <3>1, <3>2, <4>1, ReferencedIs
    <3>4. ASSUME NEW k \in 1 .. n PROVE ElementAt(v, k - 1) = t[k]
      <4>1. CASE k <= Len(s)
        BY <1>5, <1>6, <4>1
      <4>2. CASE ~(k <= Len(s))
        <5>1. k - 1 \notin DOMAIN v.map
          BY <1>1, <1>5, <4>2
        <5> QED
          BY <1>6, <4>2, <5>1 DEF ElementAt
      <4> QED
        BY <4>1, <4>2
    <3> QED
      BY <1>1, <3>3, <3>4
  <2>3. CASE n # 0 /\ ~(n > Size(v))
    <3> DEFINE D == DOMAIN v.map \cap (0 .. n - 1)
    <3>1. r = [v EXCEPT !.map = shorter]
      BY <2>3
    <3> HIDE DEF r
    <3>2. /\ D \in SUBSET Index /\ shorter \in [D -> Element]
          /\ \A i \in D : shorter[i] = v.map[i]
      BY <1>3, ValueIs
    <3> HIDE DEF shorter
    <3>3. r \in ArrayValue /\ r.map = shorter /\ DOMAIN shorter = D
      <4> HIDE DEF D
      <4> QED
        BY <1>3, <3>1, <3>2, LeftIs
    <3>4. Size(r) <= n
      <4>1. Size(r) # 0 => Size(r) - 1 \in D
        BY <3>3, SizeIs
      <4>2. Size(r) \in Nat
        BY <3>3, SizeIs, ArrayAssumption
      <4> QED
        BY <1>1, <4>1, <4>2
    <3>5. ASSUME NEW k \in 1 .. n PROVE ElementAt(r, k - 1) = t[k]
      <4>1. t[k] = ElementAt(v, k - 1)
        BY <1>1, <1>4, <1>5, <1>6, <2>3
      <4>2. k - 1 \in 0 .. n - 1
        BY <1>1
      <4> QED
        BY <3>2, <3>3, <4>1, <4>2 DEF ElementAt
    <3>6. ~Sparse(u) => Size(r) = n
      <4> SUFFICES ASSUME ~Sparse(u) PROVE Size(r) = n
        OBVIOUS
      <4>1. DOMAIN v.map = 0 .. Size(u) - 1
        BY <1>3 DEF Sparse
      <4>2. D = 0 .. n - 1
        BY <1>1, <1>4, <1>5, <2>3, <4>1
      <4>3. (\A k \in D : k < n) /\ n - 1 \in D
        BY <1>1, <2>3, <4>2
      <4> QED
        BY <1>1, <3>3, <4>3, SizeIsUnique
    <3> QED
      BY <3>3, <3>4, <3>5, <3>6
  <2> QED
    BY <2>1, <2>2, <2>3
<1> HIDE DEF r, c
<1>8. /\ Size(r) = n => Elements(r) = t
      /\ Elements(r) \in Sequences!WithoutNulls(t)
  BY <1>6, <1>7, SequenceKept
<1>9. Sequences!After(s, c) = t /\ c.op # "none" /\ Sequences!Shrinks(c)
  BY <1>2 DEF Sequences!After, Sequences!Shrinks, t
<1> QED
  BY <1>1, <1>2, <1>7, <1>8, <1>9, CallIs DEF u, s

LEMMA RemoveKeeps ==
  ASSUME ArrayTyping, NEW a \in Array, NEW i \in Index, RemoveIndex(a, i)
  PROVE  Sequences!Next /\ ArrayTyping'
<1> DEFINE v == arrays[a]
           D == (DOMAIN v.map \cap (0 .. i - 1)) \cup i .. Size(v) - 2
           f == [j \in D |-> ElementAt(v, IF j < i THEN j ELSE j + 1)]
           r == [v EXCEPT !.map = f]
           c == Call("remove", a, i, v.map[i])
           s == Elements(v)
           t == Sequences!RemoveAt(s, i + 1)
<1>1. v \in ArrayValue /\ v.type = arrayValue /\ i \in DOMAIN v.map /\ i \in Nat /\ Becomes(a, r, c)
  BY DEF ArrayTyping, RemoveIndex, Index
<1>2. c.op = "remove" /\ c.array = a /\ c.n = i /\ c.threw = FALSE /\ c.element = v.map[i]
  BY DEF Call
<1> HIDE DEF v, c
<1>3. /\ s \in Seq(Element) /\ Len(s) = Size(v) /\ Size(v) \in Nat /\ Size(v) <= MaxIndex + 1
      /\ \A k \in 1 .. Size(v) : s[k] = ElementAt(v, k - 1)
      /\ \A k \in DOMAIN v.map : k < Size(v)
      /\ Size(v) # 0 => Size(v) - 1 \in DOMAIN v.map
      /\ DOMAIN v.map \subseteq Nat /\ DOMAIN v.map \subseteq Index
  <2>1. DOMAIN v.map \subseteq Nat /\ DOMAIN v.map \subseteq Index
    BY <1>1, ValueIs, IndexIs
  <2> QED
    BY <1>1, <2>1, ElementsAre, SizeIs, ArrayAssumption
<1>4. i < Size(v) /\ s[i + 1] = v.map[i]
  <2>1. i < Size(v)
    BY <1>1, <1>3
  <2>2. i + 1 \in 1 .. Size(v) /\ (i + 1) - 1 = i
    BY <1>1, <1>3, <2>1
  <2>3. s[i + 1] = ElementAt(v, i)
    BY <1>3, <2>2
  <2> QED
    BY <1>1, <2>1, <2>3 DEF ElementAt
<1> HIDE DEF s
<1>5. /\ t \in Seq(Element) /\ Len(t) = Size(v) - 1
      /\ \A k \in 1 .. Size(v) - 1 : t[k] = IF k <= i THEN s[k] ELSE s[k + 1]
  <2> DEFINE x == SubSeq(s, 1, i)
             y == SubSeq(s, i + 2, Len(s))
  <2>1. t = x \o y
    <3>1. (i + 1) - 1 = i /\ (i + 1) + 1 = i + 2
      BY <1>1
    <3> QED
      BY <3>1 DEF Sequences!RemoveAt
  <2>2. x \in Seq(Element) /\ Len(x) = i /\ \A k \in 1 .. i : x[k] = s[k]
    BY <1>1, <1>3, <1>4, SubSeqProperties
  <2>3. y \in Seq(Element) /\ Len(y) = Size(v) - i - 1 /\ \A k \in 1 .. Size(v) - i - 1 : y[k] = s[k + i + 1]
    <3>1. \A k \in i + 2 .. Len(s) : s[k] \in Element
      BY <1>1, <1>3
    <3>2. /\ y \in Seq(Element) /\ Len(y) = (IF i + 2 <= Len(s) THEN Len(s) - (i + 2) + 1 ELSE 0)
          /\ \A k \in 1 .. Len(s) - (i + 2) + 1 : y[k] = s[(i + 2) + k - 1]
      BY <1>1, <1>3, <3>1, SubSeqProperties
    <3>3. Len(s) - (i + 2) + 1 = Size(v) - i - 1
      BY <1>1, <1>3
    <3>4. Len(y) = Size(v) - i - 1
      BY <1>1, <1>3, <1>4, <3>2
    <3>5. ASSUME NEW k \in 1 .. Size(v) - i - 1 PROVE y[k] = s[k + i + 1]
      <4>1. (i + 2) + k - 1 = k + i + 1
        BY <1>1, <1>3
      <4> QED
        BY <3>2, <3>3, <4>1
    <3> QED
      BY <3>2, <3>4, <3>5
  <2> HIDE DEF x, y, t
  <2>4. /\ t \in Seq(Element) /\ Len(t) = Size(v) - 1
        /\ \A k \in 1 .. Size(v) - 1 : t[k] = IF k <= i THEN x[k] ELSE y[k - i]
    <3>1. Len(x) + Len(y) = Size(v) - 1
      BY <1>1, <1>3, <2>2, <2>3
    <3>2. /\ t \in Seq(Element) /\ Len(t) = Len(x) + Len(y)
          /\ \A k \in 1 .. Len(x) + Len(y) : t[k] = IF k <= Len(x) THEN x[k] ELSE y[k - Len(x)]
      BY <2>1, <2>2, <2>3, ConcatProperties
    <3> QED
      BY <2>2, <3>1, <3>2
  <2>5. ASSUME NEW k \in 1 .. Size(v) - 1, ~(k <= i) PROVE y[k - i] = s[k + 1]
    <3>1. k - i \in 1 .. Size(v) - i - 1 /\ (k - i) + i + 1 = k + 1
      BY <1>1, <1>3, <2>5
    <3> QED
      BY <2>3, <3>1
  <2>6. ASSUME NEW k \in 1 .. Size(v) - 1, k <= i PROVE x[k] = s[k]
    BY <1>1, <1>3, <2>2, <2>6
  <2> QED
    BY <2>4, <2>5, <2>6
<1>6. /\ D \in SUBSET Index /\ f \in [D -> Element]
      /\ \A j \in D : f[j] = ElementAt(v, IF j < i THEN j ELSE j + 1)
  <2>1. D \in SUBSET Index
    BY <1>1, <1>3, ArrayAssumption DEF Index
  <2> HIDE DEF D
  <2> QED
    BY <1>1, <2>1, ElementsAre
<1>7. r \in ArrayValue /\ r.map = f /\ DOMAIN f = D
  <2> HIDE DEF D, f
  <2> QED
    BY <1>1, <1>6, LeftIs
<1> HIDE DEF f, r, t
<1>8. Size(r) \in Nat /\ Size(r) <= Size(v) - 1
  <2>1. Size(r) \in Nat /\ (Size(r) # 0 => Size(r) - 1 \in D)
    BY <1>7, SizeIs, ArrayAssumption
  <2>2. \A j \in D : j \in Int /\ j < Size(v) - 1
    BY <1>1, <1>3, <1>4
  <2> HIDE DEF D
  <2> QED
    BY <1>1, <1>3, <1>4, <2>1, <2>2
<1>9. \A k \in 1 .. Size(v) - 1 : ElementAt(r, k - 1) = t[k]
  <2> TAKE k \in 1 .. Size(v) - 1
  <2>1. CASE k <= i
    <3>1. k - 1 \in 0 .. i - 1 /\ k - 1 \notin i .. Size(v) - 2 /\ k - 1 < i /\ k \in 1 .. Size(v)
      BY <1>1, <1>3, <2>1
    <3>2. ElementAt(r, k - 1) = ElementAt(v, k - 1)
      BY <1>6, <1>7, <3>1 DEF ElementAt
    <3> QED
      BY <1>3, <1>5, <2>1, <3>1, <3>2
  <2>2. CASE ~(k <= i)
    <3>1. k - 1 \in i .. Size(v) - 2 /\ ~(k - 1 < i) /\ (k - 1) + 1 = k /\ k + 1 \in 1 .. Size(v) /\ (k + 1) - 1 = k
      BY <1>1, <1>3, <2>2
    <3>2. ElementAt(r, k - 1) = ElementAt(v, k)
      BY <1>6, <1>7, <3>1 DEF ElementAt
    <3>3. s[k + 1] = ElementAt(v, k)
      BY <1>3, <3>1
    <3> QED
      BY <1>5, <2>2, <3>2, <3>3
  <2> QED
    BY <2>1, <2>2
<1>10. ~Sparse(v) => Size(r) = Size(v) - 1
  <2> SUFFICES ASSUME ~Sparse(v) PROVE Size(r) = Size(v) - 1
    OBVIOUS
  <2>1. DOMAIN v.map = 0 .. Size(v) - 1
    BY DEF Sparse
  <2>2. D = 0 .. Size(v) - 2
    BY <1>1, <1>3, <1>4, <2>1
  <2>3. /\ Size(v) - 1 \in Nat
        /\ \A k \in D : k < Size(v) - 1
        /\ Size(v) - 1 # 0 => (Size(v) - 1) - 1 \in D
    BY <1>1, <1>3, <1>4, <2>2
  <2> HIDE DEF D
  <2> QED
    BY <1>7, <2>3, SizeIsUnique
<1> HIDE DEF D
<1>11. /\ Size(r) = Size(v) - 1 => Elements(r) = t
       /\ Elements(r) \in Sequences!WithoutNulls(t)
  <2>1. /\ t \in Seq(Element) /\ Size(r) <= Len(t)
        /\ \A n \in 1 .. Len(t) : ElementAt(r, n - 1) = t[n]
    BY <1>5, <1>8, <1>9
  <2>2. Len(t) = Size(v) - 1
    BY <1>5
  <2> QED
    BY <1>7, <2>1, <2>2, SequenceKept
<1>12. Sequences!After(s, c) = t /\ c.op # "none" /\ Sequences!Shrinks(c)
  <2>1. c.n < Len(s) /\ s[c.n + 1] = c.element
    BY <1>2, <1>3, <1>4
  <2> QED
    BY <1>2, <2>1 DEF Sequences!After, Sequences!Shrinks, t
<1> QED
  BY <1>1, <1>2, <1>7, <1>10, <1>11, <1>12, CallIs DEF v, s

LEMMA ArraySteps == ArrayTyping /\ [ArrayNext]_arrayVars =>
  [Sequences!Next]_<<[a \in Array |-> Elements(arrays[a])], call>> /\ ArrayTyping'
<1>1. ASSUME ArrayTyping, ArrayNext PROVE Sequences!Next /\ ArrayTyping'
  <2>1. PICK a \in Array :
          \/ \E i \in Index : ReferenceAt(a, i) \/ RemoveIndex(a, i) \/ \E x \in Element : Set(a, i, x)
          \/ \E x \in Element : AppendElement(a, x)
          \/ \E n \in 0 .. MaxIndex + 1 : Resize(a, n)
          \/ Clear(a)
    BY <1>1 DEF ArrayNext
  <2> QED
    BY <1>1, <2>1, ReferenceKeeps, SetKeeps, AppendKeeps, ResizeKeeps, RemoveKeeps, ClearKeeps
<1>2. ASSUME ArrayTyping, UNCHANGED arrayVars
      PROVE  UNCHANGED <<[a \in Array |-> Elements(arrays[a])], call>> /\ ArrayTyping'
  BY <1>2 DEF arrayVars, ArrayTyping
<1> QED
  BY <1>1, <1>2

LEMMA ArrayStarts == ArrayInit => Sequences!Init /\ ArrayTyping
<1> SUFFICES ASSUME ArrayInit PROVE Sequences!Init /\ ArrayTyping
  OBVIOUS
<1> DEFINE null == [type |-> nullValue, map |-> << >>]
<1>1. arrays = [a \in Array |-> null]
  BY DEF ArrayInit
<1>2. null \in ArrayValue
  BY DEF ArrayValue
<1>3. Elements(null) = <<>>
  BY DEF Elements, Size
<1> HIDE DEF null
<1> QED
  BY <1>1, <1>2, <1>3 DEF Sequences!Init, ArrayTyping

\* An array is the sequence json.h promises, of whatever elements and length,
\* and one with gaps loses nothing but null elements at its end (operator[],
\* append, resize, clear, removeIndex).
THEOREM ArraysAreSequences == ArrayImpl => ArraySpec
<1> QED
  BY ArrayStarts, ArraySteps, PTL DEF ArrayImpl, ArraySpec, Sequences!Spec

-----------------------------------------------------------------------------
(* The order of values.                                                    *)

Entry == Index \X Element

\* Elements are ordered strictly, and so are entries.
LEMMA EntryOrder ==
  ASSUME NEW p \in Entry, NEW q \in Entry, NEW o \in Entry
  PROVE  /\ ~LessEntry(p, p)
         /\ LessEntry(p, q) => ~LessEntry(q, p)
         /\ LessEntry(p, q) \/ LessEntry(q, p) \/ p = q
         /\ LessEntry(p, q) /\ LessEntry(q, o) => LessEntry(p, o)
<1> DEFINE Field == [type : Int, value : Int]
<1>1. Element \subseteq Field
  BY ArrayAssumption DEF Element, NullElement, nullValue, arrayValue
<1>2. /\ p = <<p[1], p[2]>> /\ q = <<q[1], q[2]>> /\ o = <<o[1], o[2]>>
      /\ p[1] \in Int /\ q[1] \in Int /\ o[1] \in Int
      /\ p[2] \in Field /\ q[2] \in Field /\ o[2] \in Field
  <2>1. \A e \in Entry : e = <<e[1], e[2]>> /\ e[1] \in Index /\ e[2] \in Element
    BY DEF Entry
  <2>2. \A e \in Entry : e = <<e[1], e[2]>> /\ e[1] \in Int /\ e[2] \in Field
    <3> HIDE DEF Field
    <3> QED
      BY <1>1, <2>1, IndexIs
  <2> HIDE DEF Field
  <2> QED
    BY <2>2
<1>3. \A x, y \in Field : x.type = y.type /\ x.value = y.value => x = y
  OBVIOUS
<1>4. \A x \in Field : x.type \in Int /\ x.value \in Int
  OBVIOUS
<1> HIDE DEF Field
<1>5. ~LessEntry(p, p)
  BY <1>2, <1>4 DEF LessEntry, LessElement
<1>6. LessEntry(p, q) => ~LessEntry(q, p)
  BY <1>2, <1>4 DEF LessEntry, LessElement
<1>7. LessEntry(p, q) \/ LessEntry(q, p) \/ p = q
  <2>1. CASE p[1] # q[1]
    BY <1>2, <2>1 DEF LessEntry
  <2>2. CASE p[1] = q[1] /\ p[2] = q[2]
    BY <1>2, <2>2
  <2>3. CASE p[1] = q[1] /\ p[2] # q[2]
    <3>1. p[2].type # q[2].type \/ p[2].value # q[2].value
      BY <1>2, <1>3, <2>3
    <3> QED
      BY <1>2, <1>4, <2>3, <3>1 DEF LessEntry, LessElement
  <2> QED
    BY <2>1, <2>2, <2>3
<1>8. LessEntry(p, q) /\ LessEntry(q, o) => LessEntry(p, o)
  <2>1. \A x, y, z \in Field : LessElement(x, y) /\ LessElement(y, z) => LessElement(x, z)
    BY <1>4 DEF LessElement
  <2> QED
    BY <1>2, <2>1 DEF LessEntry
<1> QED
  BY <1>5, <1>6, <1>7, <1>8

Rank(v, j) == Cardinality({k \in DOMAIN v.map : k <= j})

\* Every place of the entries has one key.
LEMMA RankIs ==
  ASSUME NEW v \in ArrayValue
  PROVE  /\ Cardinality(DOMAIN v.map) \in Nat
         /\ \A j \in DOMAIN v.map : Rank(v, j) \in 1 .. Cardinality(DOMAIN v.map)
         /\ \A n \in 1 .. Cardinality(DOMAIN v.map) : \E j \in DOMAIN v.map : Rank(v, j) = n
         /\ \A j, k \in DOMAIN v.map : Rank(v, j) = Rank(v, k) => j = k
<1> DEFINE D == DOMAIN v.map
           n == Cardinality(D)
           B(j) == {k \in D : k <= j}
           rank == [j \in D |-> Rank(v, j)]
<1>1. IsFiniteSet(D) /\ n \in Nat /\ D \subseteq Nat
  <2>1. IsFiniteSet(Index)
    BY FS_Interval, ArrayAssumption DEF Index
  <2>2. D \in SUBSET Index
    BY ValueIs
  <2> QED
    BY <2>1, <2>2, FS_Subset, FS_CardinalityType, IndexIs
<1>2. \A j \in D : B(j) \in SUBSET D /\ Rank(v, j) = Cardinality(B(j))
  BY DEF Rank
<1> HIDE DEF n
<1>3. ASSUME NEW j \in D PROVE Rank(v, j) \in 1 .. n /\ IsFiniteSet(B(j))
  <2>1. j \in B(j)
    BY <1>1
  <2> HIDE DEF B, D
  <2>2. IsFiniteSet(B(j)) /\ Cardinality(B(j)) <= n /\ Cardinality(B(j)) \in Nat
    BY <1>1, <1>2, FS_Subset, FS_CardinalityType DEF n
  <2>3. Cardinality(B(j)) # 0
    BY <2>1, <2>2, FS_EmptySet
  <2> QED
    BY <1>1, <1>2, <2>2, <2>3
<1>4. ASSUME NEW j \in D, NEW k \in D, j < k PROVE Rank(v, j) # Rank(v, k)
  <2>1. B(j) \subseteq B(k) /\ k \in B(k) /\ k \notin B(j)
    BY <1>1, <1>4
  <2> HIDE DEF B, D
  <2>2. IsFiniteSet(B(k)) /\ B(j) \in SUBSET B(k) /\ B(j) # B(k)
    BY <1>3, <2>1
  <2>3. Cardinality(B(k)) # Cardinality(B(j))
    BY <2>2, FS_Subset
  <2> QED
    BY <1>2, <2>3
<1>5. \A j, k \in D : Rank(v, j) = Rank(v, k) => j = k
  <2> TAKE j, k \in D
  <2>1. j \in Nat /\ k \in Nat
    BY <1>1
  <2>2. j < k \/ k < j \/ j = k
    BY <2>1
  <2> HIDE DEF D
  <2> QED
    BY <1>4, <2>2
<1> HIDE DEF D, B
<1>6. rank \in Injection(D, 1 .. n)
  BY <1>3, <1>5 DEF Injection, IsInjective
<1>7. IsFiniteSet(1 .. n) /\ Cardinality(1 .. n) = n
  BY <1>1, FS_Interval
<1>8. rank \in Surjection(D, 1 .. n)
  BY <1>6, <1>7, FS_Injection DEF n
<1>9. \A m \in 1 .. n : \E j \in D : Rank(v, j) = m
  BY <1>8 DEF Surjection
<1> QED
  BY <1>1, <1>3, <1>5, <1>9 DEF D, n

\* The entries of a map are its pairs of key and element, and are the map.
LEMMA EntriesAre ==
  ASSUME NEW v \in ArrayValue
  PROVE  \A n \in 1 .. Cardinality(DOMAIN v.map) :
           /\ Entries(v)[n] \in Entry
           /\ Entries(v)[n][1] \in DOMAIN v.map /\ Entries(v)[n][2] = v.map[Entries(v)[n][1]]
           /\ \A j \in DOMAIN v.map : Rank(v, j) = n => Entries(v)[n] = <<j, v.map[j]>>
<1> TAKE n \in 1 .. Cardinality(DOMAIN v.map)
<1> DEFINE i == CHOOSE j \in DOMAIN v.map : Cardinality({k \in DOMAIN v.map : k <= j}) = n
<1>1. Entries(v)[n] = <<i, v.map[i]>>
  BY DEF Entries
<1>2. i \in DOMAIN v.map /\ Rank(v, i) = n
  <2>1. \E j \in DOMAIN v.map : Cardinality({k \in DOMAIN v.map : k <= j}) = n
    BY RankIs DEF Rank
  <2> QED
    BY <2>1 DEF Rank
<1> HIDE DEF i
<1>3. <<i, v.map[i]>> \in Entry
  BY <1>2, ValueIs DEF Entry
<1>4. \A j \in DOMAIN v.map : Rank(v, j) = n => j = i
  BY <1>2, RankIs
<1> QED
  BY <1>1, <1>2, <1>3, <1>4

LEMMA EntriesDecide ==
  ASSUME NEW v \in ArrayValue, NEW w \in ArrayValue,
         Cardinality(DOMAIN v.map) = Cardinality(DOMAIN w.map),
         \A n \in 1 .. Cardinality(DOMAIN v.map) : Entries(v)[n] = Entries(w)[n]
  PROVE  v.map = w.map
<1>1. ASSUME NEW x \in ArrayValue, NEW y \in ArrayValue,
             Cardinality(DOMAIN x.map) = Cardinality(DOMAIN y.map),
             \A n \in 1 .. Cardinality(DOMAIN x.map) : Entries(x)[n] = Entries(y)[n],
             NEW j \in DOMAIN x.map
      PROVE  j \in DOMAIN y.map /\ x.map[j] = y.map[j]
  <2>1. Rank(x, j) \in 1 .. Cardinality(DOMAIN x.map)
    BY RankIs
  <2>2. Entries(x)[Rank(x, j)] = <<j, x.map[j]>>
    BY <2>1, EntriesAre
  <2>3. /\ Entries(y)[Rank(x, j)][1] \in DOMAIN y.map
        /\ Entries(y)[Rank(x, j)][2] = y.map[Entries(y)[Rank(x, j)][1]]
    BY <1>1, <2>1, EntriesAre
  <2> QED
    BY <1>1, <2>1, <2>2, <2>3
<1>2. \A j \in DOMAIN v.map : j \in DOMAIN w.map /\ v.map[j] = w.map[j]
  BY <1>1
<1>3. \A j \in DOMAIN w.map : j \in DOMAIN v.map
  BY <1>1
<1>4. v.map = [j \in DOMAIN v.map |-> v.map[j]] /\ w.map = [j \in DOMAIN w.map |-> w.map[j]]
  BY ValueIs
<1>5. DOMAIN v.map = DOMAIN w.map
  BY <1>2, <1>3
<1> QED
  BY <1>2, <1>4, <1>5

LEMMA LessIs ==
  ASSUME NEW v \in ArrayValue, NEW w \in ArrayValue
  PROVE  /\ v.type \in Int /\ w.type \in Int
         /\ Cardinality(DOMAIN v.map) \in Nat /\ Cardinality(DOMAIN w.map) \in Nat
         /\ Less(v, w) \in BOOLEAN
<1>1. v.type \in {0, 6} /\ w.type \in {0, 6}
  BY ValueIs DEF nullValue, arrayValue
<1>2. Less(v, w) \in BOOLEAN
  BY DEF Less
<1> QED
  BY <1>1, <1>2, RankIs

\* Sequences of the entries of as many keys are in one order.
LEMMA LessMapIsOrder ==
  ASSUME NEW u \in ArrayValue, NEW v \in ArrayValue, NEW w \in ArrayValue, NEW n \in Nat,
         Cardinality(DOMAIN u.map) = n, Cardinality(DOMAIN v.map) = n, Cardinality(DOMAIN w.map) = n
  PROVE  /\ LessMap(v, w) \/ LessMap(w, v) \/ v.map = w.map
         /\ LessMap(v, w) => ~LessMap(w, v) /\ v.map # w.map
         /\ LessMap(v, w) /\ LessMap(w, u) => LessMap(v, u)
<1>1. \A k \in 1 .. n : Entries(u)[k] \in Entry /\ Entries(v)[k] \in Entry /\ Entries(w)[k] \in Entry
  BY EntriesAre
<1>2. LessMap(v, w) \/ LessMap(w, v) \/ v.map = w.map
  <2> DEFINE S == {k \in 1 .. n : Entries(v)[k] # Entries(w)[k]}
  <2>1. CASE S = {}
    <3>1. \A k \in 1 .. n : Entries(v)[k] = Entries(w)[k]
      BY <2>1
    <3> QED
      BY <3>1, EntriesDecide
  <2>2. CASE S # {}
    <3>1. S \in SUBSET Nat
      OBVIOUS
    <3> HIDE DEF S
    <3>2. PICK k \in S : \A l \in S : k <= l
      BY <2>2, <3>1, Smallest
    <3>3. k \in 1 .. n /\ Entries(v)[k] # Entries(w)[k]
      BY DEF S
    <3>4. \A l \in 1 .. k - 1 : Entries(v)[l] = Entries(w)[l]
      <4> TAKE l \in 1 .. k - 1
      <4>1. l \in 1 .. n /\ ~(k <= l)
        BY <3>3
      <4> QED
        BY <3>2, <4>1 DEF S
    <3>5. LessEntry(Entries(v)[k], Entries(w)[k]) \/ LessEntry(Entries(w)[k], Entries(v)[k])
      BY <1>1, <3>3, EntryOrder
    <3> QED
      BY <3>3, <3>4, <3>5 DEF LessMap
  <2> QED
    BY <2>1, <2>2
<1>3. ASSUME LessMap(v, w) PROVE ~LessMap(w, v) /\ v.map # w.map
  <2>1. PICK k \in 1 .. n : /\ \A l \in 1 .. k - 1 : Entries(v)[l] = Entries(w)[l]
                            /\ LessEntry(Entries(v)[k], Entries(w)[k])
    BY <1>3 DEF LessMap
  <2>2. Entries(v)[k] # Entries(w)[k] /\ ~LessEntry(Entries(w)[k], Entries(v)[k])
    BY <1>1, <2>1, EntryOrder
  <2>3. v.map # w.map
    <3>1. v.map = w.map => Entries(v) = Entries(w)
      BY DEF Entries
    <3> QED
      BY <2>2, <3>1
  <2>4. ASSUME NEW j \in 1 .. n, \A l \in 1 .. j - 1 : Entries(w)[l] = Entries(v)[l],
               LessEntry(Entries(w)[j], Entries(v)[j])
        PROVE  FALSE
    <3>1. Entries(v)[j] # Entries(w)[j]
      BY <1>1, <2>4, EntryOrder
    <3>2. j \notin 1 .. k - 1 /\ k \notin 1 .. j - 1
      BY <2>1, <2>2, <2>4, <3>1
    <3>3. j = k
      BY <3>2
    <3> QED
      BY <2>2, <2>4, <3>3
  <2> QED
    BY <2>3, <2>4 DEF LessMap
<1>4. ASSUME LessMap(v, w), LessMap(w, u) PROVE LessMap(v, u)
  <2>1. PICK k \in 1 .. n : /\ \A l \in 1 .. k - 1 : Entries(v)[l] = Entries(w)[l]
                            /\ LessEntry(Entries(v)[k], Entries(w)[k])
    BY <1>4 DEF LessMap
  <2>2. PICK j \in 1 .. n : /\ \A l \in 1 .. j - 1 : Entries(w)[l] = Entries(u)[l]
                            /\ LessEntry(Entries(w)[j], Entries(u)[j])
    BY <1>4 DEF LessMap
  <2>3. ASSUME NEW i \in 1 .. n, i <= k, i <= j, LessEntry(Entries(v)[i], Entries(u)[i]) PROVE LessMap(v, u)
    <3>1. \A l \in 1 .. i - 1 : l \in 1 .. k - 1 /\ l \in 1 .. j - 1
      BY <2>3
    <3>2. \A l \in 1 .. i - 1 : Entries(v)[l] = Entries(u)[l]
      BY <2>1, <2>2, <3>1
    <3> QED
      BY <2>3, <3>2 DEF LessMap
  <2>4. CASE k = j
    BY <1>1, <2>1, <2>2, <2>3, <2>4, EntryOrder
  <2>5. CASE k < j
    <3>1. k \in 1 .. j - 1 /\ k <= k /\ k <= j
      BY <2>5
    <3> QED
      BY <2>1, <2>2, <2>3, <3>1
  <2>6. CASE j < k
    <3>1. j \in 1 .. k - 1 /\ j <= j /\ j <= k
      BY <2>6
    <3> QED
      BY <2>1, <2>2, <2>3, <3>1
  <2> QED
    BY <2>4, <2>5, <2>6
<1> QED
  BY <1>2, <1>3, <1>4

LEMMA LessIsOrder ==
  ASSUME NEW v \in ArrayValue, NEW w \in ArrayValue
  PROVE  /\ <<Less(v, w), Less(w, v), Equal(v, w)>> \in
              {<<TRUE, FALSE, FALSE>>, <<FALSE, TRUE, FALSE>>, <<FALSE, FALSE, TRUE>>}
         /\ Less(v, w) => \A u \in ArrayValue : Less(w, u) => Less(v, u)
<1> DEFINE m == Cardinality(DOMAIN v.map)
           n == Cardinality(DOMAIN w.map)
<1>1. /\ Less(v, w) <=> \/ v.type < w.type
                        \/ v.type = w.type /\ v.type # nullValue /\ (m < n \/ (m = n /\ LessMap(v, w)))
      /\ Less(w, v) <=> \/ w.type < v.type
                        \/ w.type = v.type /\ w.type # nullValue /\ (n < m \/ (n = m /\ LessMap(w, v)))
      /\ v.type \in Int /\ w.type \in Int /\ m \in Nat /\ n \in Nat
  BY LessIs DEF Less
<1>2. Equal(v, w) <=> v.type = w.type /\ v.map = w.map
  BY DEF Equal
<1>3. m = n => /\ LessMap(v, w) \/ LessMap(w, v) \/ v.map = w.map
               /\ LessMap(v, w) => ~LessMap(w, v) /\ v.map # w.map
               /\ LessMap(w, v) => v.map # w.map
  BY <1>1, LessMapIsOrder
<1>4. v.type = nullValue /\ w.type = nullValue => v.map = w.map
  BY ValueIs
<1>5. v.map = w.map => m = n
  OBVIOUS
<1>6. ASSUME NEW u \in ArrayValue, Less(v, w), Less(w, u) PROVE Less(v, u)
  <2> DEFINE k == Cardinality(DOMAIN u.map)
  <2>1. /\ Less(w, u) <=> \/ w.type < u.type
                          \/ w.type = u.type /\ w.type # nullValue /\ (n < k \/ (n = k /\ LessMap(w, u)))
        /\ Less(v, u) <=> \/ v.type < u.type
                          \/ v.type = u.type /\ v.type # nullValue /\ (m < k \/ (m = k /\ LessMap(v, u)))
        /\ u.type \in Int /\ k \in Nat
    BY LessIs DEF Less
  <2>2. m = n /\ n = k /\ LessMap(v, w) /\ LessMap(w, u) => LessMap(v, u)
    BY <1>1, LessMapIsOrder
  <2> HIDE DEF k, m, n
  <2> QED
    BY <1>1, <1>6, <2>1, <2>2
<1> HIDE DEF m, n
<1>7. \/ Less(v, w) /\ ~Less(w, v) /\ ~Equal(v, w)
      \/ ~Less(v, w) /\ Less(w, v) /\ ~Equal(v, w)
      \/ ~Less(v, w) /\ ~Less(w, v) /\ Equal(v, w)
  BY <1>1, <1>2, <1>3, <1>4, <1>5
<1>8. Less(v, w) \in BOOLEAN /\ Less(w, v) \in BOOLEAN /\ Equal(v, w) \in BOOLEAN
  BY LessIs DEF Equal
<1> QED
  BY <1>6, <1>7, <1>8, Zenon

\* Arrays of null and scalars are in one order, and equal ones read alike
\* (operator<, operator==).
THEOREM OrderIsTotalAlways == ArrayImpl => []OrderIsTotal
<1>1. ArrayTyping => OrderIsTotal
  <2> SUFFICES ASSUME ArrayTyping, NEW a \in Array, NEW b \in Array
               PROVE  LET v == arrays[a]
                          w == arrays[b]
                      IN /\ <<Less(v, w), Less(w, v), Equal(v, w)>> \in
                              {<<TRUE, FALSE, FALSE>>, <<FALSE, TRUE, FALSE>>, <<FALSE, FALSE, TRUE>>}
                         /\ Equal(v, w) => Elements(v) = Elements(w)
                         /\ Less(v, w) => \A u \in ArrayValue : Less(w, u) => Less(v, u)
    BY DEF OrderIsTotal
  <2>1. arrays[a] \in ArrayValue /\ arrays[b] \in ArrayValue
    BY DEF ArrayTyping
  <2>2. Equal(arrays[a], arrays[b]) => Elements(arrays[a]) = Elements(arrays[b])
    BY DEF Equal, Elements, Size, ElementAt
  <2> QED
    BY <2>1, <2>2, LessIsOrder
<1> QED
  BY <1>1, ArrayStarts, ArraySteps, PTL DEF ArrayImpl

=============================================================================
