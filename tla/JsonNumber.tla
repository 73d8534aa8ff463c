---------------------------- MODULE JsonNumber ----------------------------
(***************************************************************************)
(* decodeNumber and decodeDouble of OurReader over the characters of a     *)
(* number, read one by one, and the accessors of the Value they make.      *)
(*                                                                         *)
(* The widths of the integers are parameters and arithmetic on them wraps. *)
(* Values of doubles are counted in halves, so that a double may have a    *)
(* fraction; of decimal fractions only .0 and .5 are read, and exponents,  *)
(* which make no other values, are left out.                               *)
(***************************************************************************)
EXTENDS Integers

CONSTANTS
  MaxInt,       \* Value::maxInt
  MaxLargestInt,\* Value::maxLargestInt
  Nearest(_),   \* the double nearest to a number of halves, in halves
  MaxExact      \* bound: the number without its sign and fraction

\* Two's complement; the largest integer has two digits at least.
ASSUME NumberAssumption ==
  /\ MaxInt \in Nat /\ MaxLargestInt \in Nat /\ MaxExact \in Nat
  /\ MaxInt < MaxLargestInt /\ 9 <= MaxLargestInt

VARIABLES
  negative,     \* the token begins with a minus sign
  value,        \* the local of decodeNumber
  exact,        \* history: the number that was read, without sign and fraction
  point,        \* history: a decimal point was read
  half,         \* history: and a 5 behind it
  state,        \* where decodeNumber or decodeDouble is
  number        \* what was decoded

numberVars == <<negative, value, exact, point, half, state, number>>

MinLargestInt == -MaxLargestInt - 1
MaxLargestUInt == 2 * MaxLargestInt + 1
MaxUInt == 2 * MaxInt + 1

\* The doubles among the numbers of halves that are looked at.
MaxHalves == 2 * (MaxExact + MaxLargestUInt + 1)
Double == {n \in -MaxHalves .. MaxHalves : Nearest(n) = n}

\* Rounding passes no double, and those of a double are enough for Int, UInt
\* and their halves, and for powers of two.
ASSUME RoundingAssumption ==
  /\ \A n \in -MaxHalves .. MaxHalves :
       /\ Nearest(n) \in Int /\ Nearest(Nearest(n)) = Nearest(n)
       /\ \A d \in Double : (d <= n => d <= Nearest(n)) /\ (n <= d => Nearest(n) <= d)
  /\ -2 * (MaxInt + 1) .. 2 * MaxUInt \subseteq Double
  /\ {-2 * (MaxLargestInt + 1), 2 * (MaxLargestInt + 1), 2 * (MaxLargestUInt + 1)} \subseteq Double

\* Casts between LargestInt and LargestUInt, and what overflow leaves of a number.
Unsigned(n) == n % (MaxLargestUInt + 1)
Signed(n) == IF Unsigned(n) <= MaxLargestInt THEN Unsigned(n)
             ELSE Unsigned(n) - (MaxLargestUInt + 1)

Undecoded == [type |-> "none", value |-> 0]
NotANumber == [type |-> "error", value |-> 0]

NumberInit ==
  /\ negative \in BOOLEAN
  /\ value = 0 /\ exact = 0
  /\ point = FALSE /\ half = FALSE
  /\ state = "start"
  /\ number = Undecoded

\* -minLargestInt overflows, and the cast makes the number of it that is meant.
MaxIntegerValue == IF negative THEN Unsigned(Signed(-MinLargestInt)) ELSE MaxLargestUInt
Threshold == MaxIntegerValue \div 10

-----------------------------------------------------------------------------
(* decodeNumber.                                                           *)

Reads(c) ==
  /\ exact' = exact * 10 + c
  /\ exact' <= MaxExact
  /\ UNCHANGED <<negative, point, half>>

\* Mutant: the last digit is not looked at.
Fits_AnyDigit(c, last) == value < Threshold \/ (value = Threshold /\ last)

Fits(c, last) ==
  \/ value < Threshold
  \/ value = Threshold /\ last /\ c <= MaxIntegerValue % 10

Digit(c, last) ==
  /\ state \in {"start", "digits"}
  /\ Reads(c)
  /\ Fits(c, last)
  /\ value' = Unsigned(value * 10 + c)
  /\ state' = IF last THEN "integer" ELSE "digits"
  /\ UNCHANGED number

\* The token is read again by decodeDouble.
TooLarge(c, last) ==
  /\ state \in {"start", "digits"}
  /\ Reads(c)
  /\ ~Fits(c, last)
  /\ state' = IF last THEN "real" ELSE "double"
  /\ UNCHANGED <<value, number>>

\* A minus sign alone is a number to readNumber, and 0.
SignOnly ==
  /\ state = "start" /\ negative
  /\ state' = "integer"
  /\ UNCHANGED <<negative, value, exact, point, half, number>>

Decoded ==
  /\ state = "integer"
  /\ number' = IF negative THEN [type |-> "int", value |-> Signed(-Signed(value))]
               ELSE [type |-> IF value <= MaxInt THEN "int" ELSE "uint", value |-> value]
  /\ state' = "done"
  /\ UNCHANGED <<negative, value, exact, point, half>>

-----------------------------------------------------------------------------
(* decodeDouble.                                                           *)

DoubleDigit(c, last) ==
  /\ state = "double"
  /\ Reads(c)
  /\ state' = IF last THEN "real" ELSE "double"
  /\ UNCHANGED <<value, number>>

\* The first character that is no digit.
Point ==
  /\ state \in {"digits", "double"} \/ (state = "start" /\ negative)
  /\ point' = TRUE
  /\ half' \in BOOLEAN
  /\ state' = "real"
  /\ UNCHANGED <<negative, value, exact, number>>

\* sscanf finds no number, where no digit follows the sign.
NoDigits ==
  /\ state = "start" /\ negative
  /\ number' = NotANumber
  /\ state' = "done"
  /\ UNCHANGED <<negative, value, exact, point, half>>

Halves == LET n == 2 * exact + (IF half THEN 1 ELSE 0) IN IF negative THEN -n ELSE n

DecodedDouble ==
  /\ state = "real"
  /\ number' = [type |-> "real", value |-> Nearest(Halves)]
  /\ state' = "done"
  /\ UNCHANGED <<negative, value, exact, point, half>>

NumberDone == state = "done" /\ UNCHANGED numberVars

NumberNext ==
  \/ \E c \in 0 .. 9, last \in BOOLEAN :
       Digit(c, last) \/ TooLarge(c, last) \/ DoubleDigit(c, last)
  \/ SignOnly \/ Decoded \/ Point \/ NoDigits \/ DecodedDouble \/ NumberDone

NumberSpec == NumberInit /\ [][NumberNext]_numberVars

-----------------------------------------------------------------------------
(* Accessors of the Value that was decoded.                                *)

IntegerType == {"Int", "UInt", "Int64", "UInt64"}
Low(t) == CASE t = "Int" -> -MaxInt - 1 [] t = "Int64" -> MinLargestInt [] OTHER -> 0
High(t) == CASE t = "Int" -> MaxInt [] t = "UInt" -> MaxUInt
             [] t = "Int64" -> MaxLargestInt [] t = "UInt64" -> MaxLargestUInt
Wide(t) == t \in {"Int64", "UInt64"}

HasNoFraction(v) == v.value % 2 = 0
Truncate(n) == IF n < 0 THEN -((-n) \div 2) ELSE n \div 2

\* Mutant: the limit itself, which the cast to a double has rounded up.
Is_Inclusive(t, v) ==
  IF v.type = "real" THEN HasNoFraction(v) /\ 2 * Low(t) <= v.value /\ v.value <= Nearest(2 * High(t))
  ELSE v.value \in Low(t) .. High(t)

\* isInt, isUInt, isInt64, isUInt64.
Is(t, v) ==
  IF v.type = "real"
  THEN /\ HasNoFraction(v) /\ 2 * Low(t) <= v.value
       /\ IF Wide(t) THEN v.value < Nearest(2 * High(t)) ELSE v.value <= 2 * High(t)
  ELSE v.value \in Low(t) .. High(t)

IsIntegral(v) ==
  v.type = "real" => HasNoFraction(v) /\ 2 * MinLargestInt <= v.value /\ v.value < Nearest(2 * MaxLargestUInt)

\* InRange compares doubles.
InRange(t, v) == Nearest(2 * Low(t)) <= v.value /\ v.value <= Nearest(2 * High(t))

\* asInt, asUInt, asInt64, asUInt64: what they may return, nothing if they
\* throw.  A cast of a double that does not fit returns anything.
As(t, v) ==
  CASE v.type = "real" /\ InRange(t, v) ->
         IF Truncate(v.value) \in Low(t) .. High(t) THEN {Truncate(v.value)} ELSE Low(t) .. High(t)
    [] v.type # "real" /\ Is(t, v) -> {v.value}
    [] OTHER -> {}

AsDouble(v) == IF v.type = "real" THEN v.value ELSE Nearest(2 * v.value)
AsBool(v) == v.value # 0

IsConvertibleTo(t, v) == Is(t, v) \/ (v.type = "real" /\ InRange(t, v))
IsConvertibleToNull(v) == AsDouble(v) = 0

-----------------------------------------------------------------------------
(* Properties.                                                             *)

IsDecoded == number.type \notin {"none", "error"}
Number == IF negative THEN -exact ELSE exact

\* decodeNumber keeps every integer that LargestInt or LargestUInt can hold as it
\* is, however many digits it has, and makes the nearest double of any other.
NumberIsRead ==
  IsDecoded =>
    IF ~point /\ Number \in MinLargestInt .. MaxLargestUInt
    THEN number.type \in {"int", "uint"} /\ number.value = Number
    ELSE number = [type |-> "real", value |-> Nearest(Halves)]

\* What a value may be converted to: itself, without its fraction.
Converted(n, v) ==
  IF v.type # "real" THEN n = v.value
  ELSE v.value \in (IF v.value < 0 THEN {2 * n - 1, 2 * n} ELSE {2 * n, 2 * n + 1})

\* The double that the limit of a wide type is rounded up to, 2^63 or 2^64: it is
\* in InRange, which compares doubles, and its cast may make anything.
AtRoundedLimit(t, v) == v.type = "real" /\ v.value = Nearest(2 * High(t)) /\ 2 * High(t) < v.value

\* The accessors agree: a value that is of a type is returned as it is, and one
\* that is not is converted without its fraction or throws, all but the double
\* that a limit is rounded up to, which is not of the type and is cast all the
\* same; what is convertible to Int or UInt, and nothing else, does not throw;
\* one that is convertible to null is false.
AccessorsAgree ==
  IsDecoded =>
    /\ \A t \in IntegerType : Is(t, number) =>
         As(t, number) = {IF number.type = "real" THEN number.value \div 2 ELSE number.value}
    /\ \A t \in IntegerType : AtRoundedLimit(t, number) \/ \A n \in As(t, number) : Converted(n, number)
    /\ \A t \in {"Int", "UInt"} : IsConvertibleTo(t, number) <=> As(t, number) # {}
    /\ IsIntegral(number) <=> Is("Int64", number) \/ Is("UInt64", number)
    /\ IsConvertibleToNull(number) <=> ~AsBool(number)
=============================================================================
