------------------------------ MODULE BitrefillMoney ------------------------------
(***************************************************************************)
(* Amounts of money at Bitrefill: src/src/integrations/bitrefill/money.ts. *)
(*                                                                         *)
(* The shop writes major units as text or as a JSON number, the code keeps *)
(* minor units.  A text is a decimal, [digits, scale] with scale one of 1, *)
(* 10, 100, ...: digits / scale, written with as many digits after the     *)
(* point as scale has zeros.  A JSON number is the binary double nearest   *)
(* to it, and so is what the code computes from it.  A double is kept as a *)
(* whole number of grains, the least double above 0.                       *)
(***************************************************************************)
EXTENDS Integers

CONSTANTS
    One,             \* the number 1 in grains: 2^1074
    Half,            \* 2^52: a double is q * u with q in Half .. 2 * Half - 1, or q < Half and u = 1
    Units,           \* the u of the doubles, in grains: the powers of two
    Epsilon,         \* EXACT_CENT_EPSILON, in grains
    MaxSafeInteger,
    Refused          \* what throws

\* Units are the powers of two up to some bound, half a cent is no subnormal,
\* and the tolerance is less than a quarter of a cent.
ASSUME MoneyAssumption ==
    /\ Half \in Nat \ {0} /\ Epsilon \in Nat
    /\ Units \subseteq Nat \ {0} /\ {1, One} \subseteq Units
    /\ \A u \in Units : u = 1 \/ \E v \in Units : u = 2 * v
    /\ \A u, v \in Units : v <= u => u % v = 0
    /\ 200 * Half <= One /\ 4 * Epsilon < One
    /\ MaxSafeInteger = 2 * Half - 1
    /\ Refused \notin Nat

\* The unit of the doubles around a number of grains.
Ulp(grains) == CHOOSE u \in Units : grains < 2 * u * Half /\ (u = 1 \/ u * Half <= grains)

\* The double nearest to numerator / denominator, the even one of two.
Nearest(numerator, denominator) ==
    LET unit == Ulp(numerator \div denominator)
        whole == numerator \div (denominator * unit)
        rest == numerator % (denominator * unit)
        up == \/ 2 * rest > denominator * unit
              \/ 2 * rest = denominator * unit /\ whole % 2 = 1
    IN  unit * (IF up THEN whole + 1 ELSE whole)

\* The JSON number that a decimal is written as: JSON.parse and Number.
numberOf(decimal) == Nearest(decimal.digits * One, decimal.scale)

\* Math.round of a double, to an integer.
roundedToInteger(value) == (2 * value + One) \div (2 * One)

\* How far a double is from an integer.
Distance(value, integer) ==
    IF value >= integer * One THEN value - integer * One ELSE integer * One - value

\* Faulty variant: the product is cut off instead of rounded.
numberCutToMinorUnits(value) ==
    LET scaled == Nearest(100 * value, 1)
        nearest == scaled \div One IN
    CASE value % One = 0 /\ (value \div One) * 100 <= MaxSafeInteger -> (value \div One) * 100
      [] /\ value % One # 0 /\ nearest <= MaxSafeInteger
         /\ Distance(scaled, nearest) <= Epsilon -> nearest
      [] OTHER -> Refused

\* numberToMinorUnits: an integer is multiplied, of another number the product
\* must be within the tolerance of an integer.
numberToMinorUnits(value) ==
    LET scaled == Nearest(100 * value, 1)
        nearest == roundedToInteger(scaled) IN
    CASE value % One = 0 /\ (value \div One) * 100 <= MaxSafeInteger -> (value \div One) * 100
      [] /\ value % One # 0 /\ nearest <= MaxSafeInteger
         /\ Distance(scaled, nearest) <= Epsilon -> nearest
      [] OTHER -> Refused

\* Faulty variant: one digit of cents is read as it stands.
decimalUnpaddedToMinorUnits(decimal) ==
    LET minor == (decimal.digits \div decimal.scale) * 100 + (decimal.digits % decimal.scale) IN
    IF decimal.scale > 100 \/ minor > MaxSafeInteger THEN Refused ELSE minor

\* decimalStringToMinorUnits: at most two digits of cents, padded to two.
decimalStringToMinorUnits(decimal) ==
    LET cents == (decimal.digits % decimal.scale) * (100 \div decimal.scale)
        minor == (decimal.digits \div decimal.scale) * 100 + cents IN
    IF decimal.scale > 100 \/ minor > MaxSafeInteger THEN Refused ELSE minor

\* fiatMinorToExactDecimalString: dollars, a point and two digits of cents.
fiatMinorToExactDecimalString(minor) == [digits |-> minor, scale |-> 100]

\* Faulty variant: the number is not read back.
fiatMinorUnchecked(minor) ==
    IF minor > MaxSafeInteger THEN Refused
    ELSE IF minor % 100 = 0 THEN (minor \div 100) * One
    ELSE numberOf(fiatMinorToExactDecimalString(minor))

\* fiatMinorToBitrefillMajor: whole dollars as they are, and else the number of
\* the text, unless it reads as another amount.
fiatMinorToBitrefillMajor(minor) ==
    LET major == numberOf(fiatMinorToExactDecimalString(minor)) IN
    CASE minor <= MaxSafeInteger /\ minor % 100 = 0 -> (minor \div 100) * One
      [] /\ minor <= MaxSafeInteger /\ minor % 100 # 0
         /\ numberToMinorUnits(major) = minor -> major
      [] OTHER -> Refused

=============================================================================
