----------------------------- MODULE Arithmetic -----------------------------
(***************************************************************************)
(* What the generator emits for commands whose LLVM instruction is not     *)
(* defined on all operands or not the same on all targets                  *)
(* (src/src/codegen_instructions.cpp): the checks, the instruction and the *)
(* corrections behind it, on words of few bits.                            *)
(*                                                                         *)
(* A word of n bits is a number below 2^n.  A command yields an outcome:   *)
(* a value, a trap, or "poison" where LLVM leaves the result undefined,    *)
(* which a program must never reach.                                       *)
(***************************************************************************)
EXTENDS Integers, Sequences

Value(v) == <<"value", v>>
Trap == <<"trap">>
Poison == <<"poison">>

Wrap(i, n) == i % 2^n
Signed(x, n) == IF x >= 2^(n - 1) THEN x - 2^n ELSE x
Number(x, n, isUnsigned) == IF isUnsigned THEN x ELSE Signed(x, n)
Minimum(n) == 2^(n - 1)
AllOnes(n) == 2^n - 1
Truth(condition) == Value(IF condition THEN 1 ELSE 0)

Abs(i) == IF i < 0 THEN -i ELSE i
\* Division as in C, towards zero.
Quotient(i, j) == (IF (i < 0) = (j < 0) THEN 1 ELSE -1) * (Abs(i) \div Abs(j))
Remainder(i, j) == i - j * Quotient(i, j)

-----------------------------------------------------------------------------
\* LLVM's instructions.
Divides(op, x, y, n, isUnsigned) ==
  IF y = 0 \/ (~isUnsigned /\ x = Minimum(n) /\ y = AllOnes(n)) THEN Poison
  ELSE LET i == Number(x, n, isUnsigned)
           j == Number(y, n, isUnsigned)
       IN Value(Wrap(IF op = "div" THEN Quotient(i, j) ELSE Remainder(i, j), n))

Shifts(op, x, y, n, isUnsigned) ==
  CASE y >= n -> Poison
    [] y < n /\ op = "lsh" -> Value(Wrap(x * 2^y, n))
    [] y < n /\ op = "rsh" -> Value(Wrap(Number(x, n, isUnsigned) \div 2^y, n))

Compares(op, x, y, n, isUnsigned) ==
  LET i == Number(x, n, isUnsigned)
      j == Number(y, n, isUnsigned)
  IN CASE op = "eq" -> Truth(x = y)
       [] op = "neq" -> Truth(x # y)
       [] op = "gt" -> Truth(i > j)
       [] op = "lt" -> Truth(i < j)
       [] op = "gte" -> Truth(i >= j)
       [] op = "lte" -> Truth(i <= j)

\* coerceValue of an integer of m bits to n bits.
Coerced(x, m, n, treatSourceAsUnsigned) ==
  IF m < n THEN Wrap(Number(x, m, treatSourceAsUnsigned), n) ELSE Wrap(x, n)

\* processBinaryInstruction: what is checked before a division or remainder.
\* Slip: the one quotient that is too large is forgotten.
DivisorInvalid(x, y, n, isUnsigned) == y = 0

DivisionInvalid(x, y, n, isUnsigned) ==
  y = 0 \/ (~isUnsigned /\ x = Minimum(n) /\ y = AllOnes(n))

ShiftTooLarge(y, n) == y >= n

\* The operands have n and m bits; the left one decides what is unsigned.
Binary(op, lhs, n, right, m, isUnsigned) ==
  LET rhs == Coerced(right, m, n, isUnsigned)
  IN CASE op = "add" -> Value(Wrap(lhs + rhs, n))
       [] op = "sub" -> Value(Wrap(lhs - rhs, n))
       [] op = "mul" -> Value(Wrap(lhs * rhs, n))
       [] op \in {"div", "mod"} ->
            IF DivisionInvalid(lhs, rhs, n, isUnsigned) THEN Trap
            ELSE Divides(op, lhs, rhs, n, isUnsigned)
       [] op \in {"lsh", "rsh"} ->
            IF ShiftTooLarge(rhs, n) THEN Trap ELSE Shifts(op, lhs, rhs, n, isUnsigned)
       [] OTHER -> Compares(op, lhs, rhs, n, isUnsigned)

\* The difference of two addresses of n bits, in elements of some size.
PointerDifference(lhs, rhs, n, elementSize) ==
  LET signedDelta == Wrap(Signed(Wrap(lhs - rhs, n), n), n + 1)
      elementDelta == Divides("div", signedDelta, elementSize, n + 1, FALSE)
  IN IF elementDelta = Poison THEN Poison ELSE Value(Wrap(elementDelta[2], n))

\* The lanes of #vdivi and #vdivu.
LaneInvalid(name, x, y, n) ==
  y = 0 \/ (name = "vdivi" /\ x = Minimum(n) /\ y = AllOnes(n))

VectorDivision(name, a, b, n) ==
  LET quotients == [k \in DOMAIN a |-> Divides("div", a[k], b[k], n, name = "vdivu")]
  IN IF \E k \in DOMAIN a : LaneInvalid(name, a[k], b[k], n) THEN Trap
     ELSE IF \E k \in DOMAIN a : quotients[k] = Poison THEN Poison
     ELSE Value([k \in DOMAIN a |-> quotients[k][2]])

-----------------------------------------------------------------------------
\* A floating-point format of a sign, bits of exponent and bits of fraction.
CONSTANTS
  ExponentBits,
  FractionBits,
  One   \* 1 in units of the smallest positive number

ASSUME FormatAssumption ==
  ExponentBits \in Nat \ {0} /\ FractionBits \in Nat \ {0} /\ One \in Nat \ {0}

FloatBits == 1 + ExponentBits + FractionBits
SignBit(x) == x \div 2^(FloatBits - 1)
Exponent(x) == (x \div 2^FractionBits) % 2^ExponentBits
Fraction(x) == x % 2^FractionBits
ExponentMask == AllOnes(ExponentBits)
QuietBit == 2^(FractionBits - 1)

SignedZero(sign) == sign * 2^(FloatBits - 1)
CanonicalNaN == ExponentMask * 2^FractionBits + QuietBit
IsNaN(x) == Exponent(x) = ExponentMask /\ Fraction(x) # 0
IsSignaling(x) == IsNaN(x) /\ Fraction(x) < QuietBit
IsZero(x) == Exponent(x) = 0 /\ Fraction(x) = 0

flushSubnormal(x) ==
  IF Exponent(x) = 0 /\ Fraction(x) # 0 THEN SignedZero(SignBit(x)) ELSE x

\* The bits without the sign order the numbers; the two zeros are equal.
Magnitude(x) == x % 2^(FloatBits - 1)
Less(x, y) ==
  LET order(z) == IF SignBit(z) = 1 THEN -Magnitude(z) ELSE Magnitude(z)
  IN order(x) < order(y)

\* What LLVM's minnum or maxnum may return on some target: either of equal
\* operands, and of NaNs what the target makes of them.
MinNum(name, a, b) ==
  CASE IsNaN(a) /\ IsNaN(b) -> {a, b, CanonicalNaN}
    [] IsNaN(a) /\ ~IsNaN(b) -> {b} \cup IF IsSignaling(a) THEN {a, CanonicalNaN} ELSE {}
    [] IsNaN(b) /\ ~IsNaN(a) -> {a} \cup IF IsSignaling(b) THEN {b, CanonicalNaN} ELSE {}
    [] ~IsNaN(a) /\ ~IsNaN(b) ->
         IF Less(a, b) THEN {IF name = "vmin" THEN a ELSE b}
         ELSE IF Less(b, a) THEN {IF name = "vmin" THEN b ELSE a}
         ELSE {a, b}

\* processVectorArithmeticInstruction: a lane of #vmin or #vmax.
StableZero(name, a, b) ==
  SignedZero(IF name = "vmin" THEN IF SignBit(a) = 1 \/ SignBit(b) = 1 THEN 1 ELSE 0
             ELSE IF SignBit(a) = 1 /\ SignBit(b) = 1 THEN 1 ELSE 0)

NaNResult(a, b) ==
  CASE IsSignaling(a) \/ IsSignaling(b) \/ (IsNaN(a) /\ IsNaN(b)) -> CanonicalNaN
    [] IsNaN(a) /\ ~IsNaN(b) /\ ~IsSignaling(a) -> b
    [] IsNaN(b) /\ ~IsNaN(a) /\ ~IsSignaling(b) -> a

MinMax(name, left, right) ==
  LET a == flushSubnormal(left)
      b == flushSubnormal(right)
  IN {Value(CASE IsZero(a) /\ IsZero(b) -> StableZero(name, a, b)
              [] IsNaN(a) \/ IsNaN(b) -> NaNResult(a, b)
              [] OTHER -> result) : result \in MinNum(name, a, b)}

\* The value of a number, in those units.
Units(x) ==
  (IF SignBit(x) = 1 THEN -1 ELSE 1)
    * (IF Exponent(x) = 0 THEN Fraction(x)
       ELSE (2^FractionBits + Fraction(x)) * 2^(Exponent(x) - 1))

IsFinite(x) == Exponent(x) # ExponentMask
LargestFinite == ExponentMask * 2^FractionBits - 1

\* LLVM's fptosi and fptoui.
Converts(x, n, signedResult) ==
  LET integer == Quotient(Units(x), One)
  IN IF /\ IsFinite(x)
        /\ integer >= (IF signedResult THEN -(2^(n - 1)) ELSE 0)
        /\ integer < (IF signedResult THEN 2^(n - 1) ELSE 2^n)
     THEN Value(Wrap(integer, n))
     ELSE Poison

\* processFloatToIntegerCast.  Comparisons with NaN are false, and no infinity
\* is between limits that are numbers.
InRange(x, n, signedResult) ==
  LET magnitude == IF signedResult THEN 2^(n - 1) ELSE 2^n
      lower == IF signedResult THEN -magnitude ELSE 0
  IN IsFinite(x) /\ Units(x) >= One * lower /\ Units(x) < One * magnitude

FloatToInteger(operand, n, signedResult) ==
  LET x == flushSubnormal(operand)
  IN IF InRange(x, n, signedResult) THEN Converts(x, n, signedResult) ELSE Trap
=============================================================================
