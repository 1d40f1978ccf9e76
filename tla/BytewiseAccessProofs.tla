------------------------ MODULE BytewiseAccessProofs ------------------------
(***************************************************************************)
(* LoadsMixStores and ResultsExact for every case that CaseAssumption      *)
(* admits: bytes of any width, any addresses, sizes and values, any        *)
(* floating-point format; loads of one to three bytes.                     *)
(*                                                                         *)
(*   Powers of two and division.                                           *)
(*   Arithmetic on words and floats: each command is exact on all operands.*)
(*   Writes: of the address they name, the last has the final value.       *)
(*   The races: the writes still pending keep that, whichever is next.     *)
(*   Results: the loaded bytes are a word, and so the command is exact.    *)
(***************************************************************************)
EXTENDS BytewiseAccess, FiniteSetTheorems, TLAPS

-----------------------------------------------------------------------------
(***************************************************************************)
(* Powers of two, as the numbers of subsets; division that rounds down.    *)
(***************************************************************************)
\* TLAPS knows 2^n as the number of subsets of n elements only.
LEMMA SubsetsOfInterval ==
  ASSUME NEW a \in Int, NEW n \in Nat
  PROVE  /\ IsFiniteSet(SUBSET (a + 1 .. a + n))
         /\ Cardinality(SUBSET (a + 1 .. a + n)) = 2^n
         /\ 2^n \in Nat
<1> DEFINE S == a + 1 .. a + n
<1>1. IsFiniteSet(S) /\ Cardinality(S) = n
  <2>1. a + 1 \in Int /\ a + n \in Int
    OBVIOUS
  <2>2. (IF a + 1 > a + n THEN 0 ELSE (a + n) - (a + 1) + 1) = n
    OBVIOUS
  <2> QED
    BY <2>1, <2>2, FS_Interval
<1> HIDE DEF S
<1>2. IsFiniteSet(SUBSET S) /\ Cardinality(SUBSET S) = 2^n
  BY <1>1, FS_SUBSET
<1>3. 2^n \in Nat
  BY <1>2, FS_CardinalityType
<1> QED
  BY <1>2, <1>3 DEF S

\* There is a subset, the empty one.
LEMMA PowerIsPositive ==
  ASSUME NEW n \in Nat
  PROVE  2^n \in Nat /\ 2^n > 0
<1> DEFINE T == SUBSET (0 + 1 .. 0 + n)
<1>1. IsFiniteSet(T) /\ Cardinality(T) = 2^n /\ 2^n \in Nat
  BY 0 \in Int, SubsetsOfInterval, Zenon
<1>2. T # {}
  OBVIOUS
<1> HIDE DEF T
<1>3. Cardinality(T) # 0
  BY <1>1, <1>2, FS_EmptySet
<1> QED
  BY <1>1, <1>3

\* A subset of two sets is one of each.
LEMMA PowerOfSum ==
  ASSUME NEW m \in Nat, NEW n \in Nat
  PROVE  2^(m + n) = 2^m * 2^n
<1> DEFINE A == 0 + 1 .. 0 + m
           B == m + 1 .. m + n
           C == 0 + 1 .. 0 + (m + n)
           f == [pair \in (SUBSET A) \X (SUBSET B) |-> pair[1] \cup pair[2]]
<1>1. /\ IsFiniteSet(SUBSET A) /\ Cardinality(SUBSET A) = 2^m
      /\ IsFiniteSet(SUBSET B) /\ Cardinality(SUBSET B) = 2^n
      /\ IsFiniteSet(SUBSET C) /\ Cardinality(SUBSET C) = 2^(m + n)
  <2>1. m + n \in Nat /\ 0 \in Int /\ m \in Int
    OBVIOUS
  <2> QED
    BY <2>1, SubsetsOfInterval
<1>2. C = A \cup B /\ A \cap B = {}
  OBVIOUS
<1> HIDE DEF A, B, C
<1> DEFINE S == (SUBSET A) \X (SUBSET B)
           T == SUBSET C
<1>3. f \in [S -> T]
  BY <1>2
<1>4. ASSUME NEW x \in S, NEW y \in S, f[x] = f[y]
      PROVE  x = y
  <2>1. x[1] \subseteq A /\ x[2] \subseteq B /\ y[1] \subseteq A /\ y[2] \subseteq B
    OBVIOUS
  <2>2. x[1] \cup x[2] = y[1] \cup y[2]
    BY <1>4
  <2>3. x[1] = y[1] /\ x[2] = y[2]
    BY <1>2, <2>1, <2>2
  <2> QED
    BY <2>3
<1>5. \A u \in T : \E x \in S : f[x] = u
  <2> TAKE u \in T
  <2>1. <<u \cap A, u \cap B>> \in S /\ (u \cap A) \cup (u \cap B) = u
    BY <1>2
  <2> QED
    BY <2>1
<1> HIDE DEF f
<1>6. f \in Bijection(S, T)
  BY <1>3, <1>4, <1>5 DEF Bijection, Injection, Surjection, IsInjective
<1>7. ExistsBijection(S, T)
  BY <1>6 DEF ExistsBijection
<1>8. IsFiniteSet(S) /\ Cardinality(S) = 2^m * 2^n
  BY <1>1, FS_Product
<1>9. Cardinality(T) = Cardinality(S)
  <2> HIDE DEF S, T
  <2> QED
    BY <1>7, <1>8, FS_Bijection
<1> QED
  BY <1>1, <1>8, <1>9

\* The powers of one and of none.
LEMMA PowerDoubles ==
  ASSUME NEW n \in Nat
  PROVE  2^(n + 1) = 2 * 2^n /\ 2^0 = 1
<1>1. 2^1 = 2 /\ 2^0 = 1
  OBVIOUS
<1>2. 2^(n + 1) = 2^n * 2^1 /\ 2^n \in Nat
  BY PowerOfSum, PowerIsPositive
<1> QED
  BY <1>1, <1>2

\* As many subsets as elements at least, the empty set besides.
LEMMA PowerIsLarger ==
  ASSUME NEW n \in Nat
  PROVE  n < 2^n
<1> DEFINE N == 0 .. n
           T == SUBSET (0 + 1 .. 0 + n)
           f == [i \in N |-> IF i = 0 THEN {} ELSE {i}]
<1>1. IsFiniteSet(T) /\ Cardinality(T) = 2^n /\ 2^n \in Nat
  BY 0 \in Int, SubsetsOfInterval, Zenon
<1>2. IsFiniteSet(N) /\ Cardinality(N) = n + 1
  <2>1. (IF 0 > n THEN 0 ELSE n - 0 + 1) = n + 1
    OBVIOUS
  <2> QED
    BY <2>1, FS_Interval
<1>3. f \in [N -> T] /\ \A i, j \in N : f[i] = f[j] => i = j
  OBVIOUS
<1> HIDE DEF f
<1>4. f \in Injection(N, T)
  BY <1>3 DEF Injection, IsInjective
<1>5. Cardinality(N) <= Cardinality(T)
  <2> HIDE DEF N, T
  <2> QED
    BY <1>1, <1>4, FS_Injection
<1> QED
  BY <1>1, <1>2, <1>5

\* Division that rounds down, for the provers to use where their own rules fail.
LEMMA DivMod ==
  ASSUME NEW P \in Nat, P > 0, NEW x \in Int
  PROVE  /\ x \div P \in Int /\ x % P \in 0 .. P - 1
         /\ x = P * (x \div P) + (x % P)
OBVIOUS

\* There is no multiple between a number and its negative but 0.
LEMMA Between ==
  ASSUME NEW P \in Nat, P > 0, NEW d \in Int, P * d < P, P * d > -P
  PROVE  d = 0
<1>1. CASE d >= 1
  <2>1. P * d >= P
    BY <1>1
  <2> QED
    BY <2>1
<1>2. CASE d <= -1
  <2>1. P * d <= -P
    BY <1>2
  <2> QED
    BY <2>1
<1> QED
  BY <1>1, <1>2

\* A quotient and a remainder are found by guessing them.
LEMMA DivModUnique ==
  ASSUME NEW P \in Nat, P > 0, NEW x \in Int, NEW q \in Int, NEW r \in 0 .. P - 1,
         x = P * q + r
  PROVE  x \div P = q /\ x % P = r
<1>1. /\ x \div P \in Int /\ x % P \in 0 .. P - 1
      /\ x = P * (x \div P) + (x % P)
  BY DivMod
<1> DEFINE d == q - (x \div P)
<1>2. d \in Int /\ P * d = (x % P) - r
  BY <1>1
<1>3. d = 0
  BY <1>1, <1>2, Between
<1> QED
  BY <1>1, <1>2, <1>3

\* Multiples of the divisor leave no remainder.
LEMMA ModShift ==
  ASSUME NEW P \in Nat, P > 0, NEW x \in Int, NEW k \in Int
  PROVE  (x + P * k) % P = x % P
<1>1. /\ x \div P \in Int /\ x % P \in 0 .. P - 1
      /\ x = P * (x \div P) + (x % P)
  BY DivMod
<1> DEFINE y == x + P * k
           q == (x \div P) + k
<1>2. y \in Int /\ q \in Int /\ y = P * q + (x % P)
  BY <1>1
<1> HIDE DEF y, q
<1>3. y % P = x % P
  BY <1>1, <1>2, DivModUnique
<1> QED
  BY <1>3 DEF y

-----------------------------------------------------------------------------
(***************************************************************************)
(* Integer commands on words of any widths.                                *)
(***************************************************************************)
\* The numbers that a word of n bits is made of.
LEMMA Widths ==
  ASSUME NEW n \in Nat \ {0}
  PROVE  /\ 2^n \in Nat /\ 2^n > 0
         /\ 2^(n - 1) \in Nat /\ 2^(n - 1) >= n
         /\ 2^n = 2 * 2^(n - 1)
<1>1. n - 1 \in Nat /\ (n - 1) + 1 = n
  OBVIOUS
<1> DEFINE m == n - 1
<1>2. m \in Nat /\ n = m + 1
  BY <1>1
<1> HIDE DEF m
<1>3. 2^m \in Nat /\ m < 2^m /\ 2^(m + 1) = 2 * 2^m
  BY <1>2, PowerIsPositive, PowerIsLarger, PowerDoubles
<1>4. 2^n = 2 * 2^m
  BY <1>2, <1>3
<1>5. 2^m >= n
  BY <1>2, <1>3
<1> QED
  BY <1>2, <1>3, <1>4, <1>5 DEF m

\* What Wrap leaves of a number, of a word, and of a number beyond a word.
LEMMA WrapIsWord ==
  ASSUME NEW n \in Nat \ {0}, NEW i \in Int
  PROVE  Wrap(i, n) \in 0 .. 2^n - 1
<1> DEFINE P == 2^n
<1>1. P \in Nat /\ P > 0
  BY Widths
<1> HIDE DEF P
<1>2. i % P \in 0 .. P - 1
  BY <1>1, DivMod
<1> QED
  BY <1>2 DEF P, Wrap

LEMMA WrapOfWord ==
  ASSUME NEW n \in Nat \ {0}, NEW x \in 0 .. 2^n - 1
  PROVE  Wrap(x, n) = x
<1> DEFINE P == 2^n
<1>1. P \in Nat /\ P > 0 /\ x \in 0 .. P - 1 /\ x = P * 0 + x
  BY Widths
<1> HIDE DEF P
<1>2. x % P = x
  BY <1>1, DivModUnique
<1> QED
  BY <1>2 DEF P, Wrap

LEMMA WrapForgets ==
  ASSUME NEW n \in Nat \ {0}, NEW i \in Int, NEW k \in Int
  PROVE  Wrap(i + 2^n * k, n) = Wrap(i, n)
<1> DEFINE P == 2^n
<1>1. P \in Nat /\ P > 0
  BY Widths
<1> HIDE DEF P
<1>2. (i + P * k) % P = i % P
  BY <1>1, ModShift
<1> QED
  BY <1>2 DEF P, Wrap

\* A word as a number is the word, or that less 2^n.
LEMMA NumberOfWord ==
  ASSUME NEW n \in Nat \ {0}, NEW x \in 0 .. 2^n - 1, NEW u \in BOOLEAN
  PROVE  /\ Number(x, n, u) \in Int
         /\ u => Number(x, n, u) = x
         /\ ~u => /\ Number(x, n, u) = IF x >= 2^(n - 1) THEN x - 2^n ELSE x
                  /\ Number(x, n, u) \in -2^(n - 1) .. 2^(n - 1) - 1
         /\ \E k \in {0, -1} : Number(x, n, u) = x + 2^n * k
<1> DEFINE P == 2^n
           H == 2^(n - 1)
<1>1. P \in Nat /\ H \in Nat /\ P = 2 * H /\ x \in 0 .. P - 1
  BY Widths
<1>2. Number(x, n, u) = IF u THEN x ELSE IF x >= H THEN x - P ELSE x
  BY DEF Number, Signed
<1> HIDE DEF P, H
<1>3. Number(x, n, u) = x + P * 0 \/ Number(x, n, u) = x + P * (-1)
  BY <1>1, <1>2
<1>4. \E k \in {0, -1} : Number(x, n, u) = x + P * k
  BY <1>3
<1>5. /\ Number(x, n, u) \in Int
      /\ ~u => Number(x, n, u) \in -H .. H - 1
  BY <1>1, <1>2
<1> QED
  BY <1>2, <1>4, <1>5 DEF P, H

\* coerceValue keeps the low bits of the number.
LEMMA CoercedNumber ==
  ASSUME NEW m \in Nat \ {0}, NEW n \in Nat \ {0}, NEW x \in 0 .. 2^m - 1, NEW u \in BOOLEAN
  PROVE  Coerced(x, m, n, u) = Wrap(Number(x, m, u), n)
<1>1. CASE m < n
  BY <1>1 DEF Coerced
<1>2. CASE m >= n
  <2>1. PICK k \in {0, -1} : Number(x, m, u) = x + 2^m * k
    BY NumberOfWord
  <2>2. 2^m = 2^n * 2^(m - n) /\ 2^(m - n) \in Nat /\ 2^n \in Nat
    <3>1. m - n \in Nat /\ n + (m - n) = m /\ n \in Nat
      BY <1>2
    <3>2. 2^(n + (m - n)) = 2^n * 2^(m - n)
      BY <3>1, PowerOfSum
    <3> QED
      BY <3>1, <3>2, PowerIsPositive
  <2> DEFINE j == 2^(m - n) * k
  <2>3. j \in Int /\ 2^m * k = 2^n * j
    BY <2>2
  <2>4. Wrap(x + 2^n * j, n) = Wrap(x, n)
    <3>1. x \in Int
      OBVIOUS
    <3> HIDE DEF j
    <3> QED
      BY <2>3, <3>1, WrapForgets, Zenon
  <2>5. ~(m < n)
    BY <1>2
  <2> QED
    BY <2>1, <2>3, <2>4, <2>5 DEF Coerced
<1> QED
  BY <1>1, <1>2

\* Sums and products of the numbers and of the words have the same low bits.
LEMMA RingOfWords ==
  ASSUME NEW n \in Nat \ {0}, NEW x \in 0 .. 2^n - 1, NEW y \in 0 .. 2^n - 1,
         NEW u \in BOOLEAN
  PROVE  LET i == Number(x, n, u)
             j == Number(y, n, u)
         IN /\ Wrap(x + y, n) = Wrap(i + j, n)
            /\ Wrap(x - y, n) = Wrap(i - j, n)
            /\ Wrap(x * y, n) = Wrap(i * j, n)
<1> DEFINE P == 2^n
           i == Number(x, n, u)
           j == Number(y, n, u)
<1>1. PICK k \in {0, -1} : i = x + P * k
  BY NumberOfWord
<1>2. PICK l \in {0, -1} : j = y + P * l
  BY NumberOfWord
<1>3. P \in Nat /\ x \in Int /\ y \in Int
  BY Widths
<1>4. \A a, b \in Int : Wrap(a + P * b, n) = Wrap(a, n)
  BY WrapForgets
<1> HIDE DEF P, i, j
<1>5. /\ i + j = (x + y) + P * (k + l)
      /\ i - j = (x - y) + P * (k - l)
      /\ i * j = x * y + P * (x * l + y * k + P * k * l)
  BY <1>1, <1>2, <1>3
<1>6. /\ x + y \in Int /\ k + l \in Int /\ x - y \in Int /\ k - l \in Int
      /\ x * y \in Int /\ x * l + y * k + P * k * l \in Int
  BY <1>3
<1>7. /\ Wrap(i + j, n) = Wrap(x + y, n)
      /\ Wrap(i - j, n) = Wrap(x - y, n)
      /\ Wrap(i * j, n) = Wrap(x * y, n)
  BY <1>4, <1>5, <1>6
<1> QED
  BY <1>7 DEF i, j

\* A quotient is no larger than the dividend, and only two are as large.
LEMMA DivideNaturals ==
  ASSUME NEW a \in Nat, NEW b \in Nat, b > 0
  PROVE  a \div b \in 0 .. a /\ (b > 1 /\ a > 0 => a \div b < a) /\ (b = 1 => a \div b = a)
<1> DEFINE q == a \div b
<1>1. q \in Int /\ a % b \in 0 .. b - 1 /\ a = b * q + (a % b)
  BY DivMod
<1> HIDE DEF q
<1>2. q >= 0
  <2> SUFFICES ASSUME q <= -1 PROVE FALSE
    BY <1>1
  <2>1. b * q <= -b
    BY <1>1
  <2> QED
    BY <1>1, <2>1
<1>3. b * q >= q /\ (b > 1 => b * q >= 2 * q)
  BY <1>1, <1>2
<1> QED
  BY <1>1, <1>2, <1>3 DEF q

\* Of numbers of one type, only one quotient is too large.
LEMMA QuotientOfSigned ==
  ASSUME NEW H \in Nat, H > 0, NEW i \in -H .. H - 1, NEW j \in -H .. H - 1, j # 0
  PROVE  /\ Quotient(i, j) \in -H .. H
         /\ Quotient(i, j) = H <=> i = -H /\ j = -1
<1> DEFINE a == Abs(i)
           b == Abs(j)
           q == a \div b
<1>1. a \in 0 .. H /\ b \in 1 .. H /\ (a = i \/ a = -i) /\ (b = j \/ b = -j)
  BY DEF Abs
<1>2. q \in 0 .. a /\ (b > 1 /\ a > 0 => q < a) /\ (b = 1 => q = a)
  <2> HIDE DEF a, b
  <2> QED
    BY <1>1, DivideNaturals
<1>3. Quotient(i, j) = IF (i < 0) = (j < 0) THEN q ELSE -q
  <2>1. Quotient(i, j) = (IF (i < 0) = (j < 0) THEN 1 ELSE -1) * q
    BY DEF Quotient
  <2> HIDE DEF q
  <2> QED
    BY <1>1, <1>2, <2>1
<1>4. /\ i < 0 <=> a = -i /\ a > 0
      /\ j < 0 <=> b = -j
  BY <1>1 DEF Abs
<1> HIDE DEF a, b, q
<1> QED
  BY <1>1, <1>2, <1>3, <1>4

LEMMA QuotientOfUnsigned ==
  ASSUME NEW i \in Nat, NEW j \in Nat, j # 0
  PROVE  Quotient(i, j) \in 0 .. i
<1>1. Quotient(i, j) = i \div j
  <2>1. Abs(i) = i /\ Abs(j) = j /\ (i < 0) = (j < 0)
    BY DEF Abs
  <2>2. i \div j \in Int
    BY DivideNaturals
  <2> DEFINE q == i \div j
  <2>3. Quotient(i, j) = 1 * q
    BY <2>1 DEF Quotient
  <2> HIDE DEF q
  <2> QED
    BY <2>2, <2>3 DEF q
<1> QED
  BY <1>1, DivideNaturals

\* The check before a division finds exactly the divisions without a quotient.
LEMMA DivisionChecked ==
  ASSUME NEW n \in Nat \ {0}, NEW x \in 0 .. 2^n - 1, NEW y \in 0 .. 2^n - 1,
         NEW u \in BOOLEAN
  PROVE  LET i == Number(x, n, u)
             j == Number(y, n, u)
         IN DivisionInvalid(x, y, n, u) <=> j = 0 \/ ~Representable(Quotient(i, j), n, u)
<1> DEFINE P == 2^n
           H == 2^(n - 1)
           i == Number(x, n, u)
           j == Number(y, n, u)
<1>1. P \in Nat /\ H \in Nat /\ P = 2 * H /\ H > 0 /\ x \in 0 .. P - 1 /\ y \in 0 .. P - 1
  BY Widths
<1>2. /\ u => i = x /\ j = y
      /\ ~u => /\ i = IF x >= H THEN x - P ELSE x
               /\ j = IF y >= H THEN y - P ELSE y
               /\ i \in -H .. H - 1 /\ j \in -H .. H - 1
  BY NumberOfWord
<1>3. DivisionInvalid(x, y, n, u) <=> y = 0 \/ (~u /\ x = H /\ y = P - 1)
  BY DEF DivisionInvalid, Minimum, AllOnes
<1>4. \A q : Representable(q, n, u) <=> q \in IF u THEN 0 .. P - 1 ELSE -H .. H - 1
  BY DEF Representable
<1> HIDE DEF P, H, i, j
<1>5. j = 0 <=> y = 0
  BY <1>1, <1>2
<1>6. CASE u
  <2>1. j # 0 => Quotient(i, j) \in 0 .. i
    BY <1>1, <1>2, <1>6, QuotientOfUnsigned
  <2>2. j # 0 => Quotient(i, j) \in 0 .. P - 1
    BY <1>1, <1>2, <1>6, <2>1
  <2> QED
    BY <1>3, <1>4, <1>5, <1>6, <2>2 DEF i, j
<1>7. CASE ~u
  <2>1. j # 0 => /\ Quotient(i, j) \in -H .. H
                 /\ Quotient(i, j) = H <=> i = -H /\ j = -1
    BY <1>1, <1>2, <1>7, QuotientOfSigned
  <2>2. (i = -H <=> x = H) /\ (j = -1 <=> y = P - 1)
    BY <1>1, <1>2, <1>7
  <2>3. j # 0 => (Quotient(i, j) \notin -H .. H - 1 <=> x = H /\ y = P - 1)
    BY <1>1, <2>1, <2>2
  <2> QED
    BY <1>3, <1>4, <1>5, <1>7, <2>3 DEF i, j
<1> QED
  BY <1>6, <1>7

\* A negative count is a large word, and so too large as well.
LEMMA ShiftChecked ==
  ASSUME NEW n \in Nat \ {0}, NEW y \in 0 .. 2^n - 1, NEW u \in BOOLEAN
  PROVE  LET j == Number(y, n, u)
         IN /\ ShiftTooLarge(y, n) <=> j \notin 0 .. n - 1
            /\ j \in 0 .. n - 1 => j = y
<1> DEFINE P == 2^n
           H == 2^(n - 1)
           j == Number(y, n, u)
<1>1. P \in Nat /\ H \in Nat /\ P = 2 * H /\ H >= n /\ y \in 0 .. P - 1
  BY Widths
<1>2. /\ u => j = y
      /\ ~u => j = IF y >= H THEN y - P ELSE y
  BY NumberOfWord
<1> HIDE DEF P, H, j
<1> QED
  BY <1>1, <1>2 DEF ShiftTooLarge, j

\* To the left, the word and its number go alike.
LEMMA ShiftOfWord ==
  ASSUME NEW n \in Nat \ {0}, NEW x \in 0 .. 2^n - 1, NEW u \in BOOLEAN, NEW y \in Nat
  PROVE  Wrap(x * 2^y, n) = Wrap(Number(x, n, u) * 2^y, n)
<1> DEFINE P == 2^n
           S == 2^y
           i == Number(x, n, u)
<1>1. PICK k \in {0, -1} : i = x + P * k
  BY NumberOfWord
<1>2. P \in Nat /\ S \in Nat /\ x \in Int
  BY Widths, PowerIsPositive
<1>3. \A a, b \in Int : Wrap(a + P * b, n) = Wrap(a, n)
  BY WrapForgets
<1> HIDE DEF P, S, i
<1>4. i * S = x * S + P * (k * S) /\ x * S \in Int /\ k * S \in Int
  BY <1>1, <1>2
<1>5. Wrap(i * S, n) = Wrap(x * S, n)
  BY <1>3, <1>4
<1> QED
  BY <1>5 DEF i, S

\* A value is not a trap, and neither is poison.
LEMMA OutcomesDiffer ==
  /\ \A v : Value(v) # Poison /\ Value(v) # Trap /\ Value(v)[2] = v
  /\ Trap # Poison
BY DEF Value, Poison, Trap

(***************************************************************************)
(* Every integer command, on operands of any widths, traps or yields what  *)
(* arithmetic on numbers does, and LLVM's result is defined.               *)
(***************************************************************************)
LEMMA BinaryIsExact ==
  ASSUME NEW n \in Nat \ {0}, NEW m \in Nat \ {0}, NEW x \in 0 .. 2^n - 1,
         NEW r \in 0 .. 2^m - 1, NEW u \in BOOLEAN, NEW op \in Operations
  PROVE  LET y == Wrap(Number(r, m, u), n)
         IN /\ Binary(op, x, n, r, m, u) = ExactBinary(op, x, y, n, u)
            /\ Binary(op, x, n, r, m, u) # Poison
<1> DEFINE y == Wrap(Number(r, m, u), n)
           i == Number(x, n, u)
           j == Number(y, n, u)
<1>1. y \in 0 .. 2^n - 1 /\ Coerced(r, m, n, u) = y
  BY CoercedNumber, NumberOfWord, WrapIsWord
<1>2. 2^n \in Nat /\ x \in Int /\ y \in Int
  BY <1>1, Widths
<1> HIDE DEF y
<1>3. CASE op \in {"add", "sub", "mul"}
  <2>1. /\ Wrap(x + y, n) = Wrap(i + j, n)
        /\ Wrap(x - y, n) = Wrap(i - j, n)
        /\ Wrap(x * y, n) = Wrap(i * j, n)
    BY <1>1, RingOfWords
  <2>2. CASE op = "add"
    <3>1. Binary(op, x, n, r, m, u) = Value(Wrap(x + y, n))
      BY <1>1, <2>2 DEF Binary
    <3>2. ExactBinary(op, x, y, n, u) = Value(Wrap(i + j, n))
      BY <2>2 DEF ExactBinary
    <3> HIDE DEF i, j
    <3> QED
      BY <2>1, <3>1, <3>2, OutcomesDiffer DEF y
  <2>3. CASE op = "sub"
    <3>1. Binary(op, x, n, r, m, u) = Value(Wrap(x - y, n))
      BY <1>1, <2>3 DEF Binary
    <3>2. ExactBinary(op, x, y, n, u) = Value(Wrap(i - j, n))
      BY <2>3 DEF ExactBinary
    <3> HIDE DEF i, j
    <3> QED
      BY <2>1, <3>1, <3>2, OutcomesDiffer DEF y
  <2>4. CASE op = "mul"
    <3>1. Binary(op, x, n, r, m, u) = Value(Wrap(x * y, n))
      BY <1>1, <2>4 DEF Binary
    <3>2. ExactBinary(op, x, y, n, u) = Value(Wrap(i * j, n))
      BY <2>4 DEF ExactBinary
    <3> HIDE DEF i, j
    <3> QED
      BY <2>1, <3>1, <3>2, OutcomesDiffer DEF y
  <2> QED
    BY <1>3, <2>2, <2>3, <2>4 DEF y
<1>4. CASE op \in {"div", "mod"}
  <2>1. DivisionInvalid(x, y, n, u) <=> j = 0 \/ ~Representable(Quotient(i, j), n, u)
    BY <1>1, DivisionChecked
  <2>2. ~DivisionInvalid(x, y, n, u) =>
          Divides(op, x, y, n, u) =
            Value(Wrap(IF op = "div" THEN Quotient(i, j) ELSE Remainder(i, j), n))
    BY DEF DivisionInvalid, Divides
  <2>3. Binary(op, x, n, r, m, u) =
          IF DivisionInvalid(x, y, n, u) THEN Trap ELSE Divides(op, x, y, n, u)
    BY <1>1, <1>4 DEF Binary
  <2>4. ExactBinary(op, x, y, n, u) =
          IF j = 0 THEN Trap
          ELSE IF ~Representable(Quotient(i, j), n, u) THEN Trap
          ELSE Value(Wrap(IF op = "div" THEN Quotient(i, j) ELSE Remainder(i, j), n))
    BY <1>4 DEF ExactBinary
  <2> HIDE DEF i, j
  <2> QED
    BY <2>1, <2>2, <2>3, <2>4, OutcomesDiffer DEF y
<1>5. CASE op \in {"lsh", "rsh"}
  <2>1. /\ ShiftTooLarge(y, n) <=> j \notin 0 .. n - 1
        /\ j \in 0 .. n - 1 => j = y
    BY <1>1, ShiftChecked
  <2>2. Wrap(x * 2^y, n) = Wrap(i * 2^y, n)
    BY <1>1, ShiftOfWord
  <2>3. ~ShiftTooLarge(y, n) =>
          Shifts(op, x, y, n, u) = Value(Wrap(IF op = "lsh" THEN x * 2^y ELSE i \div 2^y, n))
    BY <1>1, <1>5 DEF Shifts, ShiftTooLarge
  <2>4. Binary(op, x, n, r, m, u) =
          IF ShiftTooLarge(y, n) THEN Trap ELSE Shifts(op, x, y, n, u)
    BY <1>1, <1>5 DEF Binary
  <2>5. ExactBinary(op, x, y, n, u) =
          IF j \notin 0 .. n - 1 THEN Trap
          ELSE Value(Wrap(IF op = "lsh" THEN i * 2^j ELSE i \div 2^j, n))
    BY <1>5 DEF ExactBinary
  <2> HIDE DEF i, j
  <2> QED
    BY <1>5, <2>1, <2>2, <2>3, <2>4, <2>5, OutcomesDiffer DEF y
<1>6. CASE op \in {"eq", "neq", "gt", "lt", "gte", "lte"}
  <2>1. Binary(op, x, n, r, m, u) = Compares(op, x, y, n, u)
    BY <1>1, <1>6 DEF Binary
  <2>2. i \in Int /\ j \in Int /\ (i = j <=> x = y)
    <3> DEFINE P == 2^n
    <3>1. P \in Nat /\ x \in 0 .. P - 1 /\ y \in 0 .. P - 1
      BY <1>1, <1>2
    <3>2. PICK k \in {0, -1} : i = x + P * k
      BY NumberOfWord
    <3>3. PICK l \in {0, -1} : j = y + P * l
      BY <1>1, NumberOfWord
    <3>4. x = y => i = j
      OBVIOUS
    <3> HIDE DEF P, i, j
    <3> QED
      BY <3>1, <3>2, <3>3, <3>4
  <2> HIDE DEF i, j
  <2>3. Compares(op, x, y, n, u) = Truth(CASE op = "eq" -> i = j
                                          [] op = "neq" -> i # j
                                          [] op = "gt" -> i > j
                                          [] op = "lt" -> i < j
                                          [] op = "gte" -> i >= j
                                          [] op = "lte" -> i <= j)
    BY <1>6, <2>2 DEF Compares, i, j
  <2>4. ExactBinary(op, x, y, n, u) = Truth(CASE op = "eq" -> i = j
                                             [] op = "neq" -> i # j
                                             [] op = "gt" -> i > j
                                             [] op = "lt" -> i < j
                                             [] op = "gte" -> i >= j
                                             [] op = "lte" -> i <= j)
    <3>1. i = j \/ i > j \/ i < j
      BY <2>2
    <3>2. /\ i = j => ~(i > j) /\ ~(i < j) /\ i >= j /\ i <= j
          /\ i > j => i # j /\ ~(i < j) /\ i >= j /\ ~(i <= j)
          /\ i < j => i # j /\ ~(i > j) /\ ~(i >= j) /\ i <= j
      BY <2>2
    <3>3. ExactBinary(op, x, y, n, u) =
            CASE op \in {"eq", "gte", "lte"} /\ i = j -> Truth(TRUE)
              [] op \in {"neq", "gt", "lt"} /\ i = j -> Truth(FALSE)
              [] op \in {"eq", "neq", "gt", "gte"} /\ i > j -> Truth(op # "eq")
              [] op \in {"eq", "neq", "lt", "lte"} /\ i < j -> Truth(op # "eq")
              [] OTHER -> Truth(FALSE)
      BY <1>6, <2>2, <3>1, <3>2 DEF ExactBinary, i, j
    <3>4. CASE op = "eq"
      BY <3>1, <3>2, <3>3, <3>4 DEF Truth
    <3>5. CASE op = "neq"
      BY <3>1, <3>2, <3>3, <3>5 DEF Truth
    <3>6. CASE op = "gt"
      BY <3>1, <3>2, <3>3, <3>6 DEF Truth
    <3>7. CASE op = "lt"
      BY <3>1, <3>2, <3>3, <3>7 DEF Truth
    <3>8. CASE op = "gte"
      BY <3>1, <3>2, <3>3, <3>8 DEF Truth
    <3>9. CASE op = "lte"
      BY <3>1, <3>2, <3>3, <3>9 DEF Truth
    <3> QED
      BY <1>6, <3>4, <3>5, <3>6, <3>7, <3>8, <3>9
  <2> QED
    BY <2>1, <2>3, <2>4, OutcomesDiffer DEF y, Truth
<1> QED
  BY <1>3, <1>4, <1>5, <1>6 DEF Operations

\* A number that n bits can hold comes back from them.
LEMMA NumberOfWrap ==
  ASSUME NEW n \in Nat \ {0}, NEW i \in Int, NEW u \in BOOLEAN, Representable(i, n, u)
  PROVE  Number(Wrap(i, n), n, u) = i
<1> DEFINE P == 2^n
           H == 2^(n - 1)
           w == Wrap(i, n)
<1>1. P \in Nat /\ H \in Nat /\ P = 2 * H /\ H > 0
  BY Widths
<1>2. i \in IF u THEN 0 .. P - 1 ELSE -H .. H - 1
  BY DEF Representable
<1>3. Number(w, n, u) = IF u THEN w ELSE IF w >= H THEN w - P ELSE w
  BY DEF Number, Signed
<1>4. w = i % P
  BY DEF Wrap
<1> HIDE DEF P, H, w
<1>5. CASE i >= 0
  <2>1. i \in 0 .. P - 1 /\ i = P * 0 + i
    BY <1>1, <1>2, <1>5
  <2>2. i % P = i
    BY <1>1, <2>1, DivModUnique
  <2> QED
    BY <1>1, <1>2, <1>3, <1>4, <2>2 DEF w
<1>6. CASE i < 0
  <2>1. i + P \in 0 .. P - 1 /\ i = P * (-1) + (i + P) /\ ~u
    BY <1>1, <1>2, <1>6
  <2>2. i % P = i + P
    BY <1>1, <2>1, DivModUnique
  <2> QED
    BY <1>1, <1>2, <1>3, <1>4, <1>6, <2>1, <2>2 DEF w
<1> QED
  BY <1>5, <1>6

\* One bit more, first, makes no difference.
LEMMA WrapOfWrap ==
  ASSUME NEW n \in Nat \ {0}, NEW i \in Int
  PROVE  Wrap(Wrap(i, n + 1), n) = Wrap(i, n)
<1> DEFINE P == 2^n
           q == i \div (2 * P)
<1>1. P \in Nat /\ P > 0 /\ 2^(n + 1) = 2 * P
  BY PowerIsPositive, PowerDoubles
<1> HIDE DEF P
<1>2. /\ q \in Int /\ i % (2 * P) \in 0 .. 2 * P - 1
      /\ i = (2 * P) * q + (i % (2 * P))
  <2> DEFINE D == 2 * P
  <2>1. D \in Nat /\ D > 0
    BY <1>1
  <2> HIDE DEF D
  <2>2. i \div D \in Int /\ i % D \in 0 .. D - 1 /\ i = D * (i \div D) + (i % D)
    BY <2>1, DivMod
  <2> QED
    BY <2>2 DEF D
<1> DEFINE w == i % (2 * P)
<1> HIDE DEF q, w
<1>3. w \in Int /\ i \in Int /\ -2 * q \in Int /\ w = i + P * (-2 * q)
  BY <1>1, <1>2 DEF w
<1>4. (i + P * (-2 * q)) % P = i % P
  <2> DEFINE k == -2 * q
  <2>1. k \in Int
    BY <1>3
  <2> HIDE DEF k
  <2>2. (i + P * k) % P = i % P
    BY <1>1, <2>1, ModShift
  <2> QED
    BY <2>2 DEF k
<1>5. w % P = i % P
  BY <1>3, <1>4
<1> QED
  BY <1>1, <1>5 DEF P, w, Wrap

(***************************************************************************)
(* The difference of two pointers is divided in one bit more than they     *)
(* have, where no quotient is too large; between elements of one array the *)
(* quotient is the number of elements.                                     *)
(***************************************************************************)
LEMMA PointersAreExact ==
  ASSUME NEW n \in Nat \ {0}, NEW x \in 0 .. 2^n - 1, NEW y \in 0 .. 2^n - 1,
         NEW size \in 1 .. 2^n - 1
  PROVE  /\ PointerDifference(x, y, n, size) # Poison
         /\ SameArray(x, y, n, size) =>
              PointerDifference(x, y, n, size) = Value(Wrap(Quotient(x - y, size), n))
<1> DEFINE P == 2^n
           H == 2^(n - 1)
           d == Signed(Wrap(x - y, n), n)
           w == Wrap(d, n + 1)
<1>1. P \in Nat /\ H \in Nat /\ P = 2 * H /\ H > 0 /\ x - y \in Int
  BY Widths
<1>2. n + 1 \in Nat \ {0} /\ (n + 1) - 1 = n /\ 2^(n + 1) = 2 * P
  BY PowerDoubles
<1>3. d \in -H .. H - 1
  <2>1. Wrap(x - y, n) \in 0 .. 2^n - 1
    BY <1>1, WrapIsWord
  <2>2. Number(Wrap(x - y, n), n, FALSE) \in -H .. H - 1
    BY <2>1, NumberOfWord
  <2> QED
    BY <2>2 DEF Number
<1>4. Representable(d, n + 1, FALSE) /\ d \in Int
  BY <1>1, <1>2, <1>3 DEF Representable
<1>5. Number(w, n + 1, FALSE) = d
  BY <1>2, <1>4, NumberOfWrap
<1>6. Number(size, n + 1, FALSE) = size
  BY <1>1, <1>2 DEF Number, Signed
<1>7. w # Minimum(n + 1)
  <2>1. Number(P, n + 1, FALSE) = -P
    BY <1>1, <1>2 DEF Number, Signed
  <2>2. Minimum(n + 1) = P
    BY <1>2 DEF Minimum
  <2> HIDE DEF d, w, H, P
  <2>3. d # -P
    BY <1>1, <1>3
  <2> QED
    BY <1>5, <2>1, <2>2, <2>3
<1> HIDE DEF w
<1>8. Divides("div", w, size, n + 1, FALSE) = Value(Wrap(Quotient(d, size), n + 1))
  <2>1. size # 0
    OBVIOUS
  <2> HIDE DEF d
  <2> QED
    BY <1>5, <1>6, <1>7, <2>1 DEF Divides
<1>9. Quotient(d, size) \in Int
  <2>1. d \in -P .. P - 1 /\ size \in -P .. P - 1 /\ size # 0 /\ P > 0
    <3> HIDE DEF d
    <3> QED
      BY <1>1, <1>3
  <2> HIDE DEF d, P
  <2>2. Quotient(d, size) \in -P .. P
    BY <1>1, <2>1, QuotientOfSigned
  <2> QED
    BY <1>1, <2>2
<1>10. PointerDifference(x, y, n, size) = Value(Wrap(Quotient(d, size), n))
  <2>1. Wrap(Wrap(Quotient(d, size), n + 1), n) = Wrap(Quotient(d, size), n)
    BY <1>9, WrapOfWrap
  <2>2. PointerDifference(x, y, n, size) =
          LET e == Divides("div", w, size, n + 1, FALSE)
          IN IF e = Poison THEN Poison ELSE Value(Wrap(e[2], n))
    BY DEF PointerDifference, w
  <2> HIDE DEF d
  <2> QED
    BY <1>8, <2>1, <2>2, OutcomesDiffer
<1>11. SameArray(x, y, n, size) => d = x - y
  <2>1. SameArray(x, y, n, size) => x - y \in -H .. H - 1
    BY <1>1 DEF SameArray, Abs
  <2>2. SameArray(x, y, n, size) => Representable(x - y, n, FALSE)
    BY <2>1 DEF Representable
  <2>3. SameArray(x, y, n, size) => Number(Wrap(x - y, n), n, FALSE) = x - y
    BY <1>1, <2>2, NumberOfWrap
  <2> QED
    BY <2>3 DEF Number
<1> QED
  BY <1>10, <1>11, OutcomesDiffer

(***************************************************************************)
(* A vector is divided in all its lanes where each has a quotient, and in  *)
(* none where one has not.                                                 *)
(***************************************************************************)
LEMMA VectorsAreExact ==
  ASSUME NEW n \in Nat \ {0}, NEW s \in Nat,
         NEW a \in [1 .. s -> 0 .. 2^n - 1], NEW b \in [1 .. s -> 0 .. 2^n - 1],
         NEW name \in {"vdivi", "vdivu"}
  PROVE  /\ VectorDivision(name, a, b, n) # Poison
         /\ VectorDivision(name, a, b, n) = ExactVector(name, a, b, n)
<1> DEFINE u == name = "vdivu"
           lanes == [k \in DOMAIN a |-> ExactBinary("div", a[k], b[k], n, u)]
           quotients == [k \in DOMAIN a |-> Divides("div", a[k], b[k], n, u)]
<1>1. ASSUME NEW k \in DOMAIN a
      PROVE  /\ LaneInvalid(name, a[k], b[k], n) <=> lanes[k] = Trap
             /\ ~LaneInvalid(name, a[k], b[k], n) => quotients[k] = lanes[k] /\ quotients[k] # Poison
  <2> DEFINE i == Number(a[k], n, u)
             j == Number(b[k], n, u)
  <2>1. a[k] \in 0 .. 2^n - 1 /\ b[k] \in 0 .. 2^n - 1 /\ u \in BOOLEAN
    OBVIOUS
  <2>2. DivisionInvalid(a[k], b[k], n, u) <=> j = 0 \/ ~Representable(Quotient(i, j), n, u)
    BY <2>1, DivisionChecked
  <2>3. LaneInvalid(name, a[k], b[k], n) <=> DivisionInvalid(a[k], b[k], n, u)
    BY DEF LaneInvalid, DivisionInvalid
  <2>4. ~DivisionInvalid(a[k], b[k], n, u) =>
          Divides("div", a[k], b[k], n, u) = Value(Wrap(Quotient(i, j), n))
    BY DEF DivisionInvalid, Divides
  <2>5. ExactBinary("div", a[k], b[k], n, u) =
          IF j = 0 THEN Trap
          ELSE IF ~Representable(Quotient(i, j), n, u) THEN Trap
          ELSE Value(Wrap(Quotient(i, j), n))
    BY DEF ExactBinary
  <2>6. lanes[k] = ExactBinary("div", a[k], b[k], n, u) /\ quotients[k] = Divides("div", a[k], b[k], n, u)
    OBVIOUS
  <2> HIDE DEF i, j, u, lanes, quotients
  <2> QED
    BY <2>2, <2>3, <2>4, <2>5, <2>6, OutcomesDiffer
<1>2. VectorDivision(name, a, b, n) =
        IF \E k \in DOMAIN a : LaneInvalid(name, a[k], b[k], n) THEN Trap
        ELSE IF \E k \in DOMAIN a : quotients[k] = Poison THEN Poison
        ELSE Value([k \in DOMAIN a |-> quotients[k][2]])
  BY DEF VectorDivision
<1>3. ExactVector(name, a, b, n) =
        IF \E k \in DOMAIN a : lanes[k] = Trap THEN Trap
        ELSE Value([k \in DOMAIN a |-> lanes[k][2]])
  BY DEF ExactVector
<1> HIDE DEF u, lanes, quotients
<1>4. CASE \E k \in DOMAIN a : LaneInvalid(name, a[k], b[k], n)
  BY <1>1, <1>2, <1>3, <1>4, OutcomesDiffer
<1>5. CASE \A k \in DOMAIN a : ~LaneInvalid(name, a[k], b[k], n)
  <2>1. [k \in DOMAIN a |-> quotients[k][2]] = [k \in DOMAIN a |-> lanes[k][2]]
    BY <1>1, <1>5
  <2> QED
    BY <1>1, <1>2, <1>3, <1>5, <2>1, OutcomesDiffer
<1> QED
  BY <1>4, <1>5

-----------------------------------------------------------------------------
(***************************************************************************)
(* Floating-point commands in any format.                                  *)
(***************************************************************************)
\* A multiple is compared by its factor.
LEMMA ProductsAreOrdered ==
  ASSUME NEW P \in Nat, P > 0, NEW q \in Int, NEW x \in Int, P * q <= x, x < P * q + P
  PROVE  /\ \A k \in Int : P * k <= x <=> k <= q
         /\ \A k \in Int : x < P * k <=> q < k
<1> SUFFICES ASSUME NEW k \in Int PROVE P * k <= x <=> k <= q
  OBVIOUS
<1>1. CASE k <= q
  <2>1. q - k >= 0 /\ q - k \in Int
    BY <1>1
  <2>2. P * (q - k) >= 0
    BY <2>1
  <2>3. P * k <= P * q
    BY <2>2
  <2> QED
    BY <1>1, <2>3
<1>2. CASE k > q
  <2>1. k - q - 1 >= 0 /\ k - q - 1 \in Int
    BY <1>2
  <2>2. P * (k - q - 1) >= 0
    BY <2>1
  <2>3. P * k >= P * q + P
    BY <2>2
  <2> QED
    BY <1>2, <2>3
<1> QED
  BY <1>1, <1>2

\* Division towards zero, and the division that rounds down.
LEMMA WholePart ==
  ASSUME NEW P \in Nat, P > 0, NEW x \in Int
  PROVE  LET whole == Quotient(x, P)
         IN /\ whole \in Int
            /\ x >= 0 => whole = x \div P
            /\ x < 0 => whole <= 0
            /\ (IF x < P * whole THEN whole - 1 ELSE whole) = x \div P
<1> DEFINE whole == Quotient(x, P)
           floor == x \div P
           rest == x % P
<1>1. floor \in Int /\ rest \in 0 .. P - 1 /\ x = P * floor + rest
  BY DivMod
<1>2. CASE x >= 0
  <2>1. whole = 1 * floor
    BY <1>2 DEF Quotient, Abs
  <2> HIDE DEF whole, floor, rest
  <2> QED
    BY <1>1, <1>2, <2>1 DEF whole, floor
<1>3. CASE x < 0
  <2> DEFINE a == (-x) \div P
             r == (-x) % P
  <2>1. a \in Int /\ r \in 0 .. P - 1 /\ -x = P * a + r
    <3>1. -x \in Int
      OBVIOUS
    <3> QED
      BY <3>1, DivMod
  <2>2. a >= 0
    <3>1. -x \in Nat
      BY <1>3
    <3> QED
      BY <3>1, DivideNaturals
  <2>3. whole = (-1) * a
    BY <1>3 DEF Quotient, Abs
  <2> HIDE DEF a, r, whole, floor, rest
  <2>4. whole \in Int /\ whole <= 0 /\ P * whole = -(P * a)
    BY <2>1, <2>2, <2>3
  <2>5. CASE r = 0
    <3>1. x = P * whole + 0 /\ 0 \in 0 .. P - 1
      BY <2>1, <2>4, <2>5
    <3>2. floor = whole
      BY <2>4, <3>1, DivModUnique DEF floor
    <3> QED
      BY <1>3, <2>4, <3>1, <3>2 DEF whole, floor
  <2>6. CASE r # 0
    <3>1. P - r \in 0 .. P - 1 /\ x = P * (whole - 1) + (P - r) /\ x < P * whole
      BY <2>1, <2>4, <2>6
    <3>2. whole - 1 \in Int
      BY <2>4
    <3>3. floor = whole - 1
      BY <3>1, <3>2, DivModUnique DEF floor
    <3> QED
      BY <1>3, <2>4, <3>1, <3>3 DEF whole, floor
  <2> QED
    BY <2>1, <2>5, <2>6
<1> QED
  BY <1>2, <1>3

\* Every float is a multiple of the smallest positive one.
LEMMA UnitsAreWhole ==
  ASSUME NEW x \in Nat
  PROVE  Units(x) \in Int
<1> DEFINE E == Exponent(x)
           F == Fraction(x)
<1>1. FractionBits \in Nat /\ ExponentBits \in Nat
  BY FormatAssumption
<1>2. 2^FractionBits \in Nat /\ 2^FractionBits > 0 /\ 2^ExponentBits \in Nat /\ 2^ExponentBits > 0
  BY <1>1, PowerIsPositive
<1> DEFINE P == 2^FractionBits
           R == 2^ExponentBits
           S == IF SignBit(x) = 1 THEN -1 ELSE 1
<1>3. E = (x \div P) % R /\ F = x % P
  BY DEF Exponent, Fraction
<1>4. Units(x) = S * (IF E = 0 THEN F ELSE (P + F) * 2^(E - 1))
  BY DEF Units
<1>5. S \in Int
  OBVIOUS
<1> HIDE DEF P, R, S, E, F
<1>6. F \in Nat /\ x \div P \in Int
  <2>1. x \in Int /\ P \in Nat /\ P > 0
    BY <1>2 DEF P
  <2>2. x \div P \in Int /\ x % P \in 0 .. P - 1
    BY <2>1, DivMod
  <2> QED
    BY <1>3, <2>1, <2>2
<1>7. E \in Nat
  <2> DEFINE q == x \div P
  <2>1. q \in Int /\ R \in Nat /\ R > 0
    BY <1>2, <1>6 DEF R
  <2> HIDE DEF q
  <2>2. q % R \in 0 .. R - 1
    BY <2>1, DivMod
  <2> QED
    BY <1>3, <2>1, <2>2 DEF q
<1>8. CASE E = 0
  BY <1>4, <1>5, <1>6, <1>8
<1>9. CASE E # 0
  <2>1. E - 1 \in Nat
    BY <1>7, <1>9
  <2>2. 2^(E - 1) \in Nat
    BY <2>1, PowerIsPositive
  <2> DEFINE T == 2^(E - 1)
  <2>3. T \in Int /\ P \in Int
    BY <1>2, <2>2 DEF P
  <2>4. Units(x) = S * ((P + F) * T)
    BY <1>4, <1>9
  <2> HIDE DEF T
  <2> QED
    BY <1>5, <1>6, <2>3, <2>4
<1> QED
  BY <1>8, <1>9

(***************************************************************************)
(* A floating-point number is converted where it lies within the limits of *)
(* the integer type, and then LLVM's result is defined.                    *)
(***************************************************************************)
LEMMA ConversionsAreExact ==
  ASSUME NEW n \in Nat \ {0}, NEW operand, flushSubnormal(operand) \in Nat, NEW signed \in BOOLEAN
  PROVE  /\ FloatToInteger(operand, n, signed) = ExactInteger(flushSubnormal(operand), n, signed)
         /\ FloatToInteger(operand, n, signed) # Poison
<1> DEFINE x == flushSubnormal(operand)
           U == Units(x)
           whole == Quotient(U, One)
           floor == U \div One
           lo == IF signed THEN -(2^(n - 1)) ELSE 0
           hi == IF signed THEN 2^(n - 1) ELSE 2^n
<1>1. U \in Int
  BY UnitsAreWhole
<1>2. One \in Nat /\ One > 0
  BY FormatAssumption
<1>3. lo \in Int /\ hi \in Int /\ hi >= 1 /\ lo <= 0
  BY Widths
<1>4. \A i : Representable(i, n, ~signed) <=> i \in lo .. hi - 1
  BY DEF Representable
<1>5. InRange(x, n, signed) <=> IsFinite(x) /\ U >= One * lo /\ U < One * hi
  <2>1. signed => lo = -(2^(n - 1)) /\ hi = 2^(n - 1)
    OBVIOUS
  <2>2. ~signed => lo = 0 /\ hi = 2^n
    OBVIOUS
  <2> HIDE DEF x, lo, hi
  <2> QED
    BY <2>1, <2>2 DEF InRange, U
<1>6. Converts(x, n, signed) =
        IF IsFinite(x) /\ whole >= lo /\ whole < hi THEN Value(Wrap(whole, n)) ELSE Poison
  BY DEF Converts
<1>7. ExactInteger(x, n, signed) =
        IF /\ IsFinite(x) /\ Representable(whole, n, ~signed)
           /\ Representable(IF U < One * whole THEN whole - 1 ELSE whole, n, ~signed)
        THEN Value(Wrap(whole, n)) ELSE Trap
  BY DEF ExactInteger
<1>8. FloatToInteger(operand, n, signed) =
        IF InRange(x, n, signed) THEN Converts(x, n, signed) ELSE Trap
  BY DEF FloatToInteger
<1> HIDE DEF x, U, lo, hi
<1>9. /\ whole \in Int
      /\ U >= 0 => whole = floor
      /\ U < 0 => whole <= 0
      /\ (IF U < One * whole THEN whole - 1 ELSE whole) = floor
  BY <1>1, <1>2, WholePart
<1>10. floor \in Int /\ One * floor <= U /\ U < One * floor + One
  <2>1. floor \in Int /\ U % One \in 0 .. One - 1 /\ U = One * floor + (U % One)
    BY <1>1, <1>2, DivMod
  <2> DEFINE r == U % One
  <2> HIDE DEF floor, r
  <2> QED
    BY <1>1, <1>2, <2>1 DEF r
<1> HIDE DEF whole, floor
<1>11. (U >= One * lo <=> lo <= floor) /\ (U < One * hi <=> floor < hi)
  <2>1. /\ \A k \in Int : One * k <= U <=> k <= floor
        /\ \A k \in Int : U < One * k <=> floor < k
    BY <1>1, <1>2, <1>10, ProductsAreOrdered
  <2>2. One * lo \in Int
    BY <1>2, <1>3
  <2> QED
    BY <1>1, <1>3, <2>1, <2>2
<1>12. floor \in lo .. hi - 1 => whole \in lo .. hi - 1
  <2>1. CASE U < One * whole
    <3>1. floor = whole - 1
      BY <1>9, <2>1
    <3>2. U < 0
      BY <1>1, <1>9, <3>1
    <3> QED
      BY <1>3, <1>9, <3>1, <3>2
  <2>2. CASE ~(U < One * whole)
    BY <1>9, <2>2
  <2> QED
    BY <2>1, <2>2
<1>13. InRange(x, n, signed) <=> IsFinite(x) /\ floor \in lo .. hi - 1
  BY <1>3, <1>5, <1>10, <1>11
<1>14. ExactInteger(x, n, signed) =
         IF IsFinite(x) /\ floor \in lo .. hi - 1 THEN Value(Wrap(whole, n)) ELSE Trap
  BY <1>4, <1>7, <1>9, <1>12
<1>15. floor \in lo .. hi - 1 => whole >= lo /\ whole < hi
  BY <1>3, <1>9, <1>12
<1> QED
  BY <1>6, <1>8, <1>13, <1>14, <1>15, OutcomesDiffer DEF x

\* The bits of a floating-point number.
LEMMA BitsOfFloat ==
  ASSUME NEW x \in 0 .. 2^FloatBits - 1
  PROVE  LET H == 2^(FloatBits - 1)
         IN /\ H \in Nat /\ H > 0 /\ 2^FloatBits = 2 * H
            /\ SignBit(x) \in {0, 1} /\ Magnitude(x) \in 0 .. H - 1
            /\ x = H * SignBit(x) + Magnitude(x)
            /\ IsZero(x) <=> Magnitude(x) = 0
            /\ IsZero(x) => ~IsNaN(x)
<1> DEFINE Q == 2^FractionBits
           R == 2^ExponentBits
           H == 2^(FloatBits - 1)
           s == SignBit(x)
           m == Magnitude(x)
           q == x \div Q
           t == q \div R
           f == Fraction(x)
           e == Exponent(x)
<1>1. /\ FractionBits \in Nat \ {0} /\ ExponentBits \in Nat \ {0}
      /\ FloatBits \in Nat \ {0}
      /\ FloatBits - 1 = ExponentBits + FractionBits
  BY FormatAssumption DEF FloatBits
<1>2. /\ Q \in Nat /\ Q > 0 /\ R \in Nat /\ R >= 2 /\ H \in Nat /\ H > 0
      /\ 2^FloatBits = 2 * H
  <2>1. 2^ExponentBits = 2 * 2^(ExponentBits - 1) /\ 2^(ExponentBits - 1) \in Nat
        /\ 2^(ExponentBits - 1) >= ExponentBits
    BY <1>1, Widths
  <2>2. R >= 2 /\ R \in Nat
    BY <1>1, <2>1
  <2>3. 2^FloatBits = 2 * 2^(FloatBits - 1) /\ 2^(FloatBits - 1) \in Nat
        /\ 2^(FloatBits - 1) >= FloatBits
    BY <1>1, Widths
  <2>4. Q \in Nat /\ Q > 0
    BY <1>1, Widths
  <2> HIDE DEF R, Q
  <2> QED
    BY <1>1, <2>2, <2>3, <2>4
<1>3. H = R * Q
  <2>1. 2^(ExponentBits + FractionBits) = 2^ExponentBits * 2^FractionBits
    BY <1>1, PowerOfSum
  <2> QED
    BY <1>1, <2>1
<1>4. e = q % R /\ f = x % Q /\ s = x \div H /\ m = x % H /\ x \in 0 .. 2 * H - 1
  BY <1>2 DEF Exponent, Fraction, SignBit, Magnitude
<1>5. IsZero(x) <=> e = 0 /\ f = 0
  BY DEF IsZero
<1>6. IsZero(x) => ~IsNaN(x)
  <2>1. ExponentMask = R - 1
    BY DEF ExponentMask, AllOnes
  <2> HIDE DEF R, e, f
  <2> QED
    BY <1>2, <1>5, <2>1 DEF IsNaN, e
<1> HIDE DEF Q, R, H, s, m, e, f
<1>7. s \in Int /\ m \in 0 .. H - 1 /\ x = H * s + m
  BY <1>2, <1>4, DivMod
<1>8. s \in {0, 1}
  <2>1. s >= 0
    <3> SUFFICES ASSUME s <= -1 PROVE FALSE
      BY <1>7
    <3>1. H * s <= -H
      BY <1>2, <1>7
    <3> QED
      BY <1>2, <1>4, <1>7, <3>1
  <2>2. s <= 1
    <3> SUFFICES ASSUME s >= 2 PROVE FALSE
      BY <1>7
    <3>1. H * s >= 2 * H
      BY <1>2, <1>7
    <3> QED
      BY <1>2, <1>4, <1>7, <3>1
  <2> QED
    BY <1>7, <2>1, <2>2
<1>9. q \in Int /\ f \in 0 .. Q - 1 /\ x = Q * q + f
  BY <1>2, <1>4, DivMod
<1>10. t \in Int /\ e \in 0 .. R - 1 /\ q = R * t + e
  BY <1>2, <1>4, <1>9, DivMod
<1>11. e = 0 /\ f = 0 => m = 0
  <2> SUFFICES ASSUME e = 0, f = 0 PROVE m = 0
    OBVIOUS
  <2> HIDE DEF q, t
  <2>1. x = H * t + 0 /\ 0 \in 0 .. H - 1
    BY <1>2, <1>3, <1>9, <1>10
  <2> QED
    BY <1>2, <1>4, <1>10, <2>1, DivModUnique
<1>12. m = 0 => e = 0 /\ f = 0
  <2> SUFFICES ASSUME m = 0 PROVE e = 0 /\ f = 0
    OBVIOUS
  <2>1. R * s \in Int /\ 0 \in 0 .. Q - 1 /\ 0 \in 0 .. R - 1 /\ R > 0
    BY <1>2, <1>8
  <2>2. x = Q * (R * s) + 0 /\ x \in Int
    BY <1>2, <1>3, <1>7, <1>8
  <2> DEFINE p == R * s
  <2>3. p = R * s + 0
    BY <2>1
  <2> HIDE DEF p, q
  <2>4. q = p /\ f = 0
    BY <1>2, <1>4, <2>1, <2>2, DivModUnique DEF p, q
  <2>5. p % R = 0
    BY <1>2, <1>8, <2>1, <2>3, DivModUnique DEF p
  <2> QED
    BY <1>4, <2>4, <2>5
<1> QED
  BY <1>2, <1>5, <1>6, <1>7, <1>8, <1>11, <1>12 DEF H, s, m

\* A flushed number has as many bits.
LEMMA FlushedIsWord ==
  ASSUME NEW x \in 0 .. 2^FloatBits - 1
  PROVE  flushSubnormal(x) \in 0 .. 2^FloatBits - 1
<1> DEFINE H == 2^(FloatBits - 1)
<1>1. H \in Nat /\ H > 0 /\ 2^FloatBits = 2 * H /\ SignBit(x) \in {0, 1}
  BY BitsOfFloat
<1>2. SignedZero(SignBit(x)) = SignBit(x) * H
  BY DEF SignedZero
<1> HIDE DEF H
<1>3. SignedZero(SignBit(x)) \in 0 .. 2^FloatBits - 1
  BY <1>1, <1>2
<1> QED
  BY <1>3 DEF flushSubnormal

\* The order of the bits is that of the numbers, but for the zeros.
LEMMA RankOfFloats ==
  ASSUME NEW a \in 0 .. 2^FloatBits - 1, NEW b \in 0 .. 2^FloatBits - 1
  PROVE  /\ Less(a, b) => Rank(a) < Rank(b)
         /\ Less(b, a) => ~(Rank(a) < Rank(b))
         /\ ~Less(a, b) /\ ~Less(b, a) => a = b \/ (IsZero(a) /\ IsZero(b))
<1> DEFINE H == 2^(FloatBits - 1)
           s == SignBit(a)
           m == Magnitude(a)
           t == SignBit(b)
           n == Magnitude(b)
<1>1. /\ H \in Nat /\ H > 0
      /\ s \in {0, 1} /\ m \in 0 .. H - 1 /\ a = H * s + m /\ (IsZero(a) <=> m = 0)
      /\ t \in {0, 1} /\ n \in 0 .. H - 1 /\ b = H * t + n /\ (IsZero(b) <=> n = 0)
  BY BitsOfFloat
<1>2. /\ Less(a, b) <=> (IF s = 1 THEN -m ELSE m) < (IF t = 1 THEN -n ELSE n)
      /\ Less(b, a) <=> (IF t = 1 THEN -n ELSE n) < (IF s = 1 THEN -m ELSE m)
  BY DEF Less
<1>3. /\ Rank(a) = IF s = 1 THEN -(2 * m) - 1 ELSE 2 * m
      /\ Rank(b) = IF t = 1 THEN -(2 * n) - 1 ELSE 2 * n
  BY DEF Rank
<1> HIDE DEF H, s, m, t, n
<1>4. Less(a, b) => Rank(a) < Rank(b)
  BY <1>1, <1>2, <1>3
<1>5. Less(b, a) => ~(Rank(a) < Rank(b))
  BY <1>1, <1>2, <1>3
<1>6. ~Less(a, b) /\ ~Less(b, a) => (s = t /\ m = n) \/ (m = 0 /\ n = 0)
  BY <1>1, <1>2
<1> QED
  BY <1>1, <1>4, <1>5, <1>6

\* The zero that is chosen has the sign of the extreme one.
LEMMA StableZeroIsExtreme ==
  ASSUME NEW a \in 0 .. 2^FloatBits - 1, NEW b \in 0 .. 2^FloatBits - 1,
         IsZero(a), IsZero(b), NEW name \in {"vmin", "vmax"}
  PROVE  StableZero(name, a, b) = Extreme(name, a, b)
<1> DEFINE H == 2^(FloatBits - 1)
           s == SignBit(a)
           t == SignBit(b)
<1>1. /\ H \in Nat
      /\ s \in {0, 1} /\ Magnitude(a) = 0 /\ a = H * s
      /\ t \in {0, 1} /\ Magnitude(b) = 0 /\ b = H * t
  <2>1. /\ H \in Nat
        /\ s \in {0, 1} /\ Magnitude(a) = 0 /\ a = H * s + Magnitude(a)
        /\ t \in {0, 1} /\ Magnitude(b) = 0 /\ b = H * t + Magnitude(b)
    BY BitsOfFloat
  <2> HIDE DEF H, s, t
  <2> QED
    BY <2>1
<1>2. /\ Rank(a) = IF s = 1 THEN -1 ELSE 0
      /\ Rank(b) = IF t = 1 THEN -1 ELSE 0
  BY <1>1 DEF Rank
<1>3. StableZero(name, a, b) =
        (IF name = "vmin" THEN IF s = 1 \/ t = 1 THEN 1 ELSE 0
         ELSE IF s = 1 /\ t = 1 THEN 1 ELSE 0) * H
  BY DEF StableZero, SignedZero
<1>4. Extreme(name, a, b) = IF (name = "vmin") = (Rank(a) < Rank(b)) THEN a ELSE b
  BY DEF Extreme
<1> HIDE DEF H, s, t
<1>5. /\ a = IF s = 1 THEN H ELSE 0
      /\ b = IF t = 1 THEN H ELSE 0
  BY <1>1
<1>6. StableZero(name, a, b) =
        IF name = "vmin" THEN IF s = 1 \/ t = 1 THEN H ELSE 0
        ELSE IF s = 1 /\ t = 1 THEN H ELSE 0
  BY <1>1, <1>3
<1>7. (Rank(a) < Rank(b)) <=> s = 1 /\ t # 1
  BY <1>1, <1>2
<1> QED
  BY <1>1, <1>4, <1>5, <1>6, <1>7

(***************************************************************************)
(* Whatever minnum or maxnum return on the target, the corrected result is *)
(* the same.                                                               *)
(***************************************************************************)
LEMMA MinMaxIsExact ==
  ASSUME NEW left \in 0 .. 2^FloatBits - 1, NEW right \in 0 .. 2^FloatBits - 1,
         NEW name \in {"vmin", "vmax"}, NEW o \in MinMax(name, left, right)
  PROVE  o = Value(ExactMinMax(name, flushSubnormal(left), flushSubnormal(right)))
<1> DEFINE a == flushSubnormal(left)
           b == flushSubnormal(right)
<1>1. a \in 0 .. 2^FloatBits - 1 /\ b \in 0 .. 2^FloatBits - 1
  BY FlushedIsWord
<1>2. PICK r \in MinNum(name, a, b) :
        o = Value(CASE IsZero(a) /\ IsZero(b) -> StableZero(name, a, b)
                    [] IsNaN(a) \/ IsNaN(b) -> NaNResult(a, b)
                    [] OTHER -> r)
  BY DEF MinMax
<1> HIDE DEF a, b
<1>3. /\ IsSignaling(a) => IsNaN(a)
      /\ IsSignaling(b) => IsNaN(b)
      /\ IsZero(a) => ~IsNaN(a)
      /\ IsZero(b) => ~IsNaN(b)
  BY <1>1, BitsOfFloat DEF IsSignaling
<1>4. CASE IsZero(a) /\ IsZero(b)
  <2>1. StableZero(name, a, b) = Extreme(name, a, b)
    BY <1>1, <1>4, StableZeroIsExtreme
  <2>2. o = Value(StableZero(name, a, b))
    BY <1>2, <1>3, <1>4
  <2>3. ExactMinMax(name, a, b) = Extreme(name, a, b)
    BY <1>3, <1>4 DEF ExactMinMax
  <2> QED
    BY <2>1, <2>2, <2>3 DEF a, b
<1>5. CASE IsNaN(a) \/ IsNaN(b)
  <2>1. o = Value(NaNResult(a, b))
    BY <1>2, <1>3, <1>5
  <2>2. CASE IsSignaling(a) \/ IsSignaling(b) \/ (IsNaN(a) /\ IsNaN(b))
    <3>1. NaNResult(a, b) = CanonicalNaN
      BY <1>3, <2>2 DEF NaNResult
    <3>2. ExactMinMax(name, a, b) = CanonicalNaN
      BY <1>3, <2>2 DEF ExactMinMax
    <3> QED
      BY <2>1, <3>1, <3>2 DEF a, b
  <2>3. CASE IsNaN(a) /\ ~IsSignaling(a) /\ ~IsNaN(b)
    <3>1. NaNResult(a, b) = b
      BY <1>3, <2>3 DEF NaNResult
    <3>2. ExactMinMax(name, a, b) = b
      BY <1>3, <2>3 DEF ExactMinMax
    <3> QED
      BY <2>1, <3>1, <3>2 DEF a, b
  <2>4. CASE IsNaN(b) /\ ~IsSignaling(b) /\ ~IsNaN(a)
    <3>1. NaNResult(a, b) = a
      BY <1>3, <2>4 DEF NaNResult
    <3>2. ExactMinMax(name, a, b) = a
      BY <1>3, <2>4 DEF ExactMinMax
    <3> QED
      BY <2>1, <3>1, <3>2 DEF a, b
  <2> QED
    BY <1>5, <2>2, <2>3, <2>4
<1>6. CASE ~(IsZero(a) /\ IsZero(b)) /\ ~IsNaN(a) /\ ~IsNaN(b)
  <2>1. o = Value(r)
    BY <1>2, <1>6
  <2>2. ExactMinMax(name, a, b) = Extreme(name, a, b)
    BY <1>3, <1>6 DEF ExactMinMax
  <2>3. MinNum(name, a, b) =
          IF Less(a, b) THEN {IF name = "vmin" THEN a ELSE b}
          ELSE IF Less(b, a) THEN {IF name = "vmin" THEN b ELSE a}
          ELSE {a, b}
    BY <1>6 DEF MinNum
  <2>4. Extreme(name, a, b) = IF (name = "vmin") = (Rank(a) < Rank(b)) THEN a ELSE b
    BY DEF Extreme
  <2>5. /\ Less(a, b) => Rank(a) < Rank(b)
        /\ Less(b, a) => ~(Rank(a) < Rank(b))
        /\ ~Less(a, b) /\ ~Less(b, a) => a = b
    BY <1>1, <1>6, RankOfFloats
  <2>6. r = Extreme(name, a, b)
    <3>1. CASE Less(a, b)
      BY <2>3, <2>4, <2>5, <3>1
    <3>2. CASE Less(b, a) /\ ~Less(a, b)
      BY <2>3, <2>4, <2>5, <3>2
    <3>3. CASE ~Less(b, a) /\ ~Less(a, b)
      BY <2>3, <2>4, <2>5, <3>3
    <3> QED
      BY <3>1, <3>2, <3>3
  <2> QED
    BY <2>1, <2>2, <2>6 DEF a, b
<1> QED
  BY <1>4, <1>5, <1>6

-----------------------------------------------------------------------------
(***************************************************************************)
(* The writes of a store, and the races.                                   *)
(***************************************************************************)
\* CaseAssumption, of one case.
LEMMA LoadIsOfNumbers ==
  ASSUME NEW c \in Cases
  PROVE  /\ FitsStore(c.store) /\ FitsCommand(c.command, c.load.size)
         /\ c.load.address \in Nat /\ c.load.size \in {1, 2, 3}
         /\ Covered(c.store) \subseteq DOMAIN c.memory
         /\ Covered(c.load) \subseteq DOMAIN c.memory
         /\ DOMAIN c.memory \subseteq Nat
         /\ \A a \in DOMAIN c.memory : c.memory[a] \in Byte
<1>1. 1 .. 3 = {1, 2, 3}
  OBVIOUS
<1> QED
  BY <1>1, CaseAssumption, Zenon

-----------------------------------------------------------------------------
\* The bytes of a value, at their addresses.
LEMMA BytesInOrder ==
  ASSUME NEW bytes \in Seq(Byte), NEW address \in Nat
  PROVE  LET writes == BytewiseStore(bytes, address) IN
         /\ writes \in Seq(Int \X Byte)
         /\ Len(writes) = Len(bytes)
         /\ \A k \in 1 .. Len(bytes) : writes[k] = <<address + k - 1, bytes[k]>>
<1> DEFINE writes == BytewiseStore(bytes, address)
<1>1. Len(bytes) \in Nat /\ \A k \in 1 .. Len(bytes) : bytes[k] \in Byte
  OBVIOUS
<1>2. \A k \in 1 .. Len(bytes) : <<address + k - 1, bytes[k]>> \in Int \X Byte
  BY <1>1
<1>3. writes = [k \in 1 .. Len(bytes) |-> <<address + k - 1, bytes[k]>>]
  BY DEF BytewiseStore
<1>4. writes \in Seq(Int \X Byte) /\ Len(writes) = Len(bytes)
  BY <1>1, <1>2, <1>3
<1>5. \A k \in 1 .. Len(bytes) : writes[k] = <<address + k - 1, bytes[k]>>
  BY <1>3
<1> QED
  BY <1>4, <1>5

\* A byte has some bits, and so a zero.
LEMMA ZeroIsByte == 0 \in Byte
<1>1. 2^ByteBits \in Nat /\ 2^ByteBits > 0
  BY CaseAssumption, Widths
<1> QED
  BY <1>1 DEF Byte

\* The zeros that a structure's padding is filled with.
LEMMA ZerosAreBytes ==
  ASSUME NEW size \in Nat
  PROVE  /\ Zeros(size) \in Seq(Byte)
         /\ Len(Zeros(size)) = size
         /\ \A k \in 1 .. size : Zeros(size)[k] = 0
BY ZeroIsByte DEF Zeros

\* Two sequences in a row.
LEMMA InARow ==
  ASSUME NEW S, NEW s \in Seq(S), NEW t \in Seq(S)
  PROVE  /\ s \o t \in Seq(S)
         /\ Len(s \o t) = Len(s) + Len(t)
         /\ \A k \in 1 .. Len(s) : (s \o t)[k] = s[k]
         /\ \A k \in 1 .. Len(t) : (s \o t)[Len(s) + k] = t[k]
OBVIOUS

\* A sequence without its kth element.
LEMMA WithoutOne ==
  ASSUME NEW S, NEW s \in Seq(S), NEW k \in DOMAIN s
  PROVE  /\ Without(s, k) \in Seq(S)
         /\ Len(Without(s, k)) = Len(s) - 1
         /\ \A i \in 1 .. Len(s) - 1 :
              Without(s, k)[i] = IF i < k THEN s[i] ELSE s[i + 1]
<1> DEFINE front == SubSeq(s, 1, k - 1)
           back == SubSeq(s, k + 1, Len(s))
<1>1. Len(s) \in Nat /\ k \in 1 .. Len(s)
  OBVIOUS
<1>2. front \in Seq(S) /\ Len(front) = k - 1 /\ \A i \in 1 .. k - 1 : front[i] = s[i]
  BY <1>1
<1>3. /\ back \in Seq(S) /\ Len(back) = Len(s) - k
      /\ \A i \in 1 .. Len(s) - k : back[i] = s[k + i]
  BY <1>1
<1>4. Without(s, k) = front \o back
  BY DEF Without
<1> HIDE DEF front, back
<1>5. Without(s, k) \in Seq(S) /\ Len(Without(s, k)) = Len(s) - 1
  BY <1>1, <1>2, <1>3, <1>4, InARow
<1>6. ASSUME NEW i \in 1 .. Len(s) - 1, i < k
      PROVE  Without(s, k)[i] = s[i]
  BY <1>1, <1>2, <1>3, <1>4, <1>6, InARow
<1>7. ASSUME NEW i \in 1 .. Len(s) - 1, ~(i < k)
      PROVE  Without(s, k)[i] = s[i + 1]
  <2>1. PICK j \in 1 .. Len(s) - k : j = i - (k - 1)
    BY <1>1, <1>7
  <2>2. (front \o back)[Len(front) + j] = back[j]
    BY <1>2, <1>3, InARow
  <2>3. back[j] = s[k + j]
    BY <1>3
  <2>4. Len(front) + j = i /\ k + j = i + 1
    BY <1>1, <1>2, <2>1
  <2> QED
    BY <1>4, <1>7, <2>2, <2>3, <2>4
<1> QED
  BY <1>5, <1>6, <1>7

-----------------------------------------------------------------------------
\* The elements of a sequence.
LEMMA Elements ==
  ASSUME NEW S, NEW s \in Seq(S)
  PROVE  /\ DOMAIN s = 1 .. Len(s) /\ Len(s) \in Nat
         /\ \A n \in DOMAIN s : s[n] \in S
OBVIOUS

\* Of the nth field: where it begins in the structure and how long it is.
Offset(c, n) == c.store.fields[n].offset
Width(c, n) == Len(c.store.fields[n].bytes)
Holds(c, n, a) == Inside(a, c.store.address + Offset(c, n), Width(c, n))

\* FitsStore, field by field.
LEMMA FieldsOfStore ==
  ASSUME NEW c \in Cases
  PROVE  /\ c.store.address \in Nat /\ c.store.size \in Nat
         /\ Len(c.store.fields) \in {0, 1, 2}
         /\ DOMAIN c.store.fields = 1 .. Len(c.store.fields)
         /\ \A n \in DOMAIN c.store.fields :
              /\ Offset(c, n) \in Nat
              /\ c.store.fields[n].bytes \in Seq(Byte)
              /\ Width(c, n) \in Nat
<1>1. FitsStore(c.store)
  BY LoadIsOfNumbers
<1> DEFINE Field == [offset : Nat, bytes : Seq(Byte)]
           fields == c.store.fields
<1>2. fields \in Seq(Field) /\ Len(fields) <= 2
  BY <1>1 DEF FitsStore
<1>3. \A f \in Field : f.offset \in Nat /\ f.bytes \in Seq(Byte) /\ Len(f.bytes) \in Nat
  OBVIOUS
<1>4. c.store.address \in Nat /\ c.store.size \in Nat
  BY <1>1 DEF FitsStore
<1>5. \A n \in DOMAIN fields : Offset(c, n) = fields[n].offset /\ Width(c, n) = Len(fields[n].bytes)
  BY DEF Offset, Width
<1> HIDE DEF Field, fields
<1>6. /\ DOMAIN fields = 1 .. Len(fields) /\ Len(fields) \in Nat
      /\ \A n \in DOMAIN fields : fields[n] \in Field
  BY <1>2, Elements
<1>7. Len(fields) \in {0, 1, 2}
  BY <1>2, <1>6
<1>8. ASSUME NEW n \in DOMAIN fields
      PROVE  Offset(c, n) \in Nat /\ fields[n].bytes \in Seq(Byte) /\ Width(c, n) \in Nat
  BY <1>3, <1>5, <1>6, Zenon
<1> QED
  BY <1>4, <1>6, <1>7, <1>8, Zenon DEF fields

\* A field is inside its structure.
LEMMA FieldIsInside ==
  ASSUME NEW c \in Cases, NEW n \in DOMAIN c.store.fields
  PROVE  Offset(c, n) + Width(c, n) <= c.store.size
<1>1. FitsStore(c.store)
  BY LoadIsOfNumbers
<1>2. CASE Len(c.store.fields) = 1
  <2>1. n = 1
    BY <1>2, FieldsOfStore
  <2>2. Offset(c, 1) = 0 /\ Width(c, 1) = c.store.size
    BY <1>1, <1>2 DEF FitsStore, Offset, Width
  <2> QED
    BY <2>1, <2>2, FieldsOfStore
<1>3. CASE Len(c.store.fields) = 2
  <2>1. /\ 1 \in DOMAIN c.store.fields /\ 2 \in DOMAIN c.store.fields
        /\ n = 1 \/ n = 2
    BY <1>3, FieldsOfStore
  <2>2. /\ Offset(c, 1) \in Nat /\ Width(c, 1) \in Nat
        /\ Offset(c, 2) \in Nat /\ Width(c, 2) \in Nat
        /\ c.store.size \in Nat
    BY <2>1, FieldsOfStore
  <2>3. /\ Offset(c, 1) + Width(c, 1) <= Offset(c, 2)
        /\ Offset(c, 2) + Width(c, 2) <= c.store.size
    BY <1>1, <1>3 DEF FitsStore, Offset, Width
  <2> QED
    BY <2>1, <2>2, <2>3
<1>4. Len(c.store.fields) = 1 \/ Len(c.store.fields) = 2
  BY FieldsOfStore
<1> QED
  BY <1>2, <1>3, <1>4

\* No byte belongs to two fields.
LEMMA OneFieldEach ==
  ASSUME NEW c \in Cases, NEW m \in DOMAIN c.store.fields, NEW n \in DOMAIN c.store.fields,
         NEW a \in Int, Holds(c, m, a), Holds(c, n, a)
  PROVE  m = n
<1> SUFFICES ASSUME m # n PROVE FALSE
  OBVIOUS
<1>2. /\ Len(c.store.fields) = 2
      /\ (m = 1 /\ n = 2) \/ (m = 2 /\ n = 1)
      /\ 1 \in DOMAIN c.store.fields /\ 2 \in DOMAIN c.store.fields
  BY FieldsOfStore
<1>3. /\ c.store.address \in Nat
      /\ Offset(c, 1) \in Nat /\ Width(c, 1) \in Nat
      /\ Offset(c, 2) \in Nat /\ Width(c, 2) \in Nat
  BY <1>2, FieldsOfStore
<1>4. Offset(c, 1) + Width(c, 1) <= Offset(c, 2)
  BY <1>2, LoadIsOfNumbers DEF FitsStore, Offset, Width
<1>5. Holds(c, 1, a) /\ Holds(c, 2, a)
  BY <1>2
<1> QED
  BY <1>3, <1>4, <1>5 DEF Holds, Inside

\* What a store leaves behind: in a field, in the padding, elsewhere.
LEMMA FieldIsFinal ==
  ASSUME NEW c \in Cases, NEW n \in DOMAIN c.store.fields, NEW k \in 1 .. Width(c, n)
  PROVE  LET address == c.store.address + Offset(c, n) + k - 1 IN
         /\ address \in Covered(c.store)
         /\ Holds(c, n, address)
         /\ Final(c, address) = c.store.fields[n].bytes[k]
<1> DEFINE address == c.store.address + Offset(c, n) + k - 1
           written == {m \in DOMAIN c.store.fields : Holds(c, m, address)}
<1>1. /\ c.store.address \in Nat /\ c.store.size \in Nat
      /\ Offset(c, n) \in Nat /\ Width(c, n) \in Nat
      /\ Offset(c, n) + Width(c, n) <= c.store.size
  BY FieldIsInside, FieldsOfStore
<1>2. address \in Int /\ address \in Covered(c.store)
  BY <1>1 DEF Covered
<1>3. Holds(c, n, address)
  BY <1>1 DEF Holds, Inside
<1>4. (CHOOSE m \in written : TRUE) = n /\ written # {}
  <2> DEFINE chosen == CHOOSE m \in written : TRUE
  <2>1. n \in written
    BY <1>3
  <2>2. chosen \in written
    BY <2>1
  <2>3. \A m \in written : m = n
    BY <1>2, <1>3, OneFieldEach
  <2> QED
    BY <2>1, <2>2, <2>3
<1>5. address - c.store.address - Offset(c, n) + 1 = k
  BY <1>1
<1>6. Final(c, address) = c.store.fields[n].bytes[k]
  BY <1>4, <1>5 DEF Final, Holds, Offset, Width
<1> QED
  BY <1>2, <1>3, <1>6

LEMMA PaddingIsZero ==
  ASSUME NEW c \in Cases, NEW a \in Covered(c.store),
         \A n \in DOMAIN c.store.fields : ~Holds(c, n, a)
  PROVE  Final(c, a) = 0
BY DEF Final, Holds, Offset, Width

LEMMA RestIsKept ==
  ASSUME NEW c \in Cases, NEW a \in Int, a \notin Covered(c.store)
  PROVE  Final(c, a) = c.memory[a]
<1>1. ASSUME NEW n \in DOMAIN c.store.fields
      PROVE  ~Holds(c, n, a)
  <2>1. /\ c.store.address \in Nat /\ c.store.size \in Nat
        /\ Offset(c, n) \in Nat /\ Width(c, n) \in Nat
        /\ Offset(c, n) + Width(c, n) <= c.store.size
    BY FieldIsInside, FieldsOfStore
  <2> QED
    BY <2>1 DEF Holds, Inside, Covered
<1> QED
  BY <1>1 DEF Final, Holds, Offset, Width
-----------------------------------------------------------------------------
\* The writes of a word, and of a structure: zeros, then the fields.
LEMMA WritesOfWord ==
  ASSUME NEW c \in Cases, Len(c.store.fields) = 1
  PROVE  LET w == Writes(c.store) IN
         /\ w \in Seq(Int \X Byte)
         /\ Len(w) = Width(c, 1)
         /\ Width(c, 1) = c.store.size
         /\ \A k \in 1 .. Width(c, 1) :
              w[k] = <<c.store.address + Offset(c, 1) + k - 1, c.store.fields[1].bytes[k]>>
<1> DEFINE bytes == c.store.fields[1].bytes
<1>1. 1 \in DOMAIN c.store.fields
  BY FieldsOfStore
<1>2. /\ c.store.address \in Nat /\ bytes \in Seq(Byte)
      /\ Width(c, 1) \in Nat /\ Width(c, 1) = Len(bytes)
  BY <1>1, FieldsOfStore DEF Width
<1>3. Width(c, 1) = c.store.size /\ Offset(c, 1) = 0
  BY LoadIsOfNumbers DEF FitsStore, Offset, Width
<1>4. Writes(c.store) = BytewiseStore(bytes, c.store.address)
  BY DEF Writes
<1> HIDE DEF bytes
<1>5. /\ BytewiseStore(bytes, c.store.address) \in Seq(Int \X Byte)
      /\ Len(BytewiseStore(bytes, c.store.address)) = Len(bytes)
      /\ \A k \in 1 .. Len(bytes) :
           BytewiseStore(bytes, c.store.address)[k] = <<c.store.address + k - 1, bytes[k]>>
  BY <1>2, BytesInOrder
<1>6. \A k \in 1 .. Width(c, 1) : c.store.address + k - 1 = c.store.address + Offset(c, 1) + k - 1
  BY <1>2, <1>3
<1> QED
  BY <1>2, <1>3, <1>4, <1>5, <1>6, Zenon DEF bytes

LEMMA WritesOfStructure ==
  ASSUME NEW c \in Cases, Len(c.store.fields) = 2
  PROVE  LET w == Writes(c.store)
             size == c.store.size
         IN /\ w \in Seq(Int \X Byte)
            /\ Len(w) = size + Width(c, 1) + Width(c, 2)
            /\ \A k \in 1 .. size : w[k] = <<c.store.address + k - 1, 0>>
            /\ \A k \in 1 .. Width(c, 1) :
                 w[size + k] =
                   <<c.store.address + Offset(c, 1) + k - 1, c.store.fields[1].bytes[k]>>
            /\ \A k \in 1 .. Width(c, 2) :
                 w[size + Width(c, 1) + k] =
                   <<c.store.address + Offset(c, 2) + k - 1, c.store.fields[2].bytes[k]>>
<1> DEFINE size == c.store.size
           address == c.store.address
           Field(n) == BytewiseStore(c.store.fields[n].bytes, address + Offset(c, n))
           zeros == BytewiseStore(Zeros(size), address)
<1>1. 1 \in DOMAIN c.store.fields /\ 2 \in DOMAIN c.store.fields
  BY FieldsOfStore
<1>2. /\ address \in Nat /\ size \in Nat
      /\ Width(c, 1) \in Nat /\ Width(c, 2) \in Nat
  BY <1>1, FieldsOfStore
<1>3. /\ zeros \in Seq(Int \X Byte) /\ Len(zeros) = size
      /\ \A k \in 1 .. size : zeros[k] = <<address + k - 1, 0>>
  <2> HIDE DEF address, size
  <2>1. /\ Zeros(size) \in Seq(Byte) /\ Len(Zeros(size)) = size
        /\ \A k \in 1 .. size : Zeros(size)[k] = 0
    BY <1>2, ZerosAreBytes
  <2> QED
    BY <1>2, <2>1, BytesInOrder
<1>4. ASSUME NEW n \in {1, 2}
      PROVE  /\ Field(n) \in Seq(Int \X Byte) /\ Len(Field(n)) = Width(c, n)
             /\ \A k \in 1 .. Width(c, n) :
                  Field(n)[k] = <<address + Offset(c, n) + k - 1, c.store.fields[n].bytes[k]>>
  <2> DEFINE bytes == c.store.fields[n].bytes
             start == address + Offset(c, n)
  <2>1. bytes \in Seq(Byte) /\ Width(c, n) = Len(bytes) /\ Offset(c, n) \in Nat
    BY <1>1, FieldsOfStore DEF Width
  <2>2. start \in Nat
    BY <1>2, <2>1
  <2>3. Field(n) = BytewiseStore(bytes, start)
    OBVIOUS
  <2> HIDE DEF bytes, start
  <2>4. /\ Field(n) \in Seq(Int \X Byte) /\ Len(Field(n)) = Len(bytes)
        /\ \A k \in 1 .. Len(bytes) : Field(n)[k] = <<start + k - 1, bytes[k]>>
    BY <2>1, <2>2, <2>3, BytesInOrder
  <2> QED
    BY <2>1, <2>4, Zenon DEF bytes, start
<1> DEFINE Write == Int \X Byte
           front == zeros \o Field(1)
           w == Writes(c.store)
<1>5. w = front \o Field(2)
  BY DEF Writes, ZeroedPadding, Offset
<1>6. /\ zeros \in Seq(Write)
      /\ Field(1) \in Seq(Write) /\ Len(Field(1)) = Width(c, 1)
      /\ Field(2) \in Seq(Write) /\ Len(Field(2)) = Width(c, 2)
  BY <1>3, <1>4
<1>7. front = zeros \o Field(1)
  OBVIOUS
<1> HIDE DEF zeros, Field, Write, front, w, size, address
<1>8. /\ front \in Seq(Write) /\ Len(front) = size + Width(c, 1)
      /\ \A k \in 1 .. size : front[k] = zeros[k]
      /\ \A k \in 1 .. Width(c, 1) : front[size + k] = Field(1)[k]
  <2>1. /\ zeros \o Field(1) \in Seq(Write)
        /\ Len(zeros \o Field(1)) = Len(zeros) + Len(Field(1))
        /\ \A k \in 1 .. Len(zeros) : (zeros \o Field(1))[k] = zeros[k]
        /\ \A k \in 1 .. Len(Field(1)) : (zeros \o Field(1))[Len(zeros) + k] = Field(1)[k]
    BY <1>6, InARow
  <2> QED
    BY <1>3, <1>6, <1>7, <2>1, Zenon
<1>9. size + Width(c, 1) \in Nat
  BY <1>2
<1>10. /\ w \in Seq(Write) /\ Len(w) = size + Width(c, 1) + Width(c, 2)
       /\ \A k \in 1 .. size + Width(c, 1) : w[k] = front[k]
       /\ \A k \in 1 .. Width(c, 2) : w[size + Width(c, 1) + k] = Field(2)[k]
  <2>0. front \in Seq(Write) /\ Field(2) \in Seq(Write)
    BY <1>6, <1>8
  <2>1. /\ front \o Field(2) \in Seq(Write)
        /\ Len(front \o Field(2)) = Len(front) + Len(Field(2))
        /\ \A k \in 1 .. Len(front) : (front \o Field(2))[k] = front[k]
        /\ \A k \in 1 .. Len(Field(2)) : (front \o Field(2))[Len(front) + k] = Field(2)[k]
    BY <2>0, InARow
  <2> QED
    BY <1>5, <1>6, <1>8, <2>1, Zenon
<1>11. \A k \in 1 .. size : w[k] = zeros[k]
  BY <1>2, <1>8, <1>10
<1>12. \A k \in 1 .. Width(c, 1) : w[size + k] = Field(1)[k]
  BY <1>2, <1>8, <1>10
<1>13. /\ \A k \in 1 .. size : w[k] = <<address + k - 1, 0>>
       /\ \A k \in 1 .. Width(c, 1) :
            w[size + k] = <<address + Offset(c, 1) + k - 1, c.store.fields[1].bytes[k]>>
       /\ \A k \in 1 .. Width(c, 2) :
            w[size + Width(c, 1) + k] =
              <<address + Offset(c, 2) + k - 1, c.store.fields[2].bytes[k]>>
  BY <1>3, <1>4, <1>10, <1>11, <1>12
<1> QED
  BY <1>10, <1>13, Zenon DEF Write, w, size, address

-----------------------------------------------------------------------------
\* No later write of w is to the same address.
IsLast(w, k) == \A j \in DOMAIN w : j > k => w[j][1] # w[k][1]

\* What may be seen at an address while the store goes on.
Mixture(c, a, byte) ==
  \/ byte \in {c.memory[a], Final(c, a)}
  \/ byte = 0 /\ Len(c.store.fields) = 2 /\ a \in Covered(c.store)

\* Writes of a store, all of them or those that are left.
StoreWrites(c, w) ==
  /\ w \in Seq(Int \X Byte)
  /\ \A k \in DOMAIN w : w[k][1] \in Covered(c.store) /\ Mixture(c, w[k][1], w[k][2])
  /\ \A k \in DOMAIN w : IsLast(w, k) => w[k][2] = Final(c, w[k][1])
  /\ c.store.isVolatile => \A k \in DOMAIN w : IsLast(w, k)

LEMMA WritesOfStore ==
  ASSUME NEW c \in Cases
  PROVE  /\ StoreWrites(c, Writes(c.store))
         /\ \A a \in DOMAIN c.memory :
              (\A k \in DOMAIN Writes(c.store) : Writes(c.store)[k][1] # a)
                => Final(c, a) = c.memory[a]
<1> DEFINE w == Writes(c.store)
           size == c.store.size
           address == c.store.address
           fields == c.store.fields
<1>0. address \in Nat /\ size \in Nat /\ Len(fields) \in {0, 1, 2}
  BY FieldsOfStore
<1>1. CASE Len(fields) = 0
  <2>1. w = << >> /\ size = 0
    BY <1>1, LoadIsOfNumbers DEF Writes, FitsStore
  <2>2. \A a \in DOMAIN c.memory : a \in Int /\ a \notin Covered(c.store)
    BY <2>1, <1>0, LoadIsOfNumbers DEF Covered
  <2>3. \A a \in DOMAIN c.memory : Final(c, a) = c.memory[a]
    BY <2>2, RestIsKept
  <2>4. StoreWrites(c, << >>)
    BY DEF StoreWrites
  <2> QED
    BY <2>1, <2>3, <2>4
<1>2. CASE Len(fields) = 1
  <2>0. 1 \in DOMAIN fields
    BY <1>2, FieldsOfStore
  <2>1. /\ w \in Seq(Int \X Byte)
        /\ Len(w) = Width(c, 1) /\ Width(c, 1) = size
        /\ Offset(c, 1) \in Nat
        /\ \A k \in 1 .. size : w[k] = <<address + Offset(c, 1) + k - 1, fields[1].bytes[k]>>
    BY <1>2, <2>0, WritesOfWord, FieldsOfStore
  <2>2. DOMAIN w = 1 .. size
    BY <2>1
  <2>3. Offset(c, 1) = 0
    BY <1>2, LoadIsOfNumbers DEF FitsStore, Offset
  <2> HIDE DEF w, size, address, fields
  <2>4. ASSUME NEW k \in DOMAIN w
        PROVE  /\ w[k][1] \in Covered(c.store)
               /\ w[k][2] = Final(c, w[k][1])
    <3> DEFINE a == address + Offset(c, 1) + k - 1
    <3>1. k \in 1 .. Width(c, 1) /\ w[k] = <<a, fields[1].bytes[k]>>
      BY <2>1, <2>2
    <3>2. a \in Covered(c.store) /\ Final(c, a) = fields[1].bytes[k]
      BY <3>1, <2>0, FieldIsFinal DEF fields, address
    <3> HIDE DEF a
    <3> QED
      BY <3>1, <3>2
  <2>5. \A k \in DOMAIN w : w[k][1] = address + k - 1
    BY <1>0, <2>1, <2>2, <2>3
  <2>6. \A k \in DOMAIN w : IsLast(w, k)
    BY <1>0, <2>2, <2>5 DEF IsLast
  <2>7. StoreWrites(c, w)
    BY <2>1, <2>4, <2>6 DEF StoreWrites, Mixture
  <2>8. ASSUME NEW a \in DOMAIN c.memory, \A k \in DOMAIN w : w[k][1] # a
        PROVE  Final(c, a) = c.memory[a]
    <3>1. a \in Int
      BY LoadIsOfNumbers
    <3>2. a \notin Covered(c.store)
      <4> SUFFICES ASSUME a \in address .. address + size - 1 PROVE FALSE
        BY DEF Covered, address, size
      <4>1. a - address + 1 \in DOMAIN w /\ address + (a - address + 1) - 1 = a
        BY <1>0, <2>2
      <4> QED
        BY <2>5, <2>8, <4>1
    <3> QED
      BY <3>1, <3>2, RestIsKept
  <2> QED
    BY <2>7, <2>8 DEF w
<1>3. CASE Len(fields) = 2
  <2> DEFINE first == Width(c, 1)
             second == Width(c, 2)
  <2>0. 1 \in DOMAIN fields /\ 2 \in DOMAIN fields /\ DOMAIN fields = 1 .. 2
    BY <1>3, FieldsOfStore
  <2>1. /\ first \in Nat /\ second \in Nat
        /\ Offset(c, 1) \in Nat /\ Offset(c, 2) \in Nat
    BY <2>0, FieldsOfStore
  <2>2. /\ w \in Seq(Int \X Byte)
        /\ Len(w) = size + first + second
        /\ \A k \in 1 .. size : w[k] = <<address + k - 1, 0>>
        /\ \A k \in 1 .. first :
             w[size + k] = <<address + Offset(c, 1) + k - 1, fields[1].bytes[k]>>
        /\ \A k \in 1 .. second :
             w[size + first + k] = <<address + Offset(c, 2) + k - 1, fields[2].bytes[k]>>
    BY <1>3, WritesOfStructure
  <2>3. ~c.store.isVolatile
    BY <1>3, LoadIsOfNumbers DEF FitsStore
  <2>4. \A k \in 1 .. first :
          LET a == address + Offset(c, 1) + k - 1 IN
          a \in Covered(c.store) /\ Final(c, a) = fields[1].bytes[k]
    BY <2>0, FieldIsFinal
  <2>5. \A k \in 1 .. second :
          LET a == address + Offset(c, 2) + k - 1 IN
          a \in Covered(c.store) /\ Final(c, a) = fields[2].bytes[k]
    BY <2>0, FieldIsFinal
  <2>6. DOMAIN w = 1 .. size + first + second
    BY <2>2
  <2>7. Covered(c.store) = address .. address + size - 1
    BY DEF Covered
  <2>8. \A a : Holds(c, 1, a) <=> Inside(a, address + Offset(c, 1), first)
    BY DEF Holds
  <2>9. \A a : Holds(c, 2, a) <=> Inside(a, address + Offset(c, 2), second)
    BY DEF Holds
  <2>10. Len(c.store.fields) = 2
    BY <1>3
  <2> HIDE DEF w, size, address, fields, first, second
  <2>11. ASSUME NEW k \in DOMAIN w
         PROVE  /\ w[k][1] \in Covered(c.store) /\ Mixture(c, w[k][1], w[k][2])
                /\ IsLast(w, k) => w[k][2] = Final(c, w[k][1])
    <3>1. CASE k \in 1 .. size
      <4> DEFINE a == address + k - 1
      <4>1. w[k][1] = a /\ w[k][2] = 0 /\ a \in Int /\ a \in Covered(c.store)
        BY <1>0, <2>2, <2>7, <3>1
      <4>2. ASSUME IsLast(w, k) PROVE ~Inside(a, address + Offset(c, 1), first)
        <5> SUFFICES ASSUME Inside(a, address + Offset(c, 1), first) PROVE FALSE
          OBVIOUS
        <5>1. PICK j \in 1 .. first : a = address + Offset(c, 1) + j - 1
          <6>1. a - address - Offset(c, 1) + 1 \in 1 .. first
            BY <1>0, <2>1, <3>1 DEF Inside
          <6>2. a = address + Offset(c, 1) + (a - address - Offset(c, 1) + 1) - 1
            BY <1>0, <2>1, <4>1
          <6> QED
            BY <6>1, <6>2
        <5>2. size + j \in DOMAIN w /\ size + j > k
          BY <1>0, <2>1, <2>6, <3>1
        <5>3. w[size + j][1] = a
          BY <2>2, <5>1
        <5> QED
          BY <4>1, <4>2, <5>2, <5>3 DEF IsLast
      <4>3. ASSUME IsLast(w, k) PROVE ~Inside(a, address + Offset(c, 2), second)
        <5> SUFFICES ASSUME Inside(a, address + Offset(c, 2), second) PROVE FALSE
          OBVIOUS
        <5>1. PICK j \in 1 .. second : a = address + Offset(c, 2) + j - 1
          <6>1. a - address - Offset(c, 2) + 1 \in 1 .. second
            BY <1>0, <2>1, <3>1 DEF Inside
          <6>2. a = address + Offset(c, 2) + (a - address - Offset(c, 2) + 1) - 1
            BY <1>0, <2>1, <4>1
          <6> QED
            BY <6>1, <6>2
        <5>2. size + first + j \in DOMAIN w /\ size + first + j > k
          BY <1>0, <2>1, <2>6, <3>1
        <5>3. w[size + first + j][1] = a
          BY <2>2, <5>1
        <5> QED
          BY <4>1, <4>3, <5>2, <5>3 DEF IsLast
      <4>4. IsLast(w, k) => Final(c, a) = 0
        <5> SUFFICES ASSUME IsLast(w, k) PROVE Final(c, a) = 0
          OBVIOUS
        <5>1. \A n \in DOMAIN c.store.fields : n = 1 \/ n = 2
          BY <2>0 DEF fields
        <5>2. \A n \in DOMAIN c.store.fields : ~Holds(c, n, a)
          BY <2>8, <2>9, <4>2, <4>3, <5>1
        <5> QED
          BY <4>1, <5>2, PaddingIsZero
      <4> HIDE DEF a
      <4> QED
        BY <2>10, <4>1, <4>4 DEF Mixture
    <3>2. CASE \E j \in 1 .. first : k = size + j
      <4>1. PICK j \in 1 .. first : k = size + j
        BY <3>2
      <4> DEFINE a == address + Offset(c, 1) + j - 1
      <4>2. w[k] = <<a, fields[1].bytes[j]>>
        BY <2>2, <4>1
      <4>3. a \in Covered(c.store) /\ Final(c, a) = fields[1].bytes[j]
        BY <2>4
      <4> HIDE DEF a
      <4> QED
        BY <4>2, <4>3 DEF Mixture
    <3>3. CASE \E j \in 1 .. second : k = size + first + j
      <4>1. PICK j \in 1 .. second : k = size + first + j
        BY <3>3
      <4> DEFINE a == address + Offset(c, 2) + j - 1
      <4>2. w[k] = <<a, fields[2].bytes[j]>>
        BY <2>2, <4>1
      <4>3. a \in Covered(c.store) /\ Final(c, a) = fields[2].bytes[j]
        BY <2>5
      <4> HIDE DEF a
      <4> QED
        BY <4>2, <4>3 DEF Mixture
    <3>4. \/ k \in 1 .. size
          \/ k - size \in 1 .. first /\ k = size + (k - size)
          \/ k - size - first \in 1 .. second /\ k = size + first + (k - size - first)
      BY <1>0, <2>1, <2>6
    <3> QED
      BY <3>1, <3>2, <3>3, <3>4
  <2>12. StoreWrites(c, w)
    BY <2>2, <2>3, <2>11 DEF StoreWrites
  <2>13. ASSUME NEW a \in DOMAIN c.memory, \A k \in DOMAIN w : w[k][1] # a
         PROVE  Final(c, a) = c.memory[a]
    <3>1. a \in Int
      BY LoadIsOfNumbers
    <3>2. a \notin Covered(c.store)
      <4> SUFFICES ASSUME a \in address .. address + size - 1 PROVE FALSE
        BY <2>7
      <4>1. PICK k \in 1 .. size : address + k - 1 = a
        <5>1. a - address + 1 \in 1 .. size /\ address + (a - address + 1) - 1 = a
          BY <1>0
        <5> QED
          BY <5>1
      <4>2. k \in DOMAIN w /\ w[k][1] = a
        BY <1>0, <2>1, <2>2, <2>6, <4>1
      <4> QED
        BY <2>13, <4>2
    <3> QED
      BY <3>1, <3>2, RestIsKept
  <2> QED
    BY <2>12, <2>13 DEF w
<1> QED
  BY <1>0, <1>1, <1>2, <1>3
-----------------------------------------------------------------------------
(***************************************************************************)
(* LoadsMixStores says little of a store or a load that goes on.  ByteInv  *)
(* adds that an address without a pending write has its final byte, that   *)
(* nothing has changed before the first write, and that a load which met   *)
(* no store is all before it or all behind it.                             *)
(***************************************************************************)
NotBegun == Len(pending) = Len(Writes(case.store))

LoadedBefore == \A a \in DOMAIN loaded : loaded[a] = case.memory[a]
LoadedAfter == \A a \in DOMAIN loaded : loaded[a] = Final(case, a)

MemoryInv ==
  /\ case \in Cases
  /\ DOMAIN memory = DOMAIN case.memory
  /\ StoreWrites(case, pending)
  /\ Len(pending) <= Len(Writes(case.store))
  /\ NotBegun => memory = case.memory
  /\ \A a \in DOMAIN memory : Mixture(case, a, memory[a])
  /\ \A a \in DOMAIN memory :
       (\A k \in DOMAIN pending : pending[k][1] # a) => memory[a] = Final(case, a)

LoadInv ==
  /\ overlap \in BOOLEAN
  /\ DOMAIN loaded \subseteq Addresses
  /\ \A a \in DOMAIN loaded : Mixture(case, a, loaded[a])
  /\ ~overlap => LoadedBefore \/ LoadedAfter
  /\ ~overlap /\ Loading =>
       \/ NotBegun /\ LoadedBefore
       \/ pending = << >> /\ LoadedAfter

ByteInv == MemoryInv /\ LoadInv

LEMMA InitialBytes == Init => ByteInv
<1> SUFFICES ASSUME Init PROVE ByteInv
  OBVIOUS
<1> USE DEF Init
<1>1. case \in Cases /\ StoreWrites(case, pending)
  BY WritesOfStore
<1>2. Len(pending) \in Nat
  BY <1>1 DEF StoreWrites
<1>3. MemoryInv
  BY <1>1, <1>2, WritesOfStore DEF MemoryInv, NotBegun, Mixture
<1>4. LoadInv
  <2>1. DOMAIN loaded = {} /\ overlap = FALSE
    OBVIOUS
  <2> QED
    BY <2>1 DEF LoadInv, Loading, LoadedBefore
<1> QED
  BY <1>3, <1>4 DEF ByteInv

-----------------------------------------------------------------------------
LEMMA StoreKeepsMemory ==
  ASSUME ByteInv, StoreByte
  PROVE  MemoryInv' /\ Len(pending') < Len(Writes(case.store))
<1> USE DEF ByteInv
<1>1. PICK k \in DOMAIN pending :
        /\ k = 1 \/ case.store.isVolatile
        /\ memory' = [memory EXCEPT ![pending[k][1]] = pending[k][2]]
        /\ pending' = Without(pending, k)
        /\ UNCHANGED case
  BY DEF StoreByte
<1> DEFINE at == pending[k][1]
           byte == pending[k][2]
<1>2. /\ case \in Cases /\ pending \in Seq(Int \X Byte)
      /\ at \in Covered(case.store) /\ Mixture(case, at, byte)
      /\ IsLast(pending, k) => byte = Final(case, at)
      /\ case.store.isVolatile => \A i \in DOMAIN pending : IsLast(pending, i)
      /\ \A i \in DOMAIN pending : /\ pending[i][1] \in Covered(case.store)
                                   /\ Mixture(case, pending[i][1], pending[i][2])
      /\ \A i \in DOMAIN pending :
           IsLast(pending, i) => pending[i][2] = Final(case, pending[i][1])
  BY DEF MemoryInv, StoreWrites
<1>3. at \in DOMAIN memory
  BY <1>2, LoadIsOfNumbers DEF MemoryInv
<1>4. /\ DOMAIN memory' = DOMAIN memory
      /\ \A a \in DOMAIN memory : memory'[a] = IF a = at THEN byte ELSE memory[a]
  BY <1>1, <1>3
<1>5. /\ pending' \in Seq(Int \X Byte)
      /\ Len(pending) \in Nat /\ DOMAIN pending = 1 .. Len(pending)
      /\ Len(pending') = Len(pending) - 1 /\ DOMAIN pending' = 1 .. Len(pending) - 1
      /\ \A i \in 1 .. Len(pending) - 1 :
           pending'[i] = IF i < k THEN pending[i] ELSE pending[i + 1]
  <2> DEFINE Write == Int \X Byte
  <2>1. pending \in Seq(Write)
    BY <1>2
  <2> HIDE DEF Write
  <2>2. Len(pending) \in Nat /\ DOMAIN pending = 1 .. Len(pending)
    BY <2>1, Elements
  <2>3. /\ pending' \in Seq(Write) /\ Len(pending') = Len(pending) - 1
        /\ \A i \in 1 .. Len(pending) - 1 :
             pending'[i] = IF i < k THEN pending[i] ELSE pending[i + 1]
    BY <1>1, <2>1, WithoutOne
  <2>4. DOMAIN pending' = 1 .. Len(pending')
    BY <2>3, Elements
  <2> QED
    BY <2>2, <2>3, <2>4 DEF Write
<1>6. Len(pending') < Len(Writes(case.store))
  <2>1. Len(pending) <= Len(Writes(case.store)) /\ Len(Writes(case.store)) \in Nat
    BY <1>2, WritesOfStore DEF MemoryInv, StoreWrites
  <2> QED
    BY <1>5, <2>1
<1> DEFINE Old(i) == IF i < k THEN i ELSE i + 1
<1>7. PICK n \in Nat :
        /\ DOMAIN pending = 1 .. n /\ DOMAIN pending' = 1 .. n - 1 /\ k \in 1 .. n
        /\ \A i \in 1 .. n - 1 : pending'[i] = IF i < k THEN pending[i] ELSE pending[i + 1]
  BY <1>5
<1>8. \A i \in 1 .. n - 1 : Old(i) \in 1 .. n /\ pending'[i] = pending[Old(i)]
  BY <1>7
<1>9. ASSUME NEW i \in 1 .. n, i # k
      PROVE  \E j \in 1 .. n - 1 : i = Old(j)
  <2>1. CASE i < k
    <3>1. i \in 1 .. n - 1 /\ i = Old(i)
      BY <1>7, <2>1
    <3> QED
      BY <3>1
  <2>2. CASE i > k
    <3>1. i - 1 \in 1 .. n - 1 /\ i = Old(i - 1)
      BY <1>7, <2>2
    <3> QED
      BY <3>1
  <2> QED
    BY <1>7, <1>9, <2>1, <2>2
<1>10. \A i, j \in 1 .. n - 1 : j > i <=> Old(j) > Old(i)
  BY <1>7
<1>11. /\ \A i \in DOMAIN pending' : Old(i) \in DOMAIN pending /\ pending'[i] = pending[Old(i)]
       /\ \A i \in DOMAIN pending : i = k \/ \E j \in DOMAIN pending' : i = Old(j)
       /\ \A i, j \in DOMAIN pending' : j > i <=> Old(j) > Old(i)
  BY <1>7, <1>8, <1>9, <1>10
<1> HIDE DEF Old, at, byte
\* The one that has been written is the first one, or the only one at its address.
<1>12. ASSUME NEW i \in DOMAIN pending', IsLast(pending', i)
       PROVE  IsLast(pending, Old(i))
  <2>1. CASE case.store.isVolatile
    BY <1>2, <1>11, <2>1
  <2>2. CASE k = 1
    <3>1. ASSUME NEW j \in DOMAIN pending, j > Old(i)
          PROVE  pending[j][1] # pending[Old(i)][1]
      <4>1. j # k
        BY <1>5, <1>11, <2>2, <3>1
      <4>2. PICK m \in DOMAIN pending' : j = Old(m)
        BY <1>11, <4>1
      <4>3. m > i
        BY <1>11, <3>1, <4>2
      <4>4. pending'[m][1] # pending'[i][1]
        BY <1>12, <4>3 DEF IsLast
      <4> QED
        BY <1>11, <4>2, <4>4
    <3> QED
      BY <3>1 DEF IsLast
  <2> QED
    BY <1>1, <2>1, <2>2
<1>13. StoreWrites(case, pending')
  <2>1. ASSUME NEW i \in DOMAIN pending'
        PROVE  /\ pending'[i][1] \in Covered(case.store)
               /\ Mixture(case, pending'[i][1], pending'[i][2])
               /\ IsLast(pending', i) => pending'[i][2] = Final(case, pending'[i][1])
    BY <1>2, <1>11, <1>12
  <2>2. ASSUME case.store.isVolatile, NEW i \in DOMAIN pending'
        PROVE  IsLast(pending', i)
    <3>1. ASSUME NEW j \in DOMAIN pending', j > i
          PROVE  pending'[j][1] # pending'[i][1]
      <4>1. Old(j) > Old(i) /\ IsLast(pending, Old(i))
        BY <1>2, <1>11, <2>2, <3>1
      <4> QED
        BY <1>11, <4>1 DEF IsLast
    <3> QED
      BY <3>1 DEF IsLast
  <2> QED
    BY <1>5, <2>1, <2>2 DEF StoreWrites
<1>14. ASSUME NEW a \in DOMAIN memory, \A i \in DOMAIN pending' : pending'[i][1] # a
       PROVE  memory'[a] = Final(case, a)
  <2>1. CASE a = at
    <3>1. ASSUME NEW j \in DOMAIN pending, j > k
          PROVE  pending[j][1] # at
      <4>1. j # k
        BY <1>5, <3>1
      <4> QED
        BY <1>11, <1>14, <2>1, <4>1
    <3>2. IsLast(pending, k)
      BY <3>1 DEF IsLast, at
    <3> QED
      BY <1>2, <1>4, <2>1, <3>2
  <2>2. CASE a # at
    <3>1. \A i \in DOMAIN pending : pending[i][1] # a
      BY <1>11, <1>14, <2>2 DEF at
    <3> QED
      BY <1>4, <2>2, <3>1 DEF MemoryInv
  <2> QED
    BY <2>1, <2>2
<1>15. \A a \in DOMAIN memory : Mixture(case, a, memory'[a])
  BY <1>2, <1>4 DEF MemoryInv
<1>16. ~NotBegun'
  <2>1. Len(pending') \in Int /\ Len(Writes(case.store)) \in Int
    BY <1>2, <1>5, WritesOfStore DEF StoreWrites
  <2>2. Len(pending') # Len(Writes(case.store))
    BY <1>6, <2>1
  <2> QED
    BY <1>1, <2>2 DEF NotBegun
<1>17. case' = case /\ DOMAIN memory' = DOMAIN case.memory
  BY <1>1, <1>4 DEF MemoryInv
<1>18. Len(pending') <= Len(Writes(case.store))
  BY <1>2, <1>5, <1>6, WritesOfStore DEF StoreWrites
<1> QED
  BY <1>2, <1>4, <1>6, <1>13, <1>14, <1>15, <1>16, <1>17, <1>18 DEF MemoryInv

LEMMA StoreKeepsLoad ==
  ASSUME ByteInv, StoreByte
  PROVE  LoadInv'
<1> USE DEF ByteInv
<1>1. case' = case /\ loaded' = loaded /\ overlap' = (overlap \/ Loading)
  BY DEF StoreByte
<1>2. /\ (DOMAIN loaded)' = DOMAIN loaded /\ Addresses' = Addresses
      /\ Loading' = Loading
      /\ LoadedBefore' = LoadedBefore /\ LoadedAfter' = LoadedAfter
  BY <1>1 DEF Addresses, Loading, Unread, LoadedBefore, LoadedAfter
<1>3. \A a \in DOMAIN loaded : Mixture(case', a, loaded'[a])
  BY <1>1 DEF LoadInv
<1>4. overlap' \in BOOLEAN /\ (~overlap' => ~overlap /\ ~Loading')
  BY <1>1, <1>2 DEF LoadInv, Loading
<1> QED
  BY <1>1, <1>2, <1>3, <1>4 DEF LoadInv

LEMMA LoadKeepsLoad ==
  ASSUME ByteInv, LoadByte
  PROVE  LoadInv'
<1> USE DEF ByteInv
<1>1. PICK address \in Unread :
        /\ loaded' = [a \in DOMAIN loaded \cup {address} |->
                        IF a = address THEN memory[a] ELSE loaded[a]]
        /\ overlap' = (overlap \/ Storing)
        /\ UNCHANGED <<case, memory, pending>>
  BY DEF LoadByte
<1>2. /\ (DOMAIN loaded)' = DOMAIN loaded \cup {address}
      /\ loaded'[address] = memory[address]
      /\ \A a \in DOMAIN loaded : loaded'[a] = loaded[a]
  BY <1>1 DEF Unread
<1>3. address \in Addresses /\ address \in DOMAIN memory /\ Addresses' = Addresses
  BY <1>1, LoadIsOfNumbers DEF Unread, Addresses, MemoryInv
<1>4. Mixture(case, address, memory[address])
  BY <1>3 DEF MemoryInv
<1>5. /\ (DOMAIN loaded)' \subseteq Addresses'
      /\ \A a \in (DOMAIN loaded)' : Mixture(case', a, loaded'[a])
      /\ overlap' \in BOOLEAN
  BY <1>1, <1>2, <1>3, <1>4 DEF LoadInv, Storing
<1>6. Loading \/ DOMAIN loaded = {}
  BY <1>1 DEF Loading
\* Without a store under way the memory is as before or as it will be.
<1>7. ASSUME ~overlap'
      PROVE  \/ NotBegun' /\ LoadedBefore'
             \/ (pending = << >>)' /\ LoadedAfter'
  <2>1. ~overlap /\ ~Storing
    BY <1>1, <1>7 DEF LoadInv
  <2>2. NotBegun \/ pending = << >>
    <3>1. Len(pending) \in Nat /\ Len(Writes(case.store)) \in Nat
      BY WritesOfStore DEF MemoryInv, StoreWrites
    <3> QED
      BY <2>1, <3>1 DEF Storing, NotBegun, MemoryInv
  <2>3. NotBegun' = NotBegun /\ pending' = pending
    BY <1>1 DEF NotBegun
  <2>4. NotBegun => memory[address] = case.memory[address]
    BY DEF MemoryInv
  <2>5. pending = << >> => memory[address] = Final(case, address)
    BY <1>3 DEF MemoryInv
  <2>6. \/ NotBegun /\ LoadedBefore
        \/ pending = << >> /\ LoadedAfter
    BY <1>6, <2>1, <2>2 DEF LoadInv, LoadedBefore, LoadedAfter
  <2> QED
    BY <1>1, <1>2, <2>3, <2>4, <2>5, <2>6 DEF LoadedBefore, LoadedAfter
<1> QED
  BY <1>5, <1>7 DEF LoadInv

-----------------------------------------------------------------------------
\* ByteInv is inductive: a byte that is stored or loaded keeps it.
THEOREM ByteInvariant == Spec => []ByteInv
<1>1. ByteInv /\ [Next]_vars => ByteInv'
  <2> SUFFICES ASSUME ByteInv, [Next]_vars PROVE ByteInv'
    OBVIOUS
  <2>1. CASE StoreByte
    BY <2>1, StoreKeepsMemory, StoreKeepsLoad DEF ByteInv
  <2>2. CASE LoadByte
    <3>1. UNCHANGED <<case, memory, pending>>
      BY <2>2 DEF LoadByte
    <3>2. MemoryInv'
      BY <3>1 DEF ByteInv, MemoryInv, NotBegun
    <3> QED
      BY <2>2, <3>2, LoadKeepsLoad DEF ByteInv
  <2>3. CASE Execute \/ UNCHANGED vars
    <3>1. UNCHANGED <<case, memory, pending, loaded, overlap>>
      BY <2>3 DEF Execute, vars
    <3> QED
      BY <3>1 DEF ByteInv, MemoryInv, LoadInv, NotBegun, LoadedBefore, LoadedAfter,
                  Loading, Unread, Addresses
  <2> QED
    BY <2>1, <2>2, <2>3 DEF Next
<1> QED
  BY InitialBytes, <1>1, PTL DEF Spec

(***************************************************************************)
(* Of every store and load, bytes read in a race are bytes of the old or   *)
(* the new value (or the zeros of a structure's store), accesses that do   *)
(* not overlap are whole, and a store leaves what it should.               *)
(***************************************************************************)
THEOREM LoadsMixStoresHolds == Spec => []LoadsMixStores
<1>1. ByteInv => LoadsMixStores
  <2> SUFFICES ASSUME ByteInv PROVE LoadsMixStores
    OBVIOUS
  <2>1. \A a \in DOMAIN loaded : Mixture(case, a, loaded[a])
    BY DEF ByteInv, LoadInv
  <2>2. Unread = {} => DOMAIN loaded = Addresses
    BY DEF ByteInv, LoadInv, Unread
  <2>3. ~overlap => LoadedBefore \/ LoadedAfter
    BY DEF ByteInv, LoadInv
  <2>4. pending = << >> => \A a \in DOMAIN memory : memory[a] = Final(case, a)
    BY DEF ByteInv, MemoryInv
  <2> QED
    BY <2>1, <2>2, <2>3, <2>4 DEF LoadsMixStores, Mixture, LoadedBefore, LoadedAfter
<1> QED
  BY ByteInvariant, <1>1, PTL

-----------------------------------------------------------------------------
(***************************************************************************)
(* The results.                                                            *)
(***************************************************************************)
\* Whatever may be seen while a store goes on is a byte.
LEMMA MixtureIsByte ==
  ASSUME NEW c \in Cases, NEW a \in DOMAIN c.memory, NEW byte, Mixture(c, a, byte)
  PROVE  byte \in Byte
<1>1. c.memory[a] \in Byte /\ 0 \in Byte /\ a \in Int
  BY LoadIsOfNumbers, ZeroIsByte
<1>2. Final(c, a) \in Byte
  <2>1. CASE \E n \in DOMAIN c.store.fields : Holds(c, n, a)
    <3>1. PICK n \in DOMAIN c.store.fields : Holds(c, n, a)
      BY <2>1
    <3> DEFINE bytes == c.store.fields[n].bytes
               start == c.store.address + Offset(c, n)
    <3>2. start \in Nat /\ bytes \in Seq(Byte) /\ Width(c, n) \in Nat /\ Width(c, n) = Len(bytes)
      <4>1. c.store.address \in Nat /\ Offset(c, n) \in Nat
        BY FieldsOfStore
      <4>2. bytes \in Seq(Byte) /\ Width(c, n) \in Nat /\ Width(c, n) = Len(bytes)
        BY FieldsOfStore DEF Width
      <4> QED
        BY <4>1, <4>2
    <3>3. Inside(a, start, Width(c, n))
      BY <3>1 DEF Holds
    <3>4. \A k \in 1 .. Width(c, n) : Final(c, start + k - 1) = bytes[k]
      BY FieldIsFinal
    <3> HIDE DEF bytes, start
    <3>5. PICK k \in 1 .. Width(c, n) : a = start + k - 1
      <4>1. a - start + 1 \in 1 .. Width(c, n) /\ a = start + (a - start + 1) - 1
        BY <1>1, <3>2, <3>3 DEF Inside
      <4> QED
        BY <4>1
    <3>6. bytes[k] \in Byte
      <4>1. k \in DOMAIN bytes
        BY <3>2, Elements
      <4> QED
        BY <3>2, <4>1, Elements
    <3> QED
      BY <3>4, <3>5, <3>6
  <2>2. CASE /\ \A n \in DOMAIN c.store.fields : ~Holds(c, n, a)
             /\ a \in Covered(c.store)
    BY <1>1, <2>2, PaddingIsZero
  <2>3. CASE a \notin Covered(c.store)
    BY <1>1, <2>3, RestIsKept
  <2> QED
    BY <2>1, <2>2, <2>3
<1> QED
  BY <1>1, <1>2 DEF Mixture

\* The digits of a word.
LEMMA Digits ==
  ASSUME NEW P \in Nat, P > 0, NEW a \in 0 .. P - 1, NEW Q \in Nat, Q > 0, NEW b \in 0 .. Q - 1
  PROVE  a + P * b \in 0 .. P * Q - 1 /\ P * Q \in Nat /\ P * Q > 0
<1>1. P * b >= 0 /\ P * b \in Int
  OBVIOUS
<1>2. P * b <= P * Q - P /\ P * Q \in Nat
  <2>1. Q - 1 - b >= 0 /\ Q - 1 - b \in Int
    OBVIOUS
  <2>2. P * (Q - 1 - b) >= 0
    BY <2>1
  <2> QED
    BY <2>2
<1> QED
  BY <1>1, <1>2

\* The loaded bytes are a word of as many bits.
LEMMA LoadedWord ==
  ASSUME ByteInv, Unread = {}
  PROVE  /\ Bytes \in [1 .. case.load.size -> Byte]
         /\ Bits \in Nat \ {0}
         /\ Word \in 0 .. 2^Bits - 1
<1> DEFINE size == case.load.size
           first == case.load.address
           B == ByteBits
           P == 2^ByteBits
<1>1. case \in Cases /\ first \in Nat /\ size \in {1, 2, 3}
  BY LoadIsOfNumbers DEF ByteInv, MemoryInv
<1>2. \A a \in Addresses : loaded[a] \in Byte
  <2>1. Addresses \subseteq DOMAIN loaded
    BY DEF Unread
  <2>2. Addresses \subseteq DOMAIN case.memory
    BY <1>1, LoadIsOfNumbers DEF Addresses
  <2> QED
    BY <1>1, <2>1, <2>2, MixtureIsByte DEF ByteInv, LoadInv
<1>3. \A k \in 1 .. size : first + k - 1 \in Addresses
  <2>1. Addresses = first .. first + size - 1
    BY DEF Addresses, Covered
  <2> HIDE DEF first, size
  <2> QED
    BY <1>1, <2>1
<1>4. Bytes \in [1 .. size -> Byte]
  BY <1>2, <1>3 DEF Bytes
<1>5. B \in Nat \ {0} /\ P \in Nat /\ P > 0 /\ Byte = 0 .. P - 1
  BY CaseAssumption, Widths DEF Byte
<1>6. 2^(2 * B) = P * P /\ 2^(3 * B) = P * (P * P)
  <2>1. 2^(B + B) = 2^B * 2^B
    BY <1>5, PowerOfSum
  <2>2. B + B \in Nat
    BY <1>5
  <2>3. 2^(B + (B + B)) = 2^B * 2^(B + B)
    BY <1>5, <2>2, PowerOfSum
  <2>4. 2 * B = B + B /\ 3 * B = B + (B + B)
    BY <1>5
  <2> QED
    BY <2>1, <2>3, <2>4
<1>7. Bits = B * size
  BY DEF Bits
<1> HIDE DEF P
<1>8. CASE size = 1
  <2>1. Word = Bytes[1] /\ Bytes[1] \in Byte
    BY <1>4, <1>8 DEF Word
  <2>2. Bits = B
    BY <1>5, <1>7, <1>8
  <2> QED
    BY <1>4, <1>5, <2>1, <2>2 DEF P
<1>9. CASE size = 2
  <2> DEFINE b1 == Bytes[1]
             b2 == Bytes[2]
  <2>1. Word = b1 + P * b2 /\ b1 \in Byte /\ b2 \in Byte
    BY <1>4, <1>9 DEF Word, P
  <2>2. Bits = 2 * B /\ Bits \in Nat \ {0}
    BY <1>5, <1>7, <1>9
  <2> HIDE DEF b1, b2
  <2>3. b1 + P * b2 \in 0 .. P * P - 1
    BY <1>5, <2>1, Digits
  <2> QED
    BY <1>4, <1>6, <2>1, <2>2, <2>3
<1>10. CASE size = 3
  <2> DEFINE b1 == Bytes[1]
             b2 == Bytes[2]
             b3 == Bytes[3]
             high == b2 + P * b3
             Q == P * P
  <2>1. Word = b1 + P * b2 + (P * P) * b3 /\ b1 \in Byte /\ b2 \in Byte /\ b3 \in Byte
    BY <1>4, <1>6, <1>10 DEF Word, P
  <2>2. Bits = 3 * B /\ Bits \in Nat \ {0}
    BY <1>5, <1>7, <1>10
  <2> HIDE DEF b1, b2, b3
  <2>3. high \in 0 .. Q - 1 /\ Q \in Nat /\ Q > 0
    BY <1>5, <2>1, Digits
  <2>4. Word = b1 + P * high
    BY <1>5, <2>1
  <2> HIDE DEF high, Q
  <2>5. b1 + P * high \in 0 .. P * Q - 1
    BY <1>5, <2>1, <2>3, Digits
  <2> QED
    BY <1>4, <1>6, <2>2, <2>4, <2>5 DEF Q
<1> QED
  BY <1>1, <1>8, <1>9, <1>10

(***************************************************************************)
(* A value that has been used was whole, and so its bytes are the ones     *)
(* that were used.                                                         *)
(***************************************************************************)
ResultInv == ResultsExact /\ (outcome # << >> => Unread = {})

\* What is computed of the loaded value is exact.
LEMMA ExecuteIsExact ==
  ASSUME ByteInv, Execute
  PROVE  ResultsExact'
<1> DEFINE command == case.command
           size == case.load.size
           n == Bits
           x == Word
<1>1. /\ Bytes \in [1 .. size -> Byte]
      /\ n \in Nat \ {0}
      /\ x \in 0 .. 2^n - 1
  BY LoadedWord DEF Execute
<1>2. FitsCommand(command, size) /\ n = ByteBits * size
  BY LoadIsOfNumbers DEF ByteInv, MemoryInv, Bits
<1>3. outcome' \in Outcomes(command)
  BY DEF Execute
<1>4. UNCHANGED <<case, loaded>>
  BY DEF Execute
<1>5. command' = command /\ Bits' = n /\ Word' = x /\ Bytes' = Bytes
  BY <1>4 DEF Bits, Word, Bytes
<1>6. ResultsExact' <=> (outcome' # << >> => outcome' # Poison /\ Exact(command)')
  BY DEF ResultsExact
<1>7. CASE command.kind = "binary"
  <2> DEFINE m == command.rhsBits
             r == command.rhs
             u == command.isUnsigned
             op == command.op
  <2>1. m \in Nat \ {0} /\ r \in 0 .. 2^m - 1 /\ u \in BOOLEAN /\ op \in Operations
    BY <1>2, <1>7 DEF FitsCommand
  <2>2. outcome' = Binary(op, x, n, r, m, u)
    BY <1>3, <1>7 DEF Outcomes
  <2>3. Exact(command)' <=> outcome' = ExactBinary(op, x, Wrap(Number(r, m, u), n), n, u)
    BY <1>5, <1>7 DEF Exact
  <2> HIDE DEF m, r, u, op, n, x
  <2> QED
    BY <1>1, <1>6, <2>1, <2>2, <2>3, BinaryIsExact
<1>8. CASE command.kind = "pointers"
  <2> DEFINE y == command.rhs
             element == command.elementSize
  <2>1. y \in 0 .. 2^n - 1 /\ element \in 1 .. 2^n - 1
    BY <1>2, <1>8 DEF FitsCommand
  <2>2. outcome' = PointerDifference(x, y, n, element)
    BY <1>3, <1>8 DEF Outcomes
  <2>3. Exact(command)' <=> (SameArray(x, y, n, element) =>
                               outcome' = Value(Wrap(Quotient(x - y, element), n)))
    BY <1>5, <1>8 DEF Exact
  <2> HIDE DEF y, element, n, x
  <2> QED
    BY <1>1, <1>6, <2>1, <2>2, <2>3, PointersAreExact
<1>9. CASE command.kind = "vector"
  <2> DEFINE op == command.op
             b == command.divisors
  <2>1. op \in {"vdivi", "vdivu"} /\ b \in [1 .. size -> 0 .. 2^ByteBits - 1]
    BY <1>2, <1>9 DEF FitsCommand, Byte
  <2>2. Bytes \in [1 .. size -> 0 .. 2^ByteBits - 1]
    BY <1>1 DEF Byte
  <2>3. outcome' = VectorDivision(op, Bytes, b, ByteBits)
    BY <1>3, <1>9 DEF Outcomes
  <2>4. Exact(command)' <=> outcome' = ExactVector(op, Bytes, b, ByteBits)
    BY <1>5, <1>9 DEF Exact
  <2>5. size \in Nat /\ ByteBits \in Nat \ {0}
    BY CaseAssumption DEF ByteInv, MemoryInv
  <2> HIDE DEF op, b, size
  <2> QED
    BY <1>6, <2>1, <2>2, <2>3, <2>4, <2>5, VectorsAreExact
<1>10. CASE command.kind = "minmax"
  <2> DEFINE op == command.op
             y == command.rhs
  <2>1. op \in {"vmin", "vmax"} /\ n = FloatBits /\ y \in 0 .. 2^FloatBits - 1
    BY <1>2, <1>10 DEF FitsCommand
  <2>2. x \in 0 .. 2^FloatBits - 1
    BY <1>1, <2>1
  <2>3. outcome' \in MinMax(op, x, y)
    BY <1>3, <1>10 DEF Outcomes
  <2>4. Exact(command)' <=>
          outcome' = Value(ExactMinMax(op, flushSubnormal(x), flushSubnormal(y)))
    BY <1>5, <1>10 DEF Exact
  <2> HIDE DEF op, y, x
  <2> QED
    BY <1>6, <2>1, <2>2, <2>3, <2>4, MinMaxIsExact, OutcomesDiffer
<1>11. CASE command.kind = "convert"
  <2> DEFINE bits == command.bits
             signed == command.op = "fptosi"
  <2>1. bits \in Nat \ {0} /\ n = FloatBits
    BY <1>2, <1>11 DEF FitsCommand
  <2>2. flushSubnormal(x) \in Nat
    <3>1. flushSubnormal(x) \in 0 .. 2^FloatBits - 1
      BY <1>1, <2>1, FlushedIsWord
    <3> QED
      BY <3>1
  <2>3. outcome' = FloatToInteger(x, bits, signed)
    BY <1>3, <1>11 DEF Outcomes
  <2>4. Exact(command)' <=> outcome' = ExactInteger(flushSubnormal(x), bits, signed)
    BY <1>5, <1>11 DEF Exact
  <2>5. signed \in BOOLEAN
    OBVIOUS
  <2> HIDE DEF bits, signed, x
  <2> QED
    BY <1>6, <2>1, <2>2, <2>3, <2>4, <2>5, ConversionsAreExact
<1> QED
  BY <1>2, <1>7, <1>8, <1>9, <1>10, <1>11 DEF FitsCommand

(***************************************************************************)
(* Whatever was loaded, of any widths of bytes and of up to three of them, *)
(* and for any floating-point format, every command computes its exact     *)
(* result or traps where there is none, and never depends on a result that *)
(* LLVM leaves undefined or to the target.                                 *)
(***************************************************************************)
THEOREM ResultsExactHolds == Spec => []ResultsExact
<1>1. Init => ResultInv
  BY DEF Init, ResultInv, ResultsExact
<1>2. ByteInv /\ ResultInv /\ [Next]_vars => ResultInv'
  <2> SUFFICES ASSUME ByteInv, ResultInv, [Next]_vars PROVE ResultInv'
    OBVIOUS
  <2>1. ASSUME UNCHANGED <<case, loaded, outcome>> PROVE ResultInv'
    <3>1. /\ Unread' = Unread
          /\ Word' = Word /\ Bits' = Bits /\ Bytes' = Bytes
      BY <2>1 DEF Unread, Addresses, Word, Bits, Bytes
    <3>2. Exact(case.command)' = Exact(case.command)
      BY <2>1, <3>1 DEF Exact
    <3> QED
      BY <2>1, <3>1, <3>2 DEF ResultInv, ResultsExact
  <2>2. CASE StoreByte
    BY <2>1, <2>2 DEF StoreByte
  <2>3. CASE LoadByte
    <3>1. Unread # {} /\ outcome' = outcome
      BY <2>3 DEF LoadByte
    <3> QED
      BY <3>1 DEF ResultInv, ResultsExact
  <2>4. CASE Execute
    <3>1. Unread' = Unread /\ Unread = {}
      BY <2>4 DEF Execute, Unread, Addresses
    <3> QED
      BY <2>4, <3>1, ExecuteIsExact DEF ResultInv
  <2>5. CASE UNCHANGED vars
    BY <2>1, <2>5 DEF vars
  <2> QED
    BY <2>2, <2>3, <2>4, <2>5 DEF Next
<1>3. ResultInv => ResultsExact
  BY DEF ResultInv
<1> QED
  BY ByteInvariant, <1>1, <1>2, <1>3, PTL DEF Spec
=============================================================================
