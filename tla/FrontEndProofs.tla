--------------------------- MODULE FrontEndProofs ---------------------------
(***************************************************************************)
(* Proofs about two parts of the front end: the lexer, with the walks over *)
(* a text that locate diagnostics (Lexer, SourceText), and the search for  *)
(* recursive structs (StructCycles).  They share no state.                 *)
(*                                                                         *)
(* The lexer.  Why locations are exact for every text: wherever the cursor *)
(* is, its line and column are those of the place, but for a place between *)
(* CR and LF, where no token begins; and where an iteration ends, a        *)
(* character begins.  The library and the driver then find line and column *)
(* again, by a walk from line begin to line begin and from character to    *)
(* character.  All these walks are functions defined by recursion.  What   *)
(* they compute is shown by induction, which needs no schema: the numbers  *)
(* at which something fails have a least one, because Nat is well-founded. *)
(*                                                                         *)
(* The search.  Why it refuses exactly the structs that contain each other *)
(* endlessly, for any number of structs, fields and starts: what has been  *)
(* visited is closed under its parts and has no endless structs among it;  *)
(* what is being visited is a chain in which each struct is a part of the  *)
(* one before.                                                             *)
(***************************************************************************)
EXTENDS Lexer, StructCycles, FiniteSetTheorems, WellFoundedInduction, TLAPS

-----------------------------------------------------------------------------
(* Numbers and functions on intervals.                                     *)

\* What follows is about sets of numbers and about functions on an interval.
\* Nat is well-founded, so that induction needs no operator for what it shows.
LEMMA Least ==
  ASSUME NEW S, S \subseteq Nat, S # {}
  PROVE  \E n \in S : \A m \in S : n <= m
<1> DEFINE R == {p \in Nat \X Nat : p[1] < p[2]}
<1>1. IsWellFoundedOn(R, Nat)
  BY NatLessThanWellFounded, Zenon DEF OpToRel
<1> HIDE DEF R
<1>2. PICK n \in S : \A m \in S : ~(<<m, n>> \in R)
  BY <1>1, WFMin
<1>3. \A m \in S : m < n => <<m, n>> \in R
  BY <1>2 DEF R
<1>4. \A m \in S : m \in Nat /\ n \in Nat /\ ~(m < n)
  BY <1>2, <1>3
<1>5. \A m \in S : n <= m
  BY <1>4
<1> QED
  BY <1>2, <1>5

\* A set of numbers between bounds has a least one ...
LEMMA LeastOfInterval ==
  ASSUME NEW a \in Int, NEW b \in Int, NEW S, S \subseteq a .. b, S # {}
  PROVE  \E n \in S : \A m \in S : n <= m
<1> DEFINE D == {x - a : x \in S}
<1>1. D \subseteq Nat /\ D # {}
  OBVIOUS
<1>2. PICK d \in D : \A e \in D : d <= e
  <2> HIDE DEF D
  <2> QED BY <1>1, Least
<1>3. PICK n \in S : d = n - a
  BY <1>2
<1>4. ASSUME NEW m \in S PROVE n <= m
  <2>1. m - a \in D /\ m \in Int /\ n \in Int
    OBVIOUS
  <2>2. n - a <= m - a
    BY <1>2, <1>3, <2>1
  <2> HIDE DEF D
  <2> QED BY <2>1, <2>2
<1> QED
  BY <1>4

\* ... and a greatest one,
LEMMA GreatestOfInterval ==
  ASSUME NEW a \in Int, NEW b \in Int, NEW S, S \subseteq a .. b, S # {}
  PROVE  \E n \in S : \A m \in S : m <= n
<1> DEFINE D == {b - x : x \in S}
<1>1. D \subseteq Nat /\ D # {}
  OBVIOUS
<1>2. PICK d \in D : \A e \in D : d <= e
  <2> HIDE DEF D
  <2> QED BY <1>1, Least
<1>3. PICK n \in S : d = b - n
  BY <1>2
<1>4. \A m \in S : m <= n
  BY <1>2, <1>3
<1> QED
  BY <1>4

\* which Min ...
LEMMA MinOfInterval ==
  ASSUME NEW a \in Int, NEW b \in Int, NEW S, S \subseteq a .. b, S # {}
  PROVE  Min(S) \in S /\ \A m \in S : Min(S) <= m
BY LeastOfInterval DEF Min

\* ... and Max choose.
LEMMA MaxOfInterval ==
  ASSUME NEW a \in Int, NEW b \in Int, NEW S, S \subseteq a .. b, S # {}
  PROVE  Max(S) \in S /\ \A m \in S : m <= Max(S)
BY GreatestOfInterval DEF Max

\* What holds of a, and of the next number with each, holds up to b.
LEMMA IntervalInduction ==
  ASSUME NEW a \in Int, NEW b \in Int, NEW T,
         a \in T, \A i \in a .. b - 1 : i \in T => i + 1 \in T
  PROVE  a .. b \subseteq T
<1> DEFINE S == (a .. b) \ T
<1> SUFFICES ASSUME S # {} PROVE FALSE
  OBVIOUS
<1>1. PICK n \in S : \A m \in S : n <= m
  <2>1. S \subseteq a .. b
    OBVIOUS
  <2> HIDE DEF S
  <2> QED BY <2>1, LeastOfInterval
<1>2. n \in a .. b /\ n # a
  OBVIOUS
<1>3. n - 1 \in a .. b - 1 /\ n - 1 \notin S
  BY <1>1, <1>2
<1>4. (n - 1) + 1 \in T
  BY <1>3
<1> QED
  BY <1>2, <1>4

\* A function on a .. b that begins with first, and goes on by step.
Recurses(f, a, b, S, first, step) ==
  /\ f \in [a .. b -> S]
  /\ f[a] = first
  /\ \A i \in a + 1 .. b : f[i] = step[<<i, f[i - 1]>>]

\* There is one, so that the function a LET defines by recursion exists.
LEMMA RecursionExists ==
  ASSUME NEW a \in Int, NEW b \in Int, a <= b, NEW S, NEW first \in S,
         NEW step \in [Int \X S -> S]
  PROVE  \E f : Recurses(f, a, b, S, first, step)
<1> DEFINE P(f, n) == f[a] = first /\ \A i \in a + 1 .. n : f[i] = step[<<i, f[i - 1]>>]
           T == {n \in a .. b : \E f \in [a .. n -> S] : P(f, n)}
<1>1. a \in T
  <2> DEFINE f == [i \in a .. a |-> first]
  <2>1. f \in [a .. a -> S] /\ P(f, a) /\ a \in a .. b
    OBVIOUS
  <2> HIDE DEF f, P
  <2> QED BY <2>1
<1>2. ASSUME NEW n \in a .. b - 1, n \in T
      PROVE  n + 1 \in T
  <2>1. PICK f \in [a .. n -> S] : P(f, n)
    BY <1>2
  <2> DEFINE g == [i \in a .. n + 1 |-> IF i = n + 1 THEN step[<<n + 1, f[n]>>] ELSE f[i]]
  <2>2. step[<<n + 1, f[n]>>] \in S
    OBVIOUS
  <2>3. g \in [a .. n + 1 -> S]
    BY <2>2
  <2>4. \A i \in a + 1 .. n + 1 : g[i] = step[<<i, g[i - 1]>>]
    <3> TAKE i \in a + 1 .. n + 1
    <3>1. CASE i = n + 1
      <4>1. i - 1 \in a .. n + 1 /\ i - 1 # n + 1 /\ i - 1 = n
        BY <3>1
      <4>2. g[i - 1] = f[n] /\ g[i] = step[<<n + 1, f[n]>>]
        BY <4>1, <3>1
      <4> QED BY <4>2, <3>1
    <3>2. CASE i # n + 1
      <4>1. i \in a + 1 .. n /\ i \in a .. n + 1 /\ i - 1 \in a .. n + 1 /\ i - 1 # n + 1
        BY <3>2
      <4>2. g[i - 1] = f[i - 1] /\ g[i] = f[i]
        BY <4>1, <3>2
      <4>3. f[i] = step[<<i, f[i - 1]>>]
        BY <4>1, <2>1
      <4> QED BY <4>2, <4>3
    <3> QED BY <3>1, <3>2
  <2>5. g[a] = first
    BY <2>1
  <2>6. P(g, n + 1)
    BY <2>4, <2>5
  <2> HIDE DEF g
  <2>7. n + 1 \in a .. b
    OBVIOUS
  <2> QED BY <2>3, <2>6, <2>7
<1> HIDE DEF T
<1>3. a .. b \subseteq T
  BY <1>1, <1>2, IntervalInduction
<1>4. b \in T
  BY <1>3
<1> QED
  BY <1>4 DEF T, Recurses

-----------------------------------------------------------------------------
(* Places in a text.                                                       *)

\* The size of the text, its offsets and its bytes.
LEMMA Text ==
  ASSUME source \in Seq(Bytes)
  PROVE  /\ Size \in Nat
         /\ \A i : i \in Offsets <=> i \in Int /\ 0 <= i /\ i < Size
         /\ \A i \in Offsets : ByteAt(i) \in Bytes /\ ByteAt(i) = source[i + 1]
         /\ \A i : i \notin Offsets => ByteAt(i) = "nul"
         /\ \A bytes, i : i \in Holding(bytes) <=> i \in Offsets /\ ByteAt(i) \in bytes
<1>1. Size \in Nat /\ \A i \in 1 .. Size : source[i] \in Bytes
  BY DEF Size
<1>2. \A i : i \in Offsets <=> i \in Int /\ 0 <= i /\ i < Size
  BY <1>1 DEF Offsets
<1>3. \A i \in Offsets : i + 1 \in 1 .. Size
  BY <1>1, <1>2
<1> QED
  BY <1>1, <1>2, <1>3 DEF ByteAt, Holding

\* A sequence takes a byte, or all the bytes that its first one claims.
LEMMA SequenceLength ==
  ASSUME NEW i \in Int, NEW end \in Int
  PROVE  /\ utf8SequenceLength(i, end) \in 1 .. 4
         /\ utf8SequenceLength(i, end) > 1 => i + utf8SequenceLength(i, end) <= end
         /\ \A k \in 1 .. utf8SequenceLength(i, end) - 1 : ByteAt(i + k) \in Continuations
         /\ ByteAt(i) \notin Leads => utf8SequenceLength(i, end) = 1
<1> DEFINE length == ClaimedLength(ByteAt(i))
<1>1. length \in 1 .. 4 /\ (ByteAt(i) \notin Leads => length = 1)
  BY DEF ClaimedLength, Leads
<1> DEFINE good == /\ i + length <= end
                   /\ length > 1 => ByteAt(i + 1) \in SecondBytes(ByteAt(i))
                   /\ \A k \in 1 .. length - 1 : ByteAt(i + k) \in Continuations
<1>2. utf8SequenceLength(i, end) = IF good THEN length ELSE 1
  BY DEF utf8SequenceLength
<1>3. CASE good
  BY <1>1, <1>2, <1>3
<1>4. CASE ~good
  BY <1>1, <1>2, <1>4
<1> QED
  BY <1>3, <1>4

\* A line's end makes no difference to the sequences before it.
LEMMA SequenceInLine ==
  ASSUME NEW i \in Int, NEW end \in Int, NEW size \in Int, i < end, end <= size,
         end < size => ByteAt(end) \notin Continuations
  PROVE  utf8SequenceLength(i, end) = utf8SequenceLength(i, size)
<1> DEFINE length == ClaimedLength(ByteAt(i))
<1>1. length \in 1 .. 4
  BY DEF ClaimedLength
<1> DEFINE second == length > 1 => ByteAt(i + 1) \in SecondBytes(ByteAt(i))
           others == \A k \in 1 .. length - 1 : ByteAt(i + k) \in Continuations
<1>2. /\ utf8SequenceLength(i, end) = IF i + length <= end /\ second /\ others THEN length ELSE 1
      /\ utf8SequenceLength(i, size) = IF i + length <= size /\ second /\ others THEN length ELSE 1
  BY DEF utf8SequenceLength
<1>3. CASE i + length <= end
  BY <1>1, <1>2, <1>3
<1>4. CASE ~(i + length <= end)
  <2>1. CASE end = size
    BY <1>2, <2>1
  <2>2. CASE end < size
    <3>1. end - i \in 1 .. length - 1 /\ i + (end - i) = end
      BY <1>1, <1>4
    <3>2. ~others
      BY <3>1, <2>2
    <3> HIDE DEF others, second, length
    <3> QED BY <1>2, <1>4, <3>2
  <2> QED BY <2>1, <2>2
<1> QED
  BY <1>3, <1>4

\* Behind a character the next one begins, and nowhere in between.
LEMMA NextCharacter ==
  ASSUME source \in Seq(Bytes), NEW i \in Offsets, BeginsCharacter(i)
  PROVE  LET next == i + utf8SequenceLength(i, Size) IN
         /\ next \in i + 1 .. Size
         /\ BeginsCharacter(next)
         /\ \A j \in i + 1 .. next - 1 : ~BeginsCharacter(j) /\ ByteAt(j) \in Continuations
         /\ \A j \in i + 1 .. Size : BeginsCharacter(j) => next <= j
<1> DEFINE len == utf8SequenceLength(i, Size)
           next == i + len
<1>1. Size \in Nat /\ i \in Int /\ 0 <= i /\ i < Size
  BY Text
<1>2. /\ len \in 1 .. 4 /\ (len > 1 => i + len <= Size)
      /\ \A k \in 1 .. len - 1 : ByteAt(i + k) \in Continuations
  BY <1>1, SequenceLength
<1> HIDE DEF len
<1>3. next \in i + 1 .. Size
  BY <1>1, <1>2
<1>4. ASSUME NEW j \in i + 1 .. next - 1
      PROVE  ByteAt(j) \in Continuations
  <2>1. j - i \in 1 .. len - 1 /\ i + (j - i) = j
    BY <1>1, <1>2
  <2> HIDE DEF next
  <2> QED BY <2>1, <1>2
<1>5. ASSUME NEW j \in i + 1 .. Size, BeginsCharacter(j)
      PROVE  next <= j
  <2>1. i \in 0 .. j - 1
    BY <1>1
  <2> QED BY <2>1, <1>5 DEF BeginsCharacter, len
<1>6. \A j \in i + 1 .. next - 1 : ~BeginsCharacter(j)
  <2> SUFFICES ASSUME NEW j \in i + 1 .. next - 1, BeginsCharacter(j) PROVE FALSE
    OBVIOUS
  <2>1. j \in i + 1 .. Size /\ j < next
    BY <1>1, <1>3
  <2> QED BY <2>1, <1>5, <1>3
<1>7. BeginsCharacter(next)
  <2> SUFFICES ASSUME NEW j \in 0 .. next - 1
               PROVE  j + utf8SequenceLength(j, Size) <= next
    BY DEF BeginsCharacter
  <2>1. j \in Int
    BY <1>1, <1>3
  <2>2. utf8SequenceLength(j, Size) \in 1 .. 4
        /\ (ByteAt(j) \notin Leads => utf8SequenceLength(j, Size) = 1)
    BY <2>1, <1>1, SequenceLength
  <2>3. CASE j < i
    <3>1. j \in 0 .. i - 1
      BY <2>3, <2>1, <1>1
    <3>2. j + utf8SequenceLength(j, Size) <= i
      BY <3>1 DEF BeginsCharacter
    <3> QED BY <3>2, <2>1, <2>2, <1>1, <1>3
  <2>4. CASE j = i
    BY <2>4, <1>1, <1>2 DEF len
  <2>5. CASE j > i
    <3>1. j \in i + 1 .. next - 1
      BY <2>5, <2>1, <1>1, <1>3
    <3>2. ByteAt(j) \notin Leads
      BY <3>1, <1>4 DEF Continuations, Leads
    <3> QED BY <3>1, <3>2, <2>1, <2>2, <1>1, <1>3
  <2> QED BY <2>1, <1>1, <2>3, <2>4, <2>5
<1> QED
  BY <1>3, <1>4, <1>5, <1>6, <1>7 DEF len

\* LineBegins holds 0 and the offsets behind breaks, CRLF being one.
LEMMA LineBeginsAre ==
  ASSUME source \in Seq(Bytes)
  PROVE  /\ 0 \in LineBegins
         /\ LineBegins \subseteq 0 .. Size
         /\ \A j \in Offsets : j + 1 \in LineBegins <=>
              ByteAt(j) = "lf" \/ (ByteAt(j) = "cr" /\ ByteAt(j + 1) # "lf")
         /\ \A b \in LineBegins : b # 0 => b - 1 \in Offsets
<1>1. Size \in Nat /\ \A j : j \in Offsets <=> j \in Int /\ 0 <= j /\ j < Size
  BY Text
<1> DEFINE E == {j \in Offsets : ByteAt(j) = "lf" \/ (ByteAt(j) = "cr" /\ ByteAt(j + 1) # "lf")}
<1>2. LineBegins = {0} \cup {j + 1 : j \in E}
  BY DEF LineBegins
<1>3. \A j \in E : j \in Int /\ 0 <= j /\ j < Size
  BY <1>1
<1>4. \A j \in Offsets : j \in E <=>
        ByteAt(j) = "lf" \/ (ByteAt(j) = "cr" /\ ByteAt(j + 1) # "lf")
  OBVIOUS
<1>5. \A j \in E : j \in Offsets
  OBVIOUS
<1> HIDE DEF E
<1>6. LineBegins \subseteq 0 .. Size
  BY <1>1, <1>2, <1>3
<1>7. \A j \in Offsets : j + 1 \in LineBegins <=> j \in E
  <2> TAKE j \in Offsets
  <2>1. j \in Int /\ j + 1 # 0
    BY <1>1
  <2>2. \A k \in E : k + 1 = j + 1 => k = j
    BY <2>1, <1>3
  <2> QED BY <1>2, <2>1, <2>2
<1>8. \A b \in LineBegins : b # 0 => b - 1 \in Offsets
  <2> SUFFICES ASSUME NEW j \in E PROVE (j + 1) - 1 \in Offsets
    BY <1>2
  <2>1. (j + 1) - 1 = j
    BY <1>3
  <2> QED BY <2>1, <1>5
<1> QED
  BY <1>2, <1>4, <1>6, <1>7, <1>8

\* Lines are counted from 1, and one more where a line begins.
LEMMA LineCounts ==
  ASSUME source \in Seq(Bytes)
  PROVE  /\ \A i \in Int : IsFiniteSet({b \in LineBegins : b <= i}) /\ LineOf(i) \in Nat
         /\ LineOf(0) = 1
         /\ \A i \in Int : LineOf(i + 1) = IF i + 1 \in LineBegins THEN LineOf(i) + 1 ELSE LineOf(i)
<1> DEFINE Up(i) == {b \in LineBegins : b <= i}
<1>1. LineBegins \subseteq 0 .. Size /\ Size \in Nat /\ 0 \in LineBegins
  BY LineBeginsAre, Text
<1>2. \A i \in Int : IsFiniteSet(Up(i)) /\ LineOf(i) = Cardinality(Up(i)) /\ LineOf(i) \in Nat
  <2> TAKE i \in Int
  <2>1. IsFiniteSet(0 .. Size)
    BY <1>1, FS_Interval
  <2>2. IsFiniteSet(Up(i))
    BY <2>1, <1>1, FS_Subset
  <2> QED BY <2>2, FS_CardinalityType DEF LineOf
<1>3. LineOf(0) = 1
  <2>1. \A b \in LineBegins : b <= 0 <=> b = 0
    BY <1>1
  <2>2. Up(0) = {0}
    BY <2>1, <1>1
  <2>3. Cardinality({0}) = 1
    BY FS_Singleton
  <2> QED BY <2>2, <2>3, <1>2
<1>4. ASSUME NEW i \in Int
      PROVE  LineOf(i + 1) = IF i + 1 \in LineBegins THEN LineOf(i) + 1 ELSE LineOf(i)
  <2>1. i + 1 \in Int /\ i + 1 \notin Up(i)
    OBVIOUS
  <2>2. \A b \in LineBegins : b <= i + 1 <=> b <= i \/ b = i + 1
    BY <1>1
  <2>3. CASE i + 1 \in LineBegins
    <3>1. Up(i + 1) = Up(i) \cup {i + 1}
      BY <2>2, <2>3, <2>1
    <3>2. Cardinality(Up(i) \cup {i + 1}) = Cardinality(Up(i)) + 1
      <4>1. IsFiniteSet(Up(i))
        BY <1>2
      <4> HIDE DEF Up
      <4> QED BY <4>1, <2>1, FS_AddElement
    <3> QED BY <3>1, <3>2, <2>1, <2>3, <1>2
  <2>4. CASE i + 1 \notin LineBegins
    <3>1. Up(i + 1) = Up(i)
      BY <2>2, <2>4
    <3> QED BY <3>1, <2>1, <2>4, <1>2
  <2> QED BY <2>3, <2>4
<1> QED
  BY <1>2, <1>3, <1>4

\* The line of an offset begins at the last line begin up to it.
LEMMA LineBeginOf ==
  ASSUME source \in Seq(Bytes), NEW i \in Nat
  PROVE  /\ BeginOfLineOf(i) \in LineBegins
         /\ BeginOfLineOf(i) \in 0 .. i
         /\ \A b \in LineBegins : b <= i => b <= BeginOfLineOf(i)
<1> DEFINE Up == {b \in LineBegins : b <= i}
<1>1. LineBegins \subseteq 0 .. Size /\ Size \in Nat /\ 0 \in LineBegins
  BY LineBeginsAre, Text
<1>2. Up \subseteq 0 .. i /\ 0 \in Up
  <2>1. \A b \in LineBegins : b <= i => b \in 0 .. i
    BY <1>1
  <2>2. 0 <= i
    OBVIOUS
  <2>3. 0 \in Up
    BY <2>2, <1>1
  <2>4. Up \subseteq 0 .. i
    BY <2>1
  <2> QED BY <2>3, <2>4
<1>3. BeginOfLineOf(i) = Max(Up)
  BY DEF BeginOfLineOf
<1>4. \A b : b \in Up <=> b \in LineBegins /\ b <= i
  OBVIOUS
<1> HIDE DEF Up
<1>5. Max(Up) \in Up /\ \A m \in Up : m <= Max(Up)
  <2>1. 0 \in Int /\ i \in Int /\ Up # {}
    BY <1>2
  <2> QED BY <2>1, <1>2, MaxOfInterval
<1> QED
  BY <1>2, <1>3, <1>4, <1>5

\* Lines are numbered in the order of the text.
LEMMA LinesInOrder ==
  ASSUME source \in Seq(Bytes), NEW i \in Int, NEW j \in Int, i <= j
  PROVE  /\ LineOf(i) <= LineOf(j)
         /\ i < j /\ j \in LineBegins => LineOf(i) < LineOf(j)
         /\ (\A b \in LineBegins : b <= j => b <= i) => LineOf(i) = LineOf(j)
<1> DEFINE Up(k) == {b \in LineBegins : b <= k}
<1>1. \A b \in LineBegins : b \in Int
  BY LineBeginsAre, Text
<1>2. \A k \in Int : IsFiniteSet(Up(k)) /\ LineOf(k) = Cardinality(Up(k)) /\ LineOf(k) \in Nat
  BY LineCounts DEF LineOf
<1>3. Up(i) \subseteq Up(j)
  BY <1>1
<1>4. i < j /\ j \in LineBegins => Up(i) # Up(j)
  BY <1>1
<1>5. (\A b \in LineBegins : b <= j => b <= i) => Up(i) = Up(j)
  BY <1>3
<1> HIDE DEF Up
<1>6. Cardinality(Up(i)) <= Cardinality(Up(j))
      /\ (Cardinality(Up(i)) = Cardinality(Up(j)) => Up(i) = Up(j))
  BY <1>2, <1>3, FS_Subset
<1>7. /\ IsFiniteSet(Up(i)) /\ LineOf(i) = Cardinality(Up(i)) /\ LineOf(i) \in Nat
      /\ IsFiniteSet(Up(j)) /\ LineOf(j) = Cardinality(Up(j)) /\ LineOf(j) \in Nat
  BY <1>2
<1>8. LineOf(i) <= LineOf(j) /\ (LineOf(i) = LineOf(j) => Up(i) = Up(j))
  BY <1>6, <1>7
<1>9. Up(i) # Up(j) => LineOf(i) < LineOf(j)
  BY <1>7, <1>8
<1>10. Up(i) = Up(j) => LineOf(i) = LineOf(j)
  BY <1>7
<1> QED
  BY <1>4, <1>5, <1>8, <1>9, <1>10

\* A line begin with the number of an offset's line is the begin of that line.
LEMMA SameLine ==
  ASSUME source \in Seq(Bytes), NEW i \in Nat, NEW b \in LineBegins, LineOf(b) = LineOf(i)
  PROVE  b = BeginOfLineOf(i)
<1> DEFINE B == BeginOfLineOf(i)
<1>1. B \in LineBegins /\ B \in 0 .. i /\ \A c \in LineBegins : c <= i => c <= B
  BY LineBeginOf
<1>2. b \in Int
  BY LineBeginsAre, Text
<1>3. \A k \in Int : LineOf(k) \in Nat
  BY LineCounts
<1> HIDE DEF B
<1>4. LineOf(B) = LineOf(i)
  BY <1>1, LinesInOrder
<1>5. ~(b < B)
  BY <1>1, <1>2, <1>3, <1>4, LinesInOrder
<1>6. ~(B < b)
  BY <1>1, <1>2, <1>3, <1>4, LinesInOrder
<1> QED
  BY <1>1, <1>2, <1>5, <1>6 DEF B

\* A run ends at its first offset outside, which the end of the text is.
LEMMA RunEnds ==
  ASSUME source \in Seq(Bytes), NEW i \in Int, i <= Size, NEW run, run \subseteq Offsets
  PROVE  /\ EndOfRun(i, run) \in i .. Size
         /\ \A j \in i .. EndOfRun(i, run) - 1 : j \in run
         /\ EndOfRun(i, run) \notin run
         /\ i \in run => i < EndOfRun(i, run)
<1> DEFINE S == {j \in i .. Size : j \notin run}
<1>1. Size \in Nat /\ Size \notin run
  BY Text
<1>2. S \subseteq i .. Size /\ S # {} /\ EndOfRun(i, run) = Min(S)
  BY <1>1 DEF EndOfRun
<1>3. \A j : j \in S <=> j \in i .. Size /\ j \notin run
  OBVIOUS
<1> HIDE DEF S
<1>4. Min(S) \in S /\ \A j \in S : Min(S) <= j
  <2>1. Size \in Int
    BY <1>1
  <2> QED BY <1>2, <2>1, MinOfInterval
<1> DEFINE e == EndOfRun(i, run)
<1>5. e \in i .. Size /\ e \notin run
  BY <1>2, <1>3, <1>4
<1>6. ASSUME NEW j \in i .. e - 1
      PROVE  j \in run
  <2>1. j \in i .. Size /\ ~(e <= j)
    BY <1>1, <1>5
  <2> QED BY <2>1, <1>2, <1>3, <1>4
<1>7. i \in run => i < e
  BY <1>1, <1>5
<1> QED
  BY <1>5, <1>6, <1>7

\* A line ends at its break or with the text.
LEMMA LineEnds ==
  ASSUME source \in Seq(Bytes), NEW b \in Int, b <= Size, 0 <= b
  PROVE  /\ EndOfLine(b) \in b .. Size
         /\ \A j \in b .. EndOfLine(b) - 1 : j \in Offsets /\ ByteAt(j) \notin Breaks
         /\ EndOfLine(b) < Size => ByteAt(EndOfLine(b)) \in Breaks
<1> DEFINE run == Offsets \ Holding(Breaks)
<1>1. \A j : j \in run <=> j \in Offsets /\ ByteAt(j) \notin Breaks
  BY Text
<1>2. EndOfLine(b) = EndOfRun(b, run) /\ run \subseteq Offsets
  BY DEF EndOfLine
<1> HIDE DEF run
<1>3. /\ EndOfLine(b) \in b .. Size
      /\ \A j \in b .. EndOfLine(b) - 1 : j \in run
      /\ EndOfLine(b) \notin run
  BY <1>2, RunEnds
<1>4. EndOfLine(b) < Size => EndOfLine(b) \in Offsets
  BY <1>3, Text
<1> QED
  BY <1>1, <1>3, <1>4

\* The next line begins behind the break, if there is one.
LEMMA NextLine ==
  ASSUME source \in Seq(Bytes), NEW b \in LineBegins
  PROVE  /\ EndOfLine(b) < Size => /\ AfterBreak(EndOfLine(b)) \in LineBegins
                                  /\ LineOf(AfterBreak(EndOfLine(b))) = LineOf(b) + 1
         /\ EndOfLine(b) = Size => \A i \in 0 .. Size : LineOf(i) <= LineOf(b)
<1> DEFINE e == EndOfLine(b)
<1>1. b \in 0 .. Size /\ Size \in Nat /\ b \in Int
  BY LineBeginsAre, Text
<1>2. /\ e \in b .. Size
      /\ \A j \in b .. e - 1 : j \in Offsets /\ ByteAt(j) \notin Breaks
      /\ e < Size => ByteAt(e) \in Breaks
  BY <1>1, LineEnds
<1>3. /\ LineBegins \subseteq 0 .. Size
      /\ \A j \in Offsets : j + 1 \in LineBegins <=>
              ByteAt(j) = "lf" \/ (ByteAt(j) = "cr" /\ ByteAt(j + 1) # "lf")
  BY LineBeginsAre
<1>4. \A i \in Int : LineOf(i) \in Nat
          /\ LineOf(i + 1) = IF i + 1 \in LineBegins THEN LineOf(i) + 1 ELSE LineOf(i)
  BY LineCounts
<1>5. AfterBreak(e) = IF ByteAt(e) = "cr" /\ ByteAt(e + 1) = "lf" THEN e + 2 ELSE e + 1
  BY DEF AfterBreak
<1> HIDE DEF e
<1>6. \A c \in LineBegins : c <= e => c <= b
  <2> SUFFICES ASSUME NEW c \in LineBegins, c <= e, b < c PROVE FALSE
    BY <1>1, <1>3
  <2>1. c \in Int /\ c - 1 \in b .. e - 1 /\ (c - 1) + 1 = c
    BY <1>1, <1>2, <1>3
  <2>2. c - 1 \in Offsets /\ ByteAt(c - 1) \notin Breaks
    BY <2>1, <1>2
  <2> QED BY <2>1, <2>2, <1>3 DEF Breaks
<1>7. LineOf(e) = LineOf(b)
  <2>1. b <= e /\ e \in Int
    BY <1>1, <1>2
  <2> QED BY <2>1, <1>1, <1>6, LinesInOrder
<1>8. ASSUME e < Size
      PROVE  AfterBreak(e) \in LineBegins /\ LineOf(AfterBreak(e)) = LineOf(b) + 1
  <2>1. e \in Offsets /\ e \in Int /\ ByteAt(e) \in Breaks
    BY <1>8, <1>1, <1>2, Text
  <2>2. CASE ByteAt(e) = "cr" /\ ByteAt(e + 1) = "lf"
    <3>1. e + 1 \in Offsets /\ e + 1 \in Int /\ (e + 1) + 1 = e + 2
      BY <2>1, <2>2, Text
    <3>2. e + 1 \notin LineBegins /\ e + 2 \in LineBegins
      BY <2>1, <2>2, <3>1, <1>3
    <3>3. LineOf(e + 1) = LineOf(e)
      BY <2>1, <3>2, <1>4
    <3>4. LineOf(e + 2) = LineOf(e + 1) + 1
      BY <3>1, <3>2, <1>4
    <3> QED BY <2>2, <3>2, <3>3, <3>4, <1>5, <1>7
  <2>3. CASE ~(ByteAt(e) = "cr" /\ ByteAt(e + 1) = "lf")
    <3>1. e + 1 \in LineBegins
      BY <2>1, <2>3, <1>3 DEF Breaks
    <3>2. LineOf(e + 1) = LineOf(e) + 1
      BY <2>1, <3>1, <1>4
    <3> QED BY <2>3, <3>1, <3>2, <1>5, <1>7
  <2> QED BY <2>2, <2>3
<1>9. ASSUME e = Size, NEW i \in 0 .. Size
      PROVE  LineOf(i) <= LineOf(b)
  <2>1. LineOf(i) <= LineOf(e)
    BY <1>9, <1>1, LinesInOrder
  <2> QED BY <2>1, <1>7
<1> QED
  BY <1>8, <1>9 DEF e

\* Behind a break the text goes on or ends.
LEMMA LineBeginsBehindBreak ==
  ASSUME source \in Seq(Bytes), NEW e \in Offsets
  PROVE  AfterBreak(e) \in 1 .. Size
<1>1. Size \in Nat /\ e \in Int /\ 0 <= e /\ e < Size
  BY Text
<1>2. ByteAt(e + 1) = "lf" => e + 1 < Size
  BY <1>1, Text
<1> QED
  BY <1>1, <1>2 DEF AfterBreak

LineAt(b) == [begin |-> b, end |-> EndOfLine(b)]

\* The equations that sourceLineAt goes by.
LEMMA SourceLines ==
  ASSUME source \in Seq(Bytes), NEW line \in Nat \ {0}
  PROVE  \E at : /\ sourceLineAt(line) = at[line]
                 /\ at[1] = LineAt(0)
                 /\ \A n \in 2 .. line : at[n - 1].end \in Offsets =>
                      at[n] = LineAt(AfterBreak(at[n - 1].end))
<1> DEFINE G(f) == [n \in 1 .. line |->
                      IF n = 1 THEN [begin |-> 0, end |-> EndOfLine(0)]
                      ELSE IF f[n - 1].end \in Offsets
                        THEN LET next == AfterBreak(f[n - 1].end)
                             IN  [begin |-> next, end |-> EndOfLine(next)]
                        ELSE NoLine]
           at == CHOOSE f : f = G(f)
           S == [begin : Int, end : Int]
           after(r) == IF r.end \in Offsets THEN LineAt(AfterBreak(r.end)) ELSE NoLine
           step == [p \in Int \X S |-> after(p[2])]
<1>1. sourceLineAt(line) = at[line]
  BY DEF sourceLineAt
<1>2. ASSUME NEW b \in 0 .. Size
      PROVE  LineAt(b) \in S
  <2>1. b \in Int /\ EndOfLine(b) \in Int
    BY LineEnds, Text
  <2> QED BY <2>1 DEF LineAt
<1>3. LineAt(0) \in S
  BY <1>2, Text
<1>4. \A r \in S : after(r) \in S
  <2> TAKE r \in S
  <2>1. CASE r.end \in Offsets
    <3>1. AfterBreak(r.end) \in 0 .. Size
      BY <2>1, LineBeginsBehindBreak
    <3> QED BY <2>1, <3>1, <1>2
  <2>2. CASE r.end \notin Offsets
    BY <2>2 DEF NoLine
  <2> QED BY <2>1, <2>2
<1>5. step \in [Int \X S -> S]
  <2> HIDE DEF after, S
  <2> QED BY <1>4
<1>6. PICK f : Recurses(f, 1, line, S, LineAt(0), step)
  <2>1. 1 \in Int /\ line \in Int /\ 1 <= line
    OBVIOUS
  <2> HIDE DEF step, S
  <2> QED BY <2>1, <1>3, <1>5, RecursionExists
<1>7. /\ f \in [1 .. line -> S] /\ f[1] = LineAt(0)
      /\ \A i \in 1 + 1 .. line : f[i] = step[<<i, f[i - 1]>>]
  <2> HIDE DEF step, S
  <2> QED BY <1>6 DEF Recurses
<1>8. \A i \in 1 .. line : f[i] = IF i = 1 THEN LineAt(0) ELSE after(f[i - 1])
  <2> TAKE i \in 1 .. line
  <2>1. CASE i = 1
    BY <2>1, <1>7
  <2>2. CASE i # 1
    <3>1. i \in 1 + 1 .. line /\ i - 1 \in 1 .. line
      BY <2>2
    <3>2. f[i - 1] \in S
      BY <3>1, <1>7
    <3> HIDE DEF S, after
    <3>3. step[<<i, f[i - 1]>>] = after(f[i - 1])
      BY <3>1, <3>2
    <3> HIDE DEF step
    <3> QED BY <3>1, <3>3, <2>2, <1>7
  <2> QED BY <2>1, <2>2
<1>9. f = G(f)
  BY <1>8, <1>7 DEF LineAt
<1>10. at = G(at)
  <2> HIDE DEF G
  <2> QED BY <1>9
<1>11. at[1] = LineAt(0) /\ \A n \in 2 .. line : at[n - 1].end \in Offsets =>
                      at[n] = LineAt(AfterBreak(at[n - 1].end))
  <2> HIDE DEF at
  <2>1. \A n \in 1 .. line : at[n] = G(at)[n]
    <3> HIDE DEF G
    <3> QED BY <1>10
  <2>2. at[1] = LineAt(0)
    <3>0. 1 \in 1 .. line
      OBVIOUS
    <3>1. at[1] = G(at)[1]
      <4> HIDE DEF G
      <4> QED BY <3>0, <2>1
    <3> QED BY <3>1 DEF LineAt
  <2>3. ASSUME NEW n \in 2 .. line, at[n - 1].end \in Offsets
        PROVE  at[n] = LineAt(AfterBreak(at[n - 1].end))
    <3>1. n \in 1 .. line /\ n # 1
      OBVIOUS
    <3>2. at[n] = G(at)[n]
      BY <2>1, <3>1
    <3> QED BY <2>3, <3>1, <3>2 DEF LineAt
  <2> QED BY <2>2, <2>3
<1> QED
  BY <1>1, <1>11

\* The equations that the driver goes by.
LEMMA ShownLines ==
  ASSUME source \in Seq(Bytes), NEW line \in Nat \ {0}
  PROVE  \E begin : /\ ShownLine(line) = LineAt(begin[line])
                    /\ begin[1] = 0
                    /\ \A n \in 2 .. line :
                         EndOfLine(begin[n - 1]) \in Offsets =>
                           begin[n] = AfterBreak(EndOfLine(begin[n - 1]))
<1> DEFINE G(f) == [n \in 1 .. line |->
                      IF n = 1 THEN 0
                      ELSE IF EndOfLine(f[n - 1]) = Size THEN Size
                      ELSE AfterBreak(EndOfLine(f[n - 1]))]
           begin == CHOOSE f : f = G(f)
           S == 0 .. Size
           after(b) == IF EndOfLine(b) = Size THEN Size ELSE AfterBreak(EndOfLine(b))
           step == [p \in Int \X S |-> after(p[2])]
<1>1. ShownLine(line) = LineAt(begin[line])
  BY DEF ShownLine, LineAt
<1>2. \A b \in S : after(b) \in S
  <2> TAKE b \in S
  <2>1. CASE EndOfLine(b) = Size
    BY <2>1, Text
  <2>2. CASE EndOfLine(b) # Size
    <3>0. Size \in Nat /\ b \in Int /\ 0 <= b /\ b <= Size
      BY Text
    <3>1. EndOfLine(b) \in Offsets
      <4>1. EndOfLine(b) \in b .. Size
        BY <3>0, LineEnds
      <4>2. EndOfLine(b) \in Int /\ 0 <= EndOfLine(b) /\ EndOfLine(b) < Size
        BY <2>2, <3>0, <4>1
      <4> QED BY <4>2, Text
    <3>2. AfterBreak(EndOfLine(b)) \in S
      BY <3>1, LineBeginsBehindBreak
    <3> QED BY <2>2, <3>2
  <2> QED BY <2>1, <2>2
<1>3. 0 \in S /\ step \in [Int \X S -> S]
  <2>1. 0 \in S
    BY Text
  <2> HIDE DEF after, S
  <2> QED BY <1>2, <2>1
<1>4. PICK f : Recurses(f, 1, line, S, 0, step)
  <2>1. 1 \in Int /\ line \in Int /\ 1 <= line
    OBVIOUS
  <2> HIDE DEF step, S
  <2> QED BY <2>1, <1>3, RecursionExists
<1>5. /\ f \in [1 .. line -> S] /\ f[1] = 0
      /\ \A i \in 1 + 1 .. line : f[i] = step[<<i, f[i - 1]>>]
  <2> HIDE DEF step, S
  <2> QED BY <1>4 DEF Recurses
<1>6. \A i \in 1 .. line : f[i] = IF i = 1 THEN 0 ELSE after(f[i - 1])
  <2> TAKE i \in 1 .. line
  <2>1. CASE i = 1
    BY <2>1, <1>5
  <2>2. CASE i # 1
    <3>1. i \in 1 + 1 .. line /\ i - 1 \in 1 .. line
      BY <2>2
    <3>2. f[i - 1] \in S
      BY <3>1, <1>5
    <3> HIDE DEF S, after
    <3>3. step[<<i, f[i - 1]>>] = after(f[i - 1])
      BY <3>1, <3>2
    <3> HIDE DEF step
    <3> QED BY <3>1, <3>3, <2>2, <1>5
  <2> QED BY <2>1, <2>2
<1>7. f = G(f)
  BY <1>6, <1>5
<1>8. begin = G(begin)
  <2> HIDE DEF G
  <2> QED BY <1>7
<1>9. begin[1] = 0 /\ \A n \in 2 .. line :
                         EndOfLine(begin[n - 1]) \in Offsets =>
                           begin[n] = AfterBreak(EndOfLine(begin[n - 1]))
  <2> HIDE DEF begin
  <2>1. \A n \in 1 .. line : begin[n] = G(begin)[n]
    <3> HIDE DEF G
    <3> QED BY <1>8
  <2>2. Size \notin Offsets
    BY Text
  <2> QED BY <2>1, <2>2
<1> QED
  BY <1>1, <1>9

\* Both find the line of the text that has a number.
LEMMA LinesFound ==
  ASSUME source \in Seq(Bytes), NEW i \in 0 .. Size
  PROVE  /\ sourceLineAt(LineOf(i)) = LineAt(BeginOfLineOf(i))
         /\ ShownLine(LineOf(i)) = LineAt(BeginOfLineOf(i))
<1> DEFINE line == LineOf(i)
<1>1. /\ \A j \in Int : LineOf(j) \in Nat
      /\ LineOf(0) = 1 /\ 0 \in LineBegins /\ LineBegins \subseteq 0 .. Size
      /\ i \in Nat /\ Size \in Nat
  <2>1. Size \in Nat
    BY Text
  <2>2. i \in Nat
    BY <2>1
  <2>3. \A j \in Int : LineOf(j) \in Nat
    BY LineCounts
  <2>4. LineOf(0) = 1 /\ 0 \in LineBegins /\ LineBegins \subseteq 0 .. Size
    BY LineCounts, LineBeginsAre
  <2> QED BY <2>1, <2>2, <2>3, <2>4
<1>2. line \in Nat \ {0}
  <2>1. LineOf(0) <= LineOf(i)
    BY <1>1, LinesInOrder
  <2> QED BY <2>1, <1>1
<1> HIDE DEF line
<1>3. \* One line further, as long as there is one.
      ASSUME NEW b \in LineBegins, NEW n \in 1 .. line - 1, LineOf(b) = n
      PROVE  /\ EndOfLine(b) \in Offsets
             /\ AfterBreak(EndOfLine(b)) \in LineBegins
             /\ LineOf(AfterBreak(EndOfLine(b))) = n + 1
  <2>0. b \in 0 .. Size /\ b \in Int /\ 0 <= b /\ b <= Size
    BY <1>1
  <2>1. EndOfLine(b) \in b .. Size
    BY <2>0, LineEnds
  <2>2. EndOfLine(b) # Size
    <3>1. n < line
      BY <1>2
    <3> QED BY <3>1, <1>3, <1>1, <1>2, NextLine DEF line
  <2>3. EndOfLine(b) < Size /\ EndOfLine(b) \in Int /\ 0 <= EndOfLine(b)
    <3>1. Size \in Nat
      BY Text
    <3> QED BY <3>1, <2>0, <2>1, <2>2
  <2> QED BY <2>3, <1>3, NextLine, Text
<1>4. \A b \in LineBegins : LineOf(b) = line => b = BeginOfLineOf(i)
  BY <1>1, SameLine DEF line
<1>5. sourceLineAt(line) = LineAt(BeginOfLineOf(i))
  <2>1. PICK at : /\ sourceLineAt(line) = at[line]
                 /\ at[1] = LineAt(0)
                 /\ \A n \in 2 .. line : at[n - 1].end \in Offsets =>
                      at[n] = LineAt(AfterBreak(at[n - 1].end))
    BY <1>2, SourceLines
  <2> DEFINE T == {n \in 1 .. line : \E b \in LineBegins : at[n] = LineAt(b) /\ LineOf(b) = n}
  <2>2. 1 \in T
    BY <1>1, <1>2, <2>1
  <2>3. ASSUME NEW n \in 1 .. line - 1, n \in T
        PROVE  n + 1 \in T
    <3>1. PICK b \in LineBegins : at[n] = LineAt(b) /\ LineOf(b) = n
      BY <2>3
    <3>2. at[n].end = EndOfLine(b)
      BY <3>1 DEF LineAt
    <3>3. n + 1 \in 2 .. line /\ n + 1 \in 1 .. line /\ (n + 1) - 1 = n
      BY <1>2
    <3>4. EndOfLine(b) \in Offsets => at[n + 1] = LineAt(AfterBreak(EndOfLine(b)))
      BY <3>2, <3>3, <2>1
    <3> QED BY <3>1, <3>3, <3>4, <1>3
  <2> HIDE DEF T
  <2>4. 1 .. line \subseteq T
    <3>1. 1 \in Int /\ line \in Int
      BY <1>2
    <3> QED BY <3>1, <2>2, <2>3, IntervalInduction
  <2>5. line \in T
    BY <2>4, <1>2
  <2> QED BY <2>1, <2>5, <1>4 DEF T
<1>6. ShownLine(line) = LineAt(BeginOfLineOf(i))
  <2>1. PICK begin : /\ ShownLine(line) = LineAt(begin[line])
                    /\ begin[1] = 0
                    /\ \A n \in 2 .. line :
                         EndOfLine(begin[n - 1]) \in Offsets =>
                           begin[n] = AfterBreak(EndOfLine(begin[n - 1]))
    BY <1>2, ShownLines
  <2> DEFINE T == {n \in 1 .. line : begin[n] \in LineBegins /\ LineOf(begin[n]) = n}
  <2>2. 1 \in T
    BY <1>1, <1>2, <2>1
  <2>3. ASSUME NEW n \in 1 .. line - 1, n \in T
        PROVE  n + 1 \in T
    <3>3. n + 1 \in 2 .. line /\ n + 1 \in 1 .. line /\ (n + 1) - 1 = n
      BY <1>2
    <3>4. EndOfLine(begin[n]) \in Offsets => begin[n + 1] = AfterBreak(EndOfLine(begin[n]))
      BY <3>3, <2>1
    <3> QED BY <2>3, <3>3, <3>4, <1>3
  <2> HIDE DEF T
  <2>4. 1 .. line \subseteq T
    <3>1. 1 \in Int /\ line \in Int
      BY <1>2
    <3> QED BY <3>1, <2>2, <2>3, IntervalInduction
  <2>5. line \in T
    BY <2>4, <1>2
  <2> QED BY <2>1, <2>5, <1>4 DEF T
<1> QED
  BY <1>5, <1>6 DEF line

\* A byte that continues no sequence begins a character; behind one that is no
\* part of a longer sequence another begins.
LEMMA BeginsAtPlain ==
  ASSUME source \in Seq(Bytes), NEW i \in Nat, ByteAt(i) \notin Continuations
  PROVE  /\ BeginsCharacter(i)
         /\ ByteAt(i) \notin Leads => BeginsCharacter(i + 1)
<1>1. Size \in Nat
  BY Text
<1>2. ASSUME NEW j \in 0 .. i - 1
      PROVE  j + utf8SequenceLength(j, Size) <= i
  <2> DEFINE len == utf8SequenceLength(j, Size)
  <2>1. len \in 1 .. 4 /\ \A k \in 1 .. len - 1 : ByteAt(j + k) \in Continuations
    BY <1>1, SequenceLength
  <2> HIDE DEF len
  <2>2. i - j \notin 1 .. len - 1
    <3>1. j + (i - j) = i
      OBVIOUS
    <3> QED BY <3>1, <2>1
  <2>3. j + len <= i
    BY <2>1, <2>2
  <2> QED BY <2>3 DEF len
<1>3. BeginsCharacter(i)
  BY <1>2 DEF BeginsCharacter
<1>4. ASSUME ByteAt(i) \notin Leads
      PROVE  BeginsCharacter(i + 1)
  <2> SUFFICES ASSUME NEW j \in 0 .. (i + 1) - 1
               PROVE  j + utf8SequenceLength(j, Size) <= i + 1
    BY DEF BeginsCharacter
  <2>1. utf8SequenceLength(j, Size) \in 1 .. 4
        /\ (ByteAt(j) \notin Leads => utf8SequenceLength(j, Size) = 1)
    BY <1>1, SequenceLength
  <2>2. CASE j = i
    BY <2>1, <2>2, <1>4
  <2>3. CASE j # i
    <3>1. j \in 0 .. i - 1
      BY <2>3
    <3>2. j + utf8SequenceLength(j, Size) <= i
      BY <3>1, <1>2
    <3> QED BY <3>2, <2>1
  <2> QED BY <2>2, <2>3
<1> QED
  BY <1>3, <1>4

\* A line begins with a character.
LEMMA LinesBeginCharacters ==
  ASSUME source \in Seq(Bytes), NEW b \in LineBegins
  PROVE  BeginsCharacter(b)
<1>1. CASE b = 0
  BY <1>1 DEF BeginsCharacter
<1>2. CASE b # 0
  <2>1. b - 1 \in Offsets /\ b \in Int /\ (b - 1) + 1 = b
    BY <1>2, LineBeginsAre, Text
  <2>2. ByteAt(b - 1) \in Breaks
    BY <2>1, LineBeginsAre DEF Breaks
  <2>3. b - 1 \in Nat
    BY <2>1, Text
  <2>4. BeginsCharacter((b - 1) + 1)
    BY <2>2, <2>3, BeginsAtPlain DEF Breaks, Continuations, Leads
  <2> QED BY <2>1, <2>4
<1> QED
  BY <1>1, <1>2

\* The characters that begin from b up to i.
Characters(b, i) == Cardinality({j \in b .. i - 1 : BeginsCharacter(j)})

\* The count goes up at the beginning of a character.
LEMMA CharacterCounts ==
  ASSUME NEW b \in Int
  PROVE  /\ Characters(b, b) = 0
         /\ \A i \in Int : b <= i => Characters(b, i) \in Nat
         /\ \A i \in Int : b <= i =>
              Characters(b, i + 1) = IF BeginsCharacter(i) THEN Characters(b, i) + 1
                                                           ELSE Characters(b, i)
<1> DEFINE Among(i) == {j \in b .. i - 1 : BeginsCharacter(j)}
<1>1. \A i \in Int : IsFiniteSet(Among(i)) /\ Characters(b, i) = Cardinality(Among(i))
                       /\ Characters(b, i) \in Nat
  <2> TAKE i \in Int
  <2>1. IsFiniteSet(b .. i - 1)
    BY FS_Interval
  <2>2. IsFiniteSet(Among(i))
    BY <2>1, FS_Subset
  <2> QED BY <2>2, FS_CardinalityType DEF Characters
<1>2. Characters(b, b) = 0
  <2>1. Among(b) = {}
    OBVIOUS
  <2> QED BY <2>1, <1>1, FS_EmptySet
<1>3. ASSUME NEW i \in Int, b <= i
      PROVE  Characters(b, i + 1) = IF BeginsCharacter(i) THEN Characters(b, i) + 1
                                                          ELSE Characters(b, i)
  <2>1. \A j : j \in b .. (i + 1) - 1 <=> j \in b .. i - 1 \/ j = i
    BY <1>3
  <2>2. i + 1 \in Int /\ i \notin Among(i)
    OBVIOUS
  <2>3. CASE BeginsCharacter(i)
    <3>1. Among(i + 1) = Among(i) \cup {i}
      BY <2>1, <2>3
    <3>2. Cardinality(Among(i) \cup {i}) = Cardinality(Among(i)) + 1
      <4>1. IsFiniteSet(Among(i))
        BY <1>1
      <4> HIDE DEF Among
      <4> QED BY <4>1, <2>2, FS_AddElement
    <3> QED BY <3>1, <3>2, <2>2, <2>3, <1>1
  <2>4. CASE ~BeginsCharacter(i)
    <3>1. Among(i + 1) = Among(i)
      BY <2>1, <2>4
    <3> QED BY <3>1, <2>2, <2>4, <1>1
  <2> QED BY <2>3, <2>4
<1> QED
  BY <1>1, <1>2, <1>3

\* It never goes down.
LEMMA CharactersGrow ==
  ASSUME NEW b \in Int, NEW i \in Int, NEW j \in Int, b <= i, i <= j
  PROVE  Characters(b, i) <= Characters(b, j)
<1> DEFINE T == {k \in i .. j : Characters(b, i) <= Characters(b, k)}
<1>1. \A k \in i .. j : Characters(b, k) \in Nat
                     /\ Characters(b, k + 1) >= Characters(b, k)
  <2> TAKE k \in i .. j
  <2>1. k \in Int /\ b <= k
    OBVIOUS
  <2>2. Characters(b, k) \in Nat
    BY <2>1, CharacterCounts
  <2>3. Characters(b, k + 1) = IF BeginsCharacter(k) THEN Characters(b, k) + 1
                                                     ELSE Characters(b, k)
    BY <2>1, CharacterCounts
  <2> QED BY <2>2, <2>3
<1>2. i \in T
  <2>1. i \in i .. j
    OBVIOUS
  <2> QED BY <2>1, <1>1
<1>3. \A k \in i .. j - 1 : k \in T => k + 1 \in T
  <2> TAKE k \in i .. j - 1
  <2>1. k \in i .. j /\ k + 1 \in i .. j /\ i \in i .. j
    OBVIOUS
  <2> QED BY <2>1, <1>1
<1> HIDE DEF T
<1>4. i .. j \subseteq T
  BY <1>2, <1>3, IntervalInduction
<1>5. j \in T
  BY <1>4
<1> QED
  BY <1>5 DEF T

\* A character further, the count is one more.
LEMMA CharacterFurther ==
  ASSUME source \in Seq(Bytes), NEW b \in Nat, NEW i \in Offsets, b <= i, BeginsCharacter(i)
  PROVE  Characters(b, i + utf8SequenceLength(i, Size)) = Characters(b, i) + 1
<1> DEFINE next == i + utf8SequenceLength(i, Size)
           T == {k \in i + 1 .. next : Characters(b, k) = Characters(b, i) + 1}
<1>1. i \in Int /\ next \in i + 1 .. Size /\ Size \in Nat
      /\ \A j \in i + 1 .. next - 1 : ~BeginsCharacter(j)
  BY NextCharacter, Text
<1> HIDE DEF next
<1>2. i + 1 \in T
  BY <1>1, CharacterCounts
<1>3. ASSUME NEW k \in i + 1 .. next - 1, k \in T
      PROVE  k + 1 \in T
  <2>1. k \in Int /\ b <= k /\ ~BeginsCharacter(k) /\ k + 1 \in i + 1 .. next
    BY <1>1
  <2>2. Characters(b, k + 1) = Characters(b, k)
    BY <2>1, CharacterCounts
  <2> QED BY <2>1, <2>2, <1>3
<1> HIDE DEF T
<1>4. i + 1 .. next \subseteq T
  BY <1>1, <1>2, <1>3, IntervalInduction
<1>5. next \in T
  BY <1>1, <1>4
<1> QED
  BY <1>5 DEF T, next

\* The terminal's column behind a byte.
Advance(column, i) ==
  IF ByteAt(i) = "tab" THEN TabStop(column)
  ELSE IF BeginsCharacter(i) THEN column + 1 ELSE column

\* The terminal's column is a number.
LEMMA Advances == ASSUME NEW column \in Int, NEW i PROVE Advance(column, i) \in Int
<1>1. TabStop(column) \in Int
  BY DEF TabStop
<1> QED
  BY <1>1 DEF Advance

\* The equations of TerminalColumnOf.
LEMMA TerminalColumns ==
  ASSUME source \in Seq(Bytes), NEW i \in 0 .. Size
  PROVE  LET b == BeginOfLineOf(i) IN
         \E column : /\ TerminalColumnOf(i) = column[i]
                     /\ column[b] = 2
                     /\ \A j \in b + 1 .. i : column[j] = Advance(column[j - 1], j - 1)
                     /\ \A j \in b .. i : column[j] \in Int
<1> DEFINE b == BeginOfLineOf(i)
           G(f) == [j \in b .. i |->
                      IF j = b THEN 2
                      ELSE IF ByteAt(j - 1) = "tab" THEN TabStop(f[j - 1])
                      ELSE IF BeginsCharacter(j - 1) THEN f[j - 1] + 1
                      ELSE f[j - 1]]
           column == CHOOSE f : f = G(f)
           step == [p \in Int \X Int |-> Advance(p[2], p[1] - 1)]
<1>1. TerminalColumnOf(i) = column[i]
  BY DEF TerminalColumnOf
<1>2. b \in Int /\ i \in Int /\ b <= i /\ i \in Nat
  <2>1. i \in Nat /\ Size \in Nat
    BY Text
  <2>2. b \in 0 .. i
    BY <2>1, LineBeginOf
  <2> HIDE DEF b
  <2> QED BY <2>1, <2>2
<1> HIDE DEF b
<1>3. step \in [Int \X Int -> Int]
  BY Advances
<1>4. PICK f : Recurses(f, b, i, Int, 2, step)
  <2>1. 2 \in Int
    OBVIOUS
  <2> HIDE DEF step
  <2> QED BY <2>1, <1>2, <1>3, RecursionExists
<1>5. /\ f \in [b .. i -> Int] /\ f[b] = 2
      /\ \A j \in b + 1 .. i : f[j] = step[<<j, f[j - 1]>>]
  <2> HIDE DEF step
  <2> QED BY <1>4 DEF Recurses
<1>6. \A j \in b + 1 .. i : f[j] = Advance(f[j - 1], j - 1)
  <2> TAKE j \in b + 1 .. i
  <2>1. j \in Int /\ j - 1 \in b .. i
    BY <1>2
  <2>2. f[j - 1] \in Int
    BY <2>1, <1>5
  <2>3. step[<<j, f[j - 1]>>] = Advance(f[j - 1], j - 1)
    BY <2>1, <2>2
  <2> HIDE DEF step
  <2> QED BY <2>3, <1>5
<1>7. f = G(f)
  <2>1. \A j \in b .. i : j # b => j \in b + 1 .. i
    BY <1>2
  <2>2. \A j \in b .. i : f[j] = G(f)[j]
    BY <2>1, <1>5, <1>6 DEF Advance
  <2> QED BY <2>2, <1>5
<1>8. column = G(column)
  <2> HIDE DEF G
  <2> QED BY <1>7
<1>9. \A j \in b .. i : column[j] = G(column)[j]
  <2> HIDE DEF G, column
  <2> QED BY <1>8
<1>10. column[b] = 2
  <2>1. b \in b .. i
    BY <1>2
  <2>2. column[b] = G(column)[b]
    <3> HIDE DEF G, column
    <3> QED BY <2>1, <1>9
  <2> HIDE DEF column
  <2> QED BY <2>1, <2>2
<1>11. ASSUME NEW j \in b + 1 .. i
       PROVE  column[j] = Advance(column[j - 1], j - 1)
  <2>1. j \in b .. i /\ j # b
    BY <1>2
  <2>2. column[j] = G(column)[j]
    <3> HIDE DEF G, column
    <3> QED BY <2>1, <1>9
  <2> HIDE DEF column
  <2> QED BY <2>1, <2>2 DEF Advance
<1> DEFINE T == {j \in b .. i : column[j] \in Int}
<1> HIDE DEF column
<1>12. b .. i \subseteq T
  <2>1. b \in T
    BY <1>2, <1>10
  <2>2. ASSUME NEW j \in b .. i - 1, column[j] \in Int
        PROVE  j + 1 \in T
    <3>1. j + 1 \in b + 1 .. i /\ (j + 1) - 1 = j /\ j + 1 \in b .. i
      BY <1>2
    <3>2. column[j + 1] = Advance(column[j], j)
      BY <3>1, <1>11
    <3>3. Advance(column[j], j) \in Int
      BY <2>2, Advances
    <3> QED BY <3>1, <3>2, <3>3
  <2>3. \A j \in b .. i - 1 : j \in T => j + 1 \in T
    BY <2>2
  <2> HIDE DEF T
  <2> QED BY <1>2, <2>1, <2>3, IntervalInduction
<1>13. \A j \in b .. i : column[j] \in Int
  BY <1>12
<1> QED
  BY <1>1, <1>10, <1>11, <1>13 DEF b

\* The terminal's column behind a character, which is that of its first byte
\* with a column or a tab's worth more.
LEMMA ColumnsOfCharacter ==
  ASSUME source \in Seq(Bytes), NEW b \in Nat, NEW at \in 0 .. Size, b <= at,
         BeginsCharacter(at), NEW column,
         \A j \in b + 1 .. at : column[j] = Advance(column[j - 1], j - 1),
         NEW i \in b .. at - 1, BeginsCharacter(i)
  PROVE  LET next == i + utf8SequenceLength(i, Size) IN
         next \in b .. at /\ column[next] = Advance(column[i], i)
<1> DEFINE next == i + utf8SequenceLength(i, Size)
           T == {j \in i + 1 .. next : column[j] = Advance(column[i], i)}
<1>1. i \in Offsets /\ i \in Int /\ Size \in Nat /\ at \in Int /\ i < at /\ b <= i
  <2>1. Size \in Nat
    BY Text
  <2>2. i \in Int /\ at \in Int /\ i < at /\ b <= i /\ 0 <= i /\ i < Size
    BY <2>1
  <2> QED BY <2>1, <2>2, Text
<1>2. /\ next \in i + 1 .. Size
      /\ \A j \in i + 1 .. next - 1 : ~BeginsCharacter(j) /\ ByteAt(j) \in Continuations
      /\ \A j \in i + 1 .. Size : BeginsCharacter(j) => next <= j
  BY <1>1, NextCharacter
<1>3. next <= at
  <2>1. at \in i + 1 .. Size
    BY <1>1
  <2> HIDE DEF next
  <2> QED BY <2>1, <1>2
<1> HIDE DEF next
<1>4. i + 1 \in T
  <2>1. i + 1 \in b + 1 .. at /\ (i + 1) - 1 = i /\ i + 1 \in i + 1 .. next
    BY <1>1, <1>2
  <2> QED BY <2>1
<1>5. ASSUME NEW j \in i + 1 .. next - 1, j \in T
      PROVE  j + 1 \in T
  <2>1. j + 1 \in b + 1 .. at /\ (j + 1) - 1 = j /\ j + 1 \in i + 1 .. next
    BY <1>1, <1>2, <1>3
  <2>2. column[j + 1] = Advance(column[j], j)
    BY <2>1
  <2>3. Advance(column[j], j) = column[j]
    BY <1>2 DEF Advance, Continuations
  <2> QED BY <2>1, <2>2, <2>3, <1>5
<1> HIDE DEF T
<1>6. i + 1 .. next \subseteq T
  <2>1. i + 1 \in Int /\ next \in Int
    BY <1>1, <1>2
  <2> QED BY <2>1, <1>4, <1>5, IntervalInduction
<1>7. next \in T
  BY <1>1, <1>2, <1>6
<1> QED
  BY <1>1, <1>2, <1>3, <1>7 DEF T, next

\* The driver's caret, a character further.
Further(c, end) ==
  IF c.at >= end THEN c
  ELSE IF ByteAt(c.at) = "tab" THEN [at |-> c.at + 1, column |-> TabStop(c.column)]
  ELSE [at |-> c.at + utf8SequenceLength(c.at, end), column |-> c.column + 1]

CaretMoves(after, count, b, end) ==
  /\ after[0] = [at |-> b, column |-> 2]
  /\ \A n \in 1 .. count : after[n] = Further(after[n - 1], end)

\* The equations of the driver's caret.
LEMMA CaretWalk ==
  ASSUME NEW line, NEW column \in Nat \ {0}, NEW b \in Int, NEW end \in Int,
         ShownLine(line) = LineAt(b), end = EndOfLine(b)
  PROVE  \E after : Caret(line, column) = after[column - 1]
                    /\ CaretMoves(after, column - 1, b, end)
<1> DEFINE shown == ShownLine(line)
           G(f) == [n \in 0 .. column - 1 |->
                      LET at == f[n - 1].at IN
                      IF n = 0 THEN [at |-> shown.begin, column |-> 2]
                      ELSE IF at >= shown.end THEN f[n - 1]
                      ELSE IF ByteAt(at) = "tab"
                        THEN [at |-> at + 1, column |-> TabStop(f[n - 1].column)]
                        ELSE [at |-> at + utf8SequenceLength(at, shown.end),
                              column |-> f[n - 1].column + 1]]
           after == CHOOSE f : f = G(f)
           S == [at : Int, column : Int]
           first == [at |-> b, column |-> 2]
           step == [p \in Int \X S |-> Further(p[2], end)]
<1>1. Caret(line, column) = after[column - 1]
  BY DEF Caret
<1>2. \A c \in S : Further(c, end) \in S
  <2> TAKE c \in S
  <2>1. c.at \in Int /\ c.column \in Int
    OBVIOUS
  <2>2. utf8SequenceLength(c.at, end) \in Int /\ TabStop(c.column) \in Int
    <3>1. utf8SequenceLength(c.at, end) \in 1 .. 4
      BY <2>1, SequenceLength
    <3>2. TabStop(c.column) \in Int
      BY <2>1 DEF TabStop
    <3> QED BY <3>1, <3>2
  <2> QED BY <2>1, <2>2 DEF Further
<1>3. step \in [Int \X S -> S] /\ first \in S
  <2>1. first \in S
    OBVIOUS
  <2> HIDE DEF S
  <2> QED BY <1>2, <2>1
<1>4. PICK f : Recurses(f, 0, column - 1, S, first, step)
  <2>1. 0 \in Int /\ column - 1 \in Int /\ 0 <= column - 1
    OBVIOUS
  <2> HIDE DEF step, S, first
  <2> QED BY <2>1, <1>3, RecursionExists
<1>5. /\ f \in [0 .. column - 1 -> S] /\ f[0] = first
      /\ \A n \in 0 + 1 .. column - 1 : f[n] = step[<<n, f[n - 1]>>]
  <2> HIDE DEF step, S, first
  <2> QED BY <1>4 DEF Recurses
<1>6. \A n \in 0 + 1 .. column - 1 : f[n] = Further(f[n - 1], end)
  <2> TAKE n \in 0 + 1 .. column - 1
  <2>1. n \in Int /\ n - 1 \in 0 .. column - 1
    OBVIOUS
  <2>2. f[n - 1] \in S
    BY <2>1, <1>5
  <2>3. step[<<n, f[n - 1]>>] = Further(f[n - 1], end)
    <3> HIDE DEF S
    <3> QED BY <2>1, <2>2
  <2> HIDE DEF step, S
  <2> QED BY <2>3, <1>5
<1>7. shown.begin = b /\ shown.end = end
  BY DEF LineAt
<1> HIDE DEF shown
<1>8. \A g : \A n \in 0 .. column - 1 :
        G(g)[n] = IF n = 0 THEN first ELSE Further(g[n - 1], end)
  BY <1>7 DEF Further
<1>9. f = G(f)
  <2>1. \A n \in 0 .. column - 1 : n # 0 => n \in 0 + 1 .. column - 1
    OBVIOUS
  <2>2. \A n \in 0 .. column - 1 : f[n] = G(f)[n]
    <3> HIDE DEF G, first
    <3> QED BY <2>1, <1>5, <1>6, <1>8
  <2>3. G(f) = [n \in 0 .. column - 1 |-> G(f)[n]]
    OBVIOUS
  <2>4. f = [n \in 0 .. column - 1 |-> f[n]]
    <3> HIDE DEF S
    <3> QED BY <1>5
  <2> HIDE DEF G
  <2> QED BY <2>2, <2>3, <2>4
<1>10. after = G(after)
  <2> HIDE DEF G
  <2> QED BY <1>9
<1>11. after[0] = first /\ \A n \in 0 + 1 .. column - 1 : after[n] = Further(after[n - 1], end)
  <2> HIDE DEF G, after, first
  <2>1. 0 \in 0 .. column - 1 /\ \A n \in 0 + 1 .. column - 1 : n \in 0 .. column - 1 /\ n # 0
    OBVIOUS
  <2> QED BY <2>1, <1>8, <1>10
<1>12. CaretMoves(after, column - 1, b, end)
  <2> HIDE DEF after
  <2> QED BY <1>11 DEF CaretMoves
<1> QED
  BY <1>1, <1>12

\* Below the first byte of a character of a line.
LEMMA CaretFound ==
  ASSUME source \in Seq(Bytes), NEW at \in 0 .. Size, BeginsCharacter(at),
         ~(ByteAt(at) = "lf" /\ at > 0 /\ ByteAt(at - 1) = "cr")
  PROVE  Caret(LineOf(at), ColumnOf(at)) = [at |-> at, column |-> TerminalColumnOf(at)]
<1> DEFINE b == BeginOfLineOf(at)
           end == EndOfLine(b)
           count == Characters(b, at)
<1>1. Size \in Nat /\ at \in Nat /\ at <= Size
  <2>1. Size \in Nat
    BY Text
  <2> QED BY <2>1
<1>2. b \in LineBegins /\ b \in 0 .. at /\ \A c \in LineBegins : c <= at => c <= b
  BY <1>1, LineBeginOf
<1>3. ShownLine(LineOf(at)) = LineAt(b)
  BY LinesFound
<1>4. ColumnOf(at) = count + 1
  <2>1. count \in Nat
    BY <1>1, <1>2, CharacterCounts
  <2>2. ColumnOf(at) = 1 + count
    BY DEF ColumnOf, Characters
  <2> HIDE DEF count
  <2> QED BY <2>1, <2>2
<1>5. PICK column : /\ TerminalColumnOf(at) = column[at]
                    /\ column[b] = 2
                    /\ \A j \in b + 1 .. at : column[j] = Advance(column[j - 1], j - 1)
                    /\ \A j \in b .. at : column[j] \in Int
  BY TerminalColumns
<1> HIDE DEF b
<1>6. /\ b \in Int /\ 0 <= b /\ b <= at /\ b <= Size
      /\ count \in Nat
  BY <1>1, <1>2, CharacterCounts
<1>7. /\ end \in b .. Size
      /\ \A j \in b .. end - 1 : j \in Offsets /\ ByteAt(j) \notin Breaks
      /\ end < Size => ByteAt(end) \in Breaks
  BY <1>6, LineEnds
<1> HIDE DEF end
<1>8. at <= end
  <2> SUFFICES ASSUME end < at PROVE FALSE
    BY <1>1, <1>6, <1>7
  <2>1. end \in Offsets /\ ByteAt(end) \in Breaks /\ end \in Int
    <3>1. end \in Int /\ 0 <= end /\ end < Size
      BY <1>1, <1>6, <1>7
    <3> QED BY <3>1, <1>7, Text
  <2>2. end + 1 \notin LineBegins
    BY <1>2, <1>6, <1>7, <1>1
  <2>3. ByteAt(end) = "cr" /\ ByteAt(end + 1) = "lf"
    BY <2>1, <2>2, LineBeginsAre DEF Breaks
  <2>4. end + 1 \in Offsets /\ (end + 1) + 1 \in LineBegins
    BY <2>1, <2>3, LineBeginsAre, Text
  <2>5. end + 1 = at
    BY <2>1, <2>4, <1>1, <1>2, <1>6, <1>7
  <2>6. at > 0 /\ at - 1 = end
    BY <2>1, <2>5, <1>6, <1>7
  <2> QED BY <2>3, <2>5, <2>6
<1>9. PICK after : Caret(LineOf(at), count + 1) = after[(count + 1) - 1]
                   /\ CaretMoves(after, (count + 1) - 1, b, end)
  <2>1. count + 1 \in Nat \ {0} /\ end \in Int /\ end = EndOfLine(b)
    BY <1>6, <1>7 DEF end
  <2> HIDE DEF count
  <2> QED BY <2>1, <1>3, <1>6, CaretWalk
<1>10. (count + 1) - 1 = count
  BY <1>6
<1>11. /\ after[0] = [at |-> b, column |-> 2]
       /\ \A n \in 1 .. count : after[n] = Further(after[n - 1], end)
  <2> HIDE DEF count
  <2> QED BY <1>9, <1>10 DEF CaretMoves
<1> DEFINE T == {n \in 0 .. count : \E i \in b .. at :
                   /\ BeginsCharacter(i) /\ Characters(b, i) = n
                   /\ after[n] = [at |-> i, column |-> column[i]]}
<1>12. 0 \in T
  <2>1. BeginsCharacter(b) /\ Characters(b, b) = 0 /\ b \in b .. at
    BY <1>2, <1>6, LinesBeginCharacters, CharacterCounts
  <2>2. 0 \in 0 .. count
    BY <1>6
  <2> HIDE DEF count
  <2> QED BY <2>1, <2>2, <1>5, <1>11
<1>13. ASSUME NEW n \in 0 .. count - 1, n \in T
       PROVE  n + 1 \in T
  <2>1. PICK i \in b .. at : /\ BeginsCharacter(i) /\ Characters(b, i) = n
                             /\ after[n] = [at |-> i, column |-> column[i]]
    BY <1>13
  <2>2. i \in Int /\ i # at /\ i < at /\ i < end /\ b <= i /\ i \in b .. at - 1
    <3>1. n # count
      BY <1>6
    <3> QED BY <3>1, <2>1, <1>1, <1>6, <1>7, <1>8
  <2>3. i \in Offsets
    BY <2>2, <1>1, <1>6, Text
  <2> DEFINE next == i + utf8SequenceLength(i, Size)
  <2>4. next \in b .. at /\ column[next] = Advance(column[i], i)
    <3>1. b \in Nat /\ b <= at /\ i \in b .. at - 1 /\ BeginsCharacter(i)
          /\ \A j \in b + 1 .. at : column[j] = Advance(column[j - 1], j - 1)
      BY <2>1, <2>2, <1>5, <1>6
    <3> QED BY <3>1, ColumnsOfCharacter
  <2>5. BeginsCharacter(next)
    BY <2>1, <2>3, NextCharacter
  <2>6. Characters(b, next) = n + 1
    BY <2>1, <2>2, <2>3, <1>6, CharacterFurther
  <2>7. utf8SequenceLength(i, end) = utf8SequenceLength(i, Size)
    <3>1. end < Size => ByteAt(end) \notin Continuations
      BY <1>7 DEF Breaks, Continuations
    <3>2. end \in Int /\ Size \in Int /\ end <= Size
      BY <1>1, <1>7
    <3> QED BY <3>1, <3>2, <2>2, SequenceInLine
  <2>8. after[n + 1] = Further(after[n], end)
    <3>1. n + 1 \in 1 .. count /\ (n + 1) - 1 = n
      BY <1>6
    <3> HIDE DEF count
    <3> QED BY <3>1, <1>11
  <2>9. Further([at |-> i, column |-> column[i]], end) = [at |-> next, column |-> column[next]]
    <3>1. ~(i >= end)
      BY <2>2, <1>7
    <3>2. CASE ByteAt(i) = "tab"
      <4>0. ByteAt(i) \notin Leads /\ i \in Int /\ Size \in Int
        BY <3>2, <2>2, <1>1 DEF Leads
      <4>1. utf8SequenceLength(i, Size) = 1
        BY <4>0, SequenceLength
      <4> QED BY <4>1, <3>1, <3>2, <2>4 DEF Further, Advance
    <3>3. CASE ByteAt(i) # "tab"
      BY <3>1, <3>3, <2>1, <2>4, <2>7 DEF Further, Advance
    <3> QED BY <3>2, <3>3
  <2>10. n + 1 \in 0 .. count
    BY <1>6
  <2> HIDE DEF next, count
  <2> QED BY <2>1, <2>4, <2>5, <2>6, <2>8, <2>9, <2>10
<1>14. count \in T
  <2> HIDE DEF T, count
  <2>1. 0 .. count \subseteq T
    <3>1. 0 \in Int /\ count \in Int
      BY <1>6
    <3> QED BY <3>1, <1>12, <1>13, IntervalInduction
  <2> QED BY <2>1, <1>6
<1>15. PICK i \in b .. at : /\ BeginsCharacter(i) /\ Characters(b, i) = count
                            /\ after[count] = [at |-> i, column |-> column[i]]
  BY <1>14
<1>16. i = at
  <2> SUFFICES ASSUME i # at PROVE FALSE
    OBVIOUS
  <2>1. i \in Int /\ b <= i /\ i + 1 <= at /\ i + 1 \in Int
    BY <1>1, <1>6
  <2>2. Characters(b, i + 1) = count + 1
    BY <2>1, <1>6, <1>15, CharacterCounts
  <2>3. Characters(b, i + 1) <= Characters(b, at)
    BY <2>1, <1>1, <1>6, CharactersGrow
  <2> QED BY <2>2, <2>3, <1>6
<1> QED
  BY <1>4, <1>5, <1>9, <1>15, <1>16, <1>10

-----------------------------------------------------------------------------
(* The counters of readChar.                                               *)

\* The column begins at 1 on each line, and goes up with each character.
LEMMA ColumnSteps ==
  ASSUME source \in Seq(Bytes), NEW i \in Nat
  PROVE  /\ ColumnOf(i) \in Nat \ {0}
         /\ ColumnOf(i + 1) = IF i + 1 \in LineBegins THEN 1
                              ELSE IF BeginsCharacter(i) THEN ColumnOf(i) + 1
                              ELSE ColumnOf(i)
<1>1. \A j \in Nat : ColumnOf(j) = 1 + Characters(BeginOfLineOf(j), j)
  BY DEF ColumnOf, Characters
<1> DEFINE b == BeginOfLineOf(i)
           next == BeginOfLineOf(i + 1)
<1>2. b \in LineBegins /\ b \in 0 .. i /\ \A c \in LineBegins : c <= i => c <= b
  BY LineBeginOf
<1>3. next \in LineBegins /\ next \in 0 .. i + 1 /\ \A c \in LineBegins : c <= i + 1 => c <= next
  <2>1. i + 1 \in Nat
    OBVIOUS
  <2> HIDE DEF next
  <2> QED BY <2>1, LineBeginOf DEF next
<1>4. i + 1 \in Nat /\ ColumnOf(i) = 1 + Characters(b, i)
      /\ ColumnOf(i + 1) = 1 + Characters(next, i + 1)
  BY <1>1
<1> HIDE DEF b, next
<1>5. Characters(b, i) \in Nat /\ b \in Int /\ b <= i
  <2>1. b \in Int /\ b <= i /\ i \in Int
    BY <1>2
  <2> QED BY <2>1, CharacterCounts
<1>6. CASE i + 1 \in LineBegins
  <2>1. next = i + 1
    BY <1>3, <1>6
  <2>2. Characters(next, i + 1) = 0
    BY <2>1, CharacterCounts
  <2> QED BY <2>2, <1>4, <1>5, <1>6
<1>7. CASE i + 1 \notin LineBegins
  <2>1. next = b
    BY <1>2, <1>3, <1>7
  <2>2. Characters(b, i + 1) = IF BeginsCharacter(i) THEN Characters(b, i) + 1 ELSE Characters(b, i)
    BY <1>5, CharacterCounts
  <2> QED BY <2>1, <2>2, <1>4, <1>5, <1>7
<1> QED
  BY <1>6, <1>7

\* The text begins in column 1.
LEMMA FirstColumn ==
  ASSUME source \in Seq(Bytes)
  PROVE  ColumnOf(0) = 1
<1>1. BeginOfLineOf(0) = 0
  BY LineBeginOf
<1>2. ColumnOf(0) = 1 + Characters(0, 0)
  BY <1>1 DEF ColumnOf, Characters
<1> QED
  BY <1>2, CharacterCounts

-----------------------------------------------------------------------------
Cursors == [position : Int, line : Int, column : Int, utf8ContinuationBytes : Int,
            previousWasCarriageReturn : BOOLEAN]

WithinCRLF(i) == i > 0 /\ ByteAt(i - 1) = "cr" /\ ByteAt(i) = "lf"

\* The rest of a sequence, of some bytes, is from i on.
RestOfCharacter(i, bytes) ==
  /\ i + bytes <= Size
  /\ BeginsCharacter(i + bytes)
  /\ \A j \in i .. i + bytes - 1 : ~BeginsCharacter(j) /\ ByteAt(j) \in Continuations

\* The counters are those of the cursor's place.  Between CR and LF they are
\* ahead of it: readChar has counted the line at the CR.
CursorExact(c) ==
  /\ c \in Cursors
  /\ c.position \in 0 .. Size
  /\ c.line \in 1 .. c.position + 1
  /\ c.column \in 1 .. c.position + 1
  /\ c.utf8ContinuationBytes \in 0 .. 3
  /\ c.previousWasCarriageReturn <=> c.position > 0 /\ ByteAt(c.position - 1) = "cr"
  /\ RestOfCharacter(c.position, c.utf8ContinuationBytes)
  /\ WithinCRLF(c.position) => c.line = LineOf(c.position) + 1 /\ c.column = 1
  /\ ~WithinCRLF(c.position) => c.line = LineOf(c.position) /\ c.column = ColumnOf(c.position)

\* They are exact where the text begins.
LEMMA StartExact == ASSUME source \in Seq(Bytes) PROVE CursorExact(Start)
<1>1. Size \in Nat
  BY Text
<1>2. Start \in Cursors
  BY DEF Start, Cursors
<1>3. LineOf(0) = 1 /\ ColumnOf(0) = 1
  BY LineCounts, FirstColumn
<1>4. RestOfCharacter(0, 0)
  <2>1. BeginsCharacter(0)
    BY LineBeginsAre, LinesBeginCharacters
  <2> QED BY <2>1, <1>1 DEF RestOfCharacter
<1>5. ~WithinCRLF(0)
  BY DEF WithinCRLF
<1> QED
  BY <1>1, <1>2, <1>3, <1>4, <1>5 DEF CursorExact, Start

\* What readChar does to each counter.
LEMMA ReadCharFields ==
  ASSUME source \in Seq(Bytes), NEW c \in Cursors, NEW byte, byte = ByteAt(c.position)
  PROVE  /\ readChar(c) \in Cursors
         /\ readChar(c).position = c.position + 1
         /\ readChar(c).previousWasCarriageReturn = (byte = "cr")
         /\ byte \in Breaks =>
              /\ readChar(c).line = IF byte = "lf" /\ c.previousWasCarriageReturn
                                     THEN c.line ELSE c.line + 1
              /\ readChar(c).column = 1
              /\ readChar(c).utf8ContinuationBytes = 0
         /\ byte \notin Breaks => readChar(c).line = c.line
         /\ byte \notin Breaks /\ c.utf8ContinuationBytes # 0 /\ byte \in Continuations =>
              /\ readChar(c).column = c.column
              /\ readChar(c).utf8ContinuationBytes = c.utf8ContinuationBytes - 1
         /\ byte \notin Breaks /\ ~(c.utf8ContinuationBytes # 0 /\ byte \in Continuations) =>
              /\ readChar(c).column = c.column + 1
              /\ readChar(c).utf8ContinuationBytes = utf8SequenceLength(c.position, Size) - 1
<1> DEFINE more == c.utf8ContinuationBytes # 0 /\ byte \in Continuations
           rec(l, k, u) == [position |-> c.position + 1, line |-> l, column |-> k,
                            utf8ContinuationBytes |-> u, previousWasCarriageReturn |-> byte = "cr"]
           sameLine == byte = "lf" /\ c.previousWasCarriageReturn
           len == utf8SequenceLength(c.position, Size)
<1>1. /\ c.position \in Int /\ c.line \in Int /\ c.column \in Int
      /\ c.utf8ContinuationBytes \in Int
      /\ c = [position |-> c.position, line |-> c.line, column |-> c.column,
              utf8ContinuationBytes |-> c.utf8ContinuationBytes,
              previousWasCarriageReturn |-> c.previousWasCarriageReturn]
  BY DEF Cursors
<1>2. len \in Int
  <2>1. len \in 1 .. 4
    BY <1>1, SequenceLength, Text
  <2> QED BY <2>1
<1>3. (byte = "cr") \in BOOLEAN
  OBVIOUS
<1>4. \A l, k, u \in Int : rec(l, k, u) \in Cursors
  BY <1>1, <1>3 DEF Cursors
<1>5. CASE byte \in Breaks
  <2>1. readChar(c) = rec(IF sameLine THEN c.line ELSE c.line + 1, 1, 0)
    BY <1>1, <1>5 DEF readChar
  <2>2. (IF sameLine THEN c.line ELSE c.line + 1) \in Int
    BY <1>1
  <2> DEFINE l == IF sameLine THEN c.line ELSE c.line + 1
  <2>3. rec(l, 1, 0) \in Cursors
    <3>1. l \in Int /\ 1 \in Int /\ 0 \in Int
      BY <2>2
    <3> HIDE DEF l, rec
    <3> QED BY <3>1, <1>4
  <2>4. readChar(c) \in Cursors
    BY <2>1, <2>3
  <2> QED BY <2>1, <2>4, <1>5
<1>6. CASE byte \notin Breaks /\ more
  <2>1. readChar(c) = rec(c.line, c.column, c.utf8ContinuationBytes - 1)
    BY <1>1, <1>6 DEF readChar
  <2>2. readChar(c) \in Cursors
    BY <2>1, <1>1, <1>4
  <2> QED BY <2>1, <2>2, <1>6
<1>7. CASE byte \notin Breaks /\ ~more
  <2>1. readChar(c) = rec(c.line, c.column + 1, len - 1)
    BY <1>1, <1>7 DEF readChar
  <2>2. readChar(c) \in Cursors
    BY <2>1, <1>1, <1>2, <1>4
  <2> QED BY <2>1, <2>2, <1>7
<1> QED
  BY <1>5, <1>6, <1>7

\* The rest of a sequence, a byte further.
LEMMA RestSteps ==
  ASSUME source \in Seq(Bytes), NEW p \in Offsets, NEW u \in 0 .. 3, RestOfCharacter(p, u)
  PROVE  /\ u # 0 => /\ ByteAt(p) \in Continuations /\ ~BeginsCharacter(p)
                     /\ RestOfCharacter(p + 1, u - 1)
         /\ u = 0 => /\ BeginsCharacter(p)
                     /\ RestOfCharacter(p + 1, utf8SequenceLength(p, Size) - 1)
                     /\ utf8SequenceLength(p, Size) - 1 \in 0 .. 3
<1>1. p \in Int /\ 0 <= p /\ p < Size /\ Size \in Nat
  BY Text
<1>2. ASSUME u # 0
      PROVE  /\ ByteAt(p) \in Continuations /\ ~BeginsCharacter(p)
             /\ RestOfCharacter(p + 1, u - 1)
  <2>1. p \in p .. p + u - 1 /\ (p + 1) + (u - 1) = p + u
        /\ \A j \in p + 1 .. (p + 1) + (u - 1) - 1 : j \in p .. p + u - 1
    BY <1>1, <1>2
  <2>2. ByteAt(p) \in Continuations /\ ~BeginsCharacter(p)
    BY <2>1 DEF RestOfCharacter
  <2>3. RestOfCharacter(p + 1, u - 1)
    BY <2>1 DEF RestOfCharacter
  <2> QED BY <2>2, <2>3
<1>3. ASSUME u = 0
      PROVE  /\ BeginsCharacter(p)
             /\ RestOfCharacter(p + 1, utf8SequenceLength(p, Size) - 1)
             /\ utf8SequenceLength(p, Size) - 1 \in 0 .. 3
  <2>1. p + u = p
    BY <1>1, <1>3
  <2>2. BeginsCharacter(p)
    BY <2>1 DEF RestOfCharacter
  <2> DEFINE len == utf8SequenceLength(p, Size)
             next == p + len
  <2>3. /\ next \in p + 1 .. Size /\ BeginsCharacter(next)
        /\ \A j \in p + 1 .. next - 1 : ~BeginsCharacter(j) /\ ByteAt(j) \in Continuations
    BY <2>2, NextCharacter
  <2>4. len \in 1 .. 4
    BY <1>1, SequenceLength
  <2> HIDE DEF len
  <2>5. (p + 1) + (len - 1) = next /\ len - 1 \in 0 .. 3
    BY <1>1, <2>4
  <2> HIDE DEF next
  <2>6. RestOfCharacter(p + 1, len - 1)
    BY <1>1, <2>3, <2>5 DEF RestOfCharacter
  <2> QED BY <2>2, <2>5, <2>6 DEF len
<1> QED
  BY <1>2, <1>3

\* The line and the column, a byte further.
LEMMA PlaceSteps ==
  ASSUME source \in Seq(Bytes), NEW p \in Offsets
  PROVE  /\ ByteAt(p) \notin Breaks =>
              LineOf(p + 1) = LineOf(p) /\ ~WithinCRLF(p) /\ ~WithinCRLF(p + 1)
              /\ ColumnOf(p + 1) = IF BeginsCharacter(p) THEN ColumnOf(p) + 1 ELSE ColumnOf(p)
         /\ ByteAt(p) \in Breaks /\ WithinCRLF(p + 1) =>
              LineOf(p + 1) = LineOf(p) /\ ~WithinCRLF(p) /\ ByteAt(p) = "cr"
         /\ ByteAt(p) \in Breaks /\ ~WithinCRLF(p + 1) =>
              LineOf(p + 1) = LineOf(p) + 1 /\ ColumnOf(p + 1) = 1
<1>1. p \in Int /\ 0 <= p /\ p < Size /\ Size \in Nat /\ p \in Nat
  BY Text
<1>2. p + 1 \in LineBegins <=>
        ByteAt(p) = "lf" \/ (ByteAt(p) = "cr" /\ ByteAt(p + 1) # "lf")
  BY LineBeginsAre
<1>3. LineOf(p + 1) = IF p + 1 \in LineBegins THEN LineOf(p) + 1 ELSE LineOf(p)
  BY <1>1, LineCounts
<1>4. ColumnOf(p + 1) = IF p + 1 \in LineBegins THEN 1
                        ELSE IF BeginsCharacter(p) THEN ColumnOf(p) + 1 ELSE ColumnOf(p)
  BY <1>1, ColumnSteps
<1>5. WithinCRLF(p + 1) <=> ByteAt(p) = "cr" /\ ByteAt(p + 1) = "lf"
  <2>1. p + 1 > 0 /\ (p + 1) - 1 = p
    BY <1>1
  <2> QED BY <2>1 DEF WithinCRLF
<1>6. WithinCRLF(p) => ByteAt(p) = "lf"
  BY DEF WithinCRLF
<1> QED
  BY <1>2, <1>3, <1>4, <1>5, <1>6 DEF Breaks

\* readChar keeps the counters exact.
LEMMA ReadCharExact ==
  ASSUME source \in Seq(Bytes), NEW c, CursorExact(c), c.position < Size
  PROVE  CursorExact(readChar(c)) /\ readChar(c).position = c.position + 1
<1> DEFINE p == c.position
           u == c.utf8ContinuationBytes
           byte == ByteAt(p)
           next == readChar(c)
<1>1. /\ c \in Cursors /\ p \in Offsets /\ p \in Nat /\ p + 1 \in 0 .. Size /\ p + 1 \in Nat
      /\ c.line \in 1 .. p + 1 /\ c.column \in 1 .. p + 1 /\ u \in 0 .. 3
  <2>1. Size \in Nat /\ p \in 0 .. Size
    BY Text DEF CursorExact
  <2>2. p \in Nat /\ p + 1 \in 0 .. Size /\ p + 1 \in Nat
    BY <2>1
  <2>3. p \in Offsets
    BY <2>2, Text
  <2> QED BY <2>2, <2>3 DEF CursorExact
<1>2. /\ c.previousWasCarriageReturn <=> p > 0 /\ ByteAt(p - 1) = "cr"
      /\ RestOfCharacter(p, u)
      /\ WithinCRLF(p) => c.line = LineOf(p) + 1 /\ c.column = 1
      /\ ~WithinCRLF(p) => c.line = LineOf(p) /\ c.column = ColumnOf(p)
  BY DEF CursorExact
<1>3. /\ next \in Cursors
      /\ next.position = p + 1
      /\ next.previousWasCarriageReturn = (byte = "cr")
      /\ byte \in Breaks =>
           /\ next.line = IF byte = "lf" /\ c.previousWasCarriageReturn
                                  THEN c.line ELSE c.line + 1
           /\ next.column = 1
           /\ next.utf8ContinuationBytes = 0
      /\ byte \notin Breaks => next.line = c.line
      /\ byte \notin Breaks /\ u # 0 /\ byte \in Continuations =>
           /\ next.column = c.column
           /\ next.utf8ContinuationBytes = u - 1
      /\ byte \notin Breaks /\ ~(u # 0 /\ byte \in Continuations) =>
           /\ next.column = c.column + 1
           /\ next.utf8ContinuationBytes = utf8SequenceLength(p, Size) - 1
  BY <1>1, ReadCharFields
<1>4. /\ u # 0 => /\ byte \in Continuations /\ ~BeginsCharacter(p)
                  /\ RestOfCharacter(p + 1, u - 1)
      /\ u = 0 => /\ BeginsCharacter(p)
                  /\ RestOfCharacter(p + 1, utf8SequenceLength(p, Size) - 1)
                  /\ utf8SequenceLength(p, Size) - 1 \in 0 .. 3
  BY <1>1, <1>2, RestSteps
<1>5. /\ byte \notin Breaks =>
           LineOf(p + 1) = LineOf(p) /\ ~WithinCRLF(p) /\ ~WithinCRLF(p + 1)
           /\ ColumnOf(p + 1) = IF BeginsCharacter(p) THEN ColumnOf(p) + 1 ELSE ColumnOf(p)
      /\ byte \in Breaks /\ WithinCRLF(p + 1) =>
           LineOf(p + 1) = LineOf(p) /\ ~WithinCRLF(p) /\ byte = "cr"
      /\ byte \in Breaks /\ ~WithinCRLF(p + 1) =>
           LineOf(p + 1) = LineOf(p) + 1 /\ ColumnOf(p + 1) = 1
  BY <1>1, PlaceSteps
<1>6. byte \in Breaks => u = 0 /\ utf8SequenceLength(p, Size) = 1
  <2> SUFFICES ASSUME byte \in Breaks PROVE u = 0 /\ utf8SequenceLength(p, Size) = 1
    OBVIOUS
  <2>1. u = 0
    BY <1>4 DEF Breaks, Continuations
  <2>2. byte \notin Leads /\ p \in Int /\ Size \in Int
    BY <1>1, Text DEF Breaks, Leads
  <2> QED BY <2>1, <2>2, SequenceLength
<1>7. /\ next.utf8ContinuationBytes \in 0 .. 3
      /\ RestOfCharacter(p + 1, next.utf8ContinuationBytes)
  <2>1. CASE byte \in Breaks
    <3>1. 1 - 1 = 0
      OBVIOUS
    <3> QED BY <2>1, <3>1, <1>3, <1>4, <1>6
  <2>2. CASE byte \notin Breaks /\ u # 0
    <3>1. u - 1 \in 0 .. 3
      BY <1>1, <2>2
    <3> QED BY <3>1, <2>2, <1>3, <1>4
  <2>3. CASE byte \notin Breaks /\ u = 0
    BY <2>3, <1>3, <1>4
  <2> QED BY <2>1, <2>2, <2>3
<1>8. LineOf(p) \in Nat /\ ColumnOf(p) \in Nat
  <2>1. p \in Int
    BY <1>1
  <2> HIDE DEF p
  <2> QED BY <2>1, <1>1, LineCounts, ColumnSteps
<1>9. /\ next.line \in 1 .. (p + 1) + 1
      /\ next.column \in 1 .. (p + 1) + 1
  BY <1>1, <1>3
<1>10. WithinCRLF(p) <=> byte = "lf" /\ c.previousWasCarriageReturn
  BY <1>2 DEF WithinCRLF
<1>11. /\ WithinCRLF(p + 1) => next.line = LineOf(p + 1) + 1 /\ next.column = 1
       /\ ~WithinCRLF(p + 1) => next.line = LineOf(p + 1) /\ next.column = ColumnOf(p + 1)
  <2>1. CASE byte \in Breaks
    BY <2>1, <1>2, <1>3, <1>5, <1>8, <1>10
  <2>2. CASE byte \notin Breaks
    BY <2>2, <1>2, <1>3, <1>4, <1>5
  <2> QED BY <2>1, <2>2
<1>12. next.previousWasCarriageReturn <=> p + 1 > 0 /\ ByteAt((p + 1) - 1) = "cr"
  <2>1. p + 1 > 0 /\ (p + 1) - 1 = p
    BY <1>1
  <2> QED BY <2>1, <1>3
<1> HIDE DEF next
<1> QED
  BY <1>1, <1>3, <1>7, <1>9, <1>11, <1>12 DEF CursorExact, next

\* However far tokenize reads, the counters are exact there.
LEMMA ReadUpToExact ==
  ASSUME source \in Seq(Bytes), CursorExact(cursor), NEW end \in cursor.position .. Size
  PROVE  CursorExact(ReadUpTo(end)) /\ ReadUpTo(end).position = end
<1> DEFINE begin == cursor.position
           G(f) == [i \in begin .. end |-> IF i = begin THEN cursor ELSE readChar(f[i - 1])]
           after == CHOOSE f : f = G(f)
           step == [p \in Int \X Cursors |-> readChar(p[2])]
<1>1. ReadUpTo(end) = after[end]
  BY DEF ReadUpTo
<1>2. begin \in Int /\ end \in Int /\ begin <= end /\ end <= Size /\ Size \in Nat /\ cursor \in Cursors
  <2>1. Size \in Nat /\ begin \in 0 .. Size /\ cursor \in Cursors
    BY Text DEF CursorExact
  <2> QED BY <2>1
<1> HIDE DEF begin
<1>3. step \in [Int \X Cursors -> Cursors]
  <2>1. \A c \in Cursors : readChar(c) \in Cursors
    BY ReadCharFields
  <2> QED BY <2>1
<1>4. PICK f : Recurses(f, begin, end, Cursors, cursor, step)
  <2> HIDE DEF step
  <2> QED BY <1>2, <1>3, RecursionExists
<1>5. /\ f \in [begin .. end -> Cursors] /\ f[begin] = cursor
      /\ \A i \in begin + 1 .. end : f[i] = step[<<i, f[i - 1]>>]
  <2> HIDE DEF step
  <2> QED BY <1>4 DEF Recurses
<1>6. \A i \in begin + 1 .. end : f[i] = readChar(f[i - 1])
  <2> TAKE i \in begin + 1 .. end
  <2>1. i \in Int /\ i - 1 \in begin .. end
    BY <1>2
  <2>2. f[i - 1] \in Cursors
    BY <2>1, <1>5
  <2>3. step[<<i, f[i - 1]>>] = readChar(f[i - 1])
    BY <2>1, <2>2
  <2> HIDE DEF step
  <2> QED BY <2>3, <1>5
<1>7. f = G(f)
  <2>1. \A i \in begin .. end : i # begin => i \in begin + 1 .. end
    BY <1>2
  <2>2. \A i \in begin .. end : f[i] = G(f)[i]
    BY <2>1, <1>5, <1>6
  <2> QED BY <2>2, <1>5
<1>8. after = G(after)
  <2> HIDE DEF G
  <2> QED BY <1>7
<1>9. \A i \in begin .. end : after[i] = G(after)[i]
  <2> HIDE DEF G, after
  <2> QED BY <1>8
<1>10. \A i \in begin .. end : after[i] = IF i = begin THEN cursor ELSE readChar(after[i - 1])
  <2> HIDE DEF after
  <2> QED BY <1>9
<1> HIDE DEF after
<1> DEFINE T == {i \in begin .. end : CursorExact(after[i]) /\ after[i].position = i}
<1>11. begin \in T
  <2>1. begin \in begin .. end
    BY <1>2
  <2> QED BY <2>1, <1>10 DEF begin
<1>12. ASSUME NEW i \in begin .. end - 1, i \in T
       PROVE  i + 1 \in T
  <2>1. i + 1 \in begin .. end /\ i + 1 # begin /\ (i + 1) - 1 = i /\ i < Size
    BY <1>2
  <2>2. after[i + 1] = readChar(after[i])
    BY <2>1, <1>10
  <2>3. CursorExact(readChar(after[i])) /\ readChar(after[i]).position = i + 1
    BY <2>1, <1>12, ReadCharExact
  <2> QED BY <2>1, <2>2, <2>3
<1> HIDE DEF T
<1>13. begin .. end \subseteq T
  BY <1>2, <1>11, <1>12, IntervalInduction
<1>14. end \in T
  BY <1>2, <1>13
<1> QED
  BY <1>1, <1>14 DEF T

-----------------------------------------------------------------------------
(* The invariant of tokenize.                                              *)

TokenExact(t) ==
  /\ t.type \in TokenTypes
  /\ t.at \in 0 .. Size
  /\ t.line = LineOf(t.at)
  /\ t.column = ColumnOf(t.at)
  /\ BeginsCharacter(t.at)
  /\ ~WithinCRLF(t.at)

LexerInvariant ==
  /\ source \in Seq(Bytes)
  /\ status \in {"reading", "done", "error"}
  /\ CursorExact(cursor)
  /\ status = "reading" => BeginsCharacter(Position)
  /\ TokenExact(token)

\* What is said of places depends on the text alone, which tokenize keeps.
LEMMA PlaceKept ==
  ASSUME source' = source
  PROVE  /\ Size' = Size
         /\ \A i : ByteAt(i)' = ByteAt(i)
         /\ \A i : BeginsCharacter(i)' <=> BeginsCharacter(i)
         /\ \A i : WithinCRLF(i)' <=> WithinCRLF(i)
         /\ \A i, n : RestOfCharacter(i, n)' <=> RestOfCharacter(i, n)
         /\ \A i : LineOf(i)' = LineOf(i)
         /\ \A i : ColumnOf(i)' = ColumnOf(i)
<1>1. Size' = Size /\ Offsets' = Offsets /\ \A i : ByteAt(i)' = ByteAt(i)
  BY DEF Size, Offsets, ByteAt
<1>2. \A i, end : utf8SequenceLength(i, end)' = utf8SequenceLength(i, end)
  BY <1>1 DEF utf8SequenceLength
<1>3. \A i : BeginsCharacter(i)' <=> BeginsCharacter(i)
  BY <1>1, <1>2 DEF BeginsCharacter
<1>4. LineBegins' = LineBegins
  BY <1>1 DEF LineBegins
<1>5. \A i : LineOf(i)' = LineOf(i) /\ BeginOfLineOf(i)' = BeginOfLineOf(i)
  BY <1>4 DEF LineOf, BeginOfLineOf
<1>6. \A i : ColumnOf(i)' = ColumnOf(i)
  BY <1>3, <1>5 DEF ColumnOf
<1>7. \A i : WithinCRLF(i)' <=> WithinCRLF(i)
  BY <1>1 DEF WithinCRLF
<1>8. \A i, n : RestOfCharacter(i, n)' <=> RestOfCharacter(i, n)
  BY <1>1, <1>3 DEF RestOfCharacter
<1> QED
  BY <1>1, <1>3, <1>5, <1>6, <1>7, <1>8

\* So does that the counters are exact ...
LEMMA CursorKept ==
  ASSUME source' = source, CursorExact(cursor')
  PROVE  CursorExact(cursor)'
  BY PlaceKept DEF CursorExact, Cursors

\* ... and that a token's location is.
LEMMA TokenKept ==
  ASSUME source' = source, TokenExact(token')
  PROVE  TokenExact(token)'
  BY PlaceKept DEF TokenExact, TokenTypes

\* A byte that is a character of its own.
Plain == Bytes \ (Leads \cup Continuations)

\* Behind such a byte another character begins.
LEMMA BehindPlain ==
  ASSUME source \in Seq(Bytes), NEW i \in Nat, ByteAt(i) \in Plain
  PROVE  BeginsCharacter(i + 1)
  BY BeginsAtPlain DEF Plain

\* A byte other than zero is one of the text.
LEMMA InText ==
  ASSUME source \in Seq(Bytes), NEW i \in Nat, ByteAt(i) # "nul"
  PROVE  i \in Offsets /\ i < Size /\ i + 1 \in Nat
  BY Text

\* A run of such bytes, which is not empty, ends where a character does.
LEMMA RunOfPlain ==
  ASSUME source \in Seq(Bytes), NEW run, run \subseteq Offsets,
         \A j \in run : ByteAt(j) \in Plain,
         NEW i \in run
  PROVE  EndOfRun(i, run) \in i + 1 .. Size /\ BeginsCharacter(EndOfRun(i, run))
<1> DEFINE e == EndOfRun(i, run)
<1>1. i \in Int /\ 0 <= i /\ i <= Size /\ Size \in Nat
  BY Text
<1>2. e \in i .. Size /\ i < e /\ \A j \in i .. e - 1 : j \in run
  BY <1>1, RunEnds
<1> HIDE DEF e
<1>3. e - 1 \in run /\ e - 1 \in Nat /\ (e - 1) + 1 = e /\ e \in i + 1 .. Size
  <2>1. e - 1 \in i .. e - 1 /\ e - 1 \in Nat /\ (e - 1) + 1 = e /\ e \in i + 1 .. Size
    BY <1>1, <1>2
  <2> QED BY <2>1, <1>2
<1>4. BeginsCharacter((e - 1) + 1)
  BY <1>3, BehindPlain
<1> QED
  BY <1>3, <1>4 DEF e

\* A run of bytes of some kinds.
LEMMA RunHolding ==
  ASSUME source \in Seq(Bytes), NEW bytes, bytes \subseteq Plain \ {"nul"},
         NEW i \in Nat, ByteAt(i) \in bytes
  PROVE  /\ EndOfRun(i, Holding(bytes)) \in i + 1 .. Size
         /\ BeginsCharacter(EndOfRun(i, Holding(bytes)))
<1>1. i \in Holding(bytes) /\ Holding(bytes) \subseteq Offsets
  BY InText, Text
<1>2. \A j \in Holding(bytes) : ByteAt(j) \in Plain
  BY Text
<1> QED
  BY <1>1, <1>2, RunOfPlain

-----------------------------------------------------------------------------
\* An iteration that goes on reads up to the beginning of a character.
Reading(type, end) ==
  /\ end \in Position + 1 .. Size
  /\ \/ Skip(end) /\ BeginsCharacter(end)
     \/ Accept(type, end) /\ BeginsCharacter(end) /\ ~WithinCRLF(Position)
     \/ Fail(type, end) /\ ~WithinCRLF(Position)

\* A place between CR and LF shows the LF.
LEMMA NotWithinCRLF == First # "lf" => ~WithinCRLF(Position)
  BY DEF WithinCRLF, First

\* Where a token begins there is a byte to read, which is no blank.
LEMMA AtTokenIs ==
  ASSUME LexerInvariant, AtToken
  PROVE  /\ Position \in Nat /\ Position + 1 \in Position + 1 .. Size /\ Size \in Nat
         /\ First \notin Blanks /\ ~WithinCRLF(Position)
<1>1. Position \in 0 .. Size /\ Size \in Nat /\ Position < Size
  BY Text DEF LexerInvariant, CursorExact, Position, AtToken
<1>2. First \notin Blanks
  BY DEF AtToken
<1>3. ~WithinCRLF(Position)
  BY <1>2, NotWithinCRLF DEF Blanks, Breaks
<1> QED
  BY <1>1, <1>2, <1>3

\* A blank is read.
LEMMA SkipBlankReads == ASSUME LexerInvariant, SkipBlank PROVE \E end : Reading("None", end)
<1>1. Position \in Nat /\ source \in Seq(Bytes)
  BY Text DEF LexerInvariant, CursorExact, Position
<1>2. First \in Blanks /\ Skip(Position + 1)
  BY DEF SkipBlank
<1>3. First \in Plain /\ First # "nul"
  BY <1>2 DEF Blanks, Breaks, Plain, Bytes, Leads, Continuations
<1>4. BeginsCharacter(Position + 1)
  BY <1>1, <1>3, BehindPlain DEF First
<1>5. Position + 1 \in Position + 1 .. Size
  BY <1>1, <1>3, InText, Text DEF First
<1> QED
  BY <1>2, <1>4, <1>5 DEF Reading

\* A line comment is read up to the break, which begins a character.
LEMMA SkipLineCommentReads ==
  ASSUME LexerInvariant, SkipLineComment PROVE \E end : Reading("None", end)
<1>1. Position \in Nat /\ source \in Seq(Bytes) /\ Size \in Nat
  BY Text DEF LexerInvariant, CursorExact, Position
<1> DEFINE end == EndOfLine(Position + 2)
<1>2. Second = "/" /\ Skip(end)
  BY DEF SkipLineComment
<1>3. Position + 1 < Size
  BY <1>1, <1>2, InText DEF Second
<1>4. /\ end \in Position + 2 .. Size
      /\ end < Size => ByteAt(end) \in Breaks
  BY <1>1, <1>3, LineEnds
<1> HIDE DEF end
<1>5. end \in Position + 1 .. Size /\ end \in Nat
  BY <1>1, <1>4
<1>6. ByteAt(end) \notin Continuations
  <2>1. CASE end < Size
    BY <2>1, <1>4 DEF Breaks, Continuations
  <2>2. CASE ~(end < Size)
    BY <2>2, <1>1, <1>5, Text DEF Continuations
  <2> QED BY <2>1, <2>2
<1>7. BeginsCharacter(end)
  BY <1>1, <1>5, <1>6, BeginsAtPlain
<1> QED
  BY <1>2, <1>5, <1>7 DEF Reading

\* A block comment is read past its end, a slash.
LEMMA SkipBlockCommentReads ==
  ASSUME LexerInvariant, SkipBlockComment PROVE \E end : Reading("None", end)
<1>1. Position \in Nat /\ source \in Seq(Bytes) /\ Size \in Nat
  BY Text DEF LexerInvariant, CursorExact, Position
<1> DEFINE ends == {i \in Position + 2 .. Size - 2 : ByteAt(i) = "*" /\ ByteAt(i + 1) = "/"}
<1>2. AtComment /\ Second = "*" /\ IF ends = {} THEN Fail("None", Size) ELSE Skip(Min(ends) + 2)
  BY DEF SkipBlockComment
<1>3. Position + 1 < Size
  BY <1>1, <1>2, InText DEF Second
<1>4. CASE ends = {}
  <2>1. Size \in Position + 1 .. Size
    BY <1>1, <1>3
  <2>2. ~WithinCRLF(Position)
    BY <1>2, NotWithinCRLF DEF AtComment
  <2> QED BY <1>2, <1>4, <2>1, <2>2 DEF Reading
<1>5. CASE ends # {}
  <2>1. Min(ends) \in ends
    <3>1. ends \subseteq Position + 2 .. Size - 2 /\ Position + 2 \in Int /\ Size - 2 \in Int
      BY <1>1
    <3> HIDE DEF ends
    <3> QED BY <3>1, <1>5, MinOfInterval
  <2>2. PICK m : m = Min(ends)
    OBVIOUS
  <2>3. m \in Position + 2 .. Size - 2 /\ ByteAt(m + 1) = "/" /\ Skip(m + 2)
    BY <2>1, <2>2, <1>2, <1>5
  <2> HIDE DEF ends
  <2>4. m + 2 \in Position + 1 .. Size /\ m + 1 \in Nat /\ (m + 1) + 1 = m + 2
    BY <2>3, <1>1
  <2>5. BeginsCharacter((m + 1) + 1)
    BY <2>3, <2>4, <1>1, BehindPlain DEF Plain, Bytes, Leads, Continuations
  <2> QED BY <2>3, <2>4, <2>5 DEF Reading
<1> QED
  BY <1>4, <1>5

\* An identifier is read up to the end of its letters and digits.
LEMMA readIdentifierReads ==
  ASSUME LexerInvariant, readIdentifier PROVE \E end : Reading("Identifier", end)
<1> DEFINE end == EndOfRun(Position, LettersOrDigits)
<1>1. AtToken /\ First \in Letters /\ Accept("Identifier", end)
  BY DEF readIdentifier
<1>2. /\ end \in Position + 1 .. Size
      /\ BeginsCharacter(end)
  <2>1. Letters \cup Digits \subseteq Plain \ {"nul"}
    BY DEF Letters, Digits, OctalDigits, Plain, Bytes, Leads, Continuations
  <2>2. source \in Seq(Bytes) /\ Position \in Nat
    BY <1>1, AtTokenIs DEF LexerInvariant
  <2>3. LettersOrDigits = Holding(Letters \cup Digits) /\ ByteAt(Position) \in Letters \cup Digits
    BY <1>1 DEF LettersOrDigits, First
  <2> QED BY <2>1, <2>2, <2>3, RunHolding
<1> HIDE DEF end
<1> QED
  BY <1>1, <1>2, AtTokenIs DEF Reading

\* What a number's digits read, from where they begin.
LEMMA BasedNumberReads ==
  ASSUME LexerInvariant, AtToken, NEW begin \in Position + 1 .. Size,
         NEW digits \in {HexDigits, OctalDigits}, BasedNumber(begin, digits)
  PROVE  \E end : Reading("Number", end)
<1>1. Position \in Nat /\ Size \in Nat /\ ~WithinCRLF(Position) /\ source \in Seq(Bytes)
  BY AtTokenIs DEF LexerInvariant
<1>2. CASE ByteAt(begin) \in digits
  <2> DEFINE end == EndOfRun(begin, Holding(digits))
  <2>1. Accept("Number", end)
    BY <1>2 DEF BasedNumber
  <2>2. end \in begin + 1 .. Size /\ BeginsCharacter(end)
    <3>1. digits \subseteq Plain \ {"nul"}
      <4>1. HexDigits \subseteq Plain \ {"nul"} /\ OctalDigits \subseteq Plain \ {"nul"}
        BY DEF HexDigits, Digits, OctalDigits, Letters, Plain, Bytes, Leads, Continuations
      <4> QED BY <4>1
    <3>2. begin \in Nat
      BY <1>1
    <3> QED BY <3>1, <3>2, <1>1, <1>2, RunHolding
  <2> HIDE DEF end
  <2>3. end \in Position + 1 .. Size
    BY <2>2, <1>1
  <2> QED BY <2>1, <2>2, <2>3, <1>1 DEF Reading
<1>3. CASE ByteAt(begin) \notin digits
  <2>1. Fail("Number", begin)
    BY <1>3 DEF BasedNumber
  <2> QED BY <2>1, <1>1 DEF Reading
<1> QED
  BY <1>2, <1>3

\* The same of a decimal number, with a point or without.
LEMMA DecimalNumberReads ==
  ASSUME LexerInvariant, AtToken, NEW begin \in Position .. Size, ByteAt(begin) \in Digits,
         DecimalNumber(begin)
  PROVE  \E end : Reading("Number", end)
<1>1. Position \in Nat /\ Size \in Nat /\ ~WithinCRLF(Position) /\ source \in Seq(Bytes)
  BY AtTokenIs DEF LexerInvariant
<1>2. Digits \subseteq Plain \ {"nul"}
  BY DEF Digits, OctalDigits, Plain, Bytes, Leads, Continuations
<1> DEFINE point == EndOfRun(begin, Holding(Digits))
           end == EndOfRun(point + 1, Holding(Digits))
<1>3. point \in begin + 1 .. Size /\ BeginsCharacter(point)
  <2>1. begin \in Nat
    BY <1>1
  <2> QED BY <2>1, <1>1, <1>2, RunHolding
<1>4. IF ByteAt(point) = "." /\ ByteAt(point + 1) \in Digits
        THEN Accept("Number", end) ELSE Accept("Number", point)
  BY DEF DecimalNumber
<1> HIDE DEF point
<1>5. point \in Position + 1 .. Size
  BY <1>1, <1>3
<1>6. CASE ByteAt(point + 1) \in Digits
  <2>1. end \in (point + 1) + 1 .. Size /\ BeginsCharacter(end)
    <3>1. point + 1 \in Nat
      BY <1>1, <1>5
    <3> QED BY <3>1, <1>1, <1>2, <1>6, RunHolding
  <2> HIDE DEF end
  <2>2. end \in Position + 1 .. Size
    BY <2>1, <1>1, <1>5
  <2> QED BY <2>1, <2>2, <1>1, <1>3, <1>4, <1>5 DEF Reading
<1>7. CASE ByteAt(point + 1) \notin Digits
  BY <1>7, <1>1, <1>3, <1>4, <1>5 DEF Reading
<1> QED
  BY <1>6, <1>7

\* A number is read, whatever its sign and prefix.
LEMMA readNumberReads ==
  ASSUME LexerInvariant, readNumber PROVE \E end : Reading("Number", end)
<1> DEFINE begin == IF First = "-" THEN Position + 1 ELSE Position
           prefix == <<ByteAt(begin), ByteAt(begin + 1)>>
<1>1. AtToken /\ LooksLikeNumber
  BY DEF readNumber
<1>2. (CASE prefix = <<"0", "x">> -> BasedNumber(begin + 2, HexDigits)
         [] prefix = <<"0", "o">> -> BasedNumber(begin + 2, OctalDigits)
         [] OTHER -> DecimalNumber(begin))
  BY DEF readNumber
<1>3. Position \in Nat /\ Size \in Nat /\ source \in Seq(Bytes)
  BY <1>1, AtTokenIs DEF LexerInvariant
<1>4. begin \in Position .. Position + 1 /\ ByteAt(begin) \in Digits
  BY <1>1, <1>3 DEF LooksLikeNumber, First, Second, Digits, OctalDigits
<1> HIDE DEF begin
<1>5. begin \in Nat /\ begin < Size
  <2>1. begin \in Nat
    BY <1>3, <1>4
  <2>2. ByteAt(begin) # "nul"
    BY <1>4 DEF Digits, OctalDigits
  <2> QED BY <2>1, <2>2, <1>3, InText
<1>6. ByteAt(begin + 1) # "nul" => begin + 2 \in Position + 1 .. Size
  <2>1. begin + 1 \in Nat
    BY <1>5
  <2>2. ByteAt(begin + 1) # "nul" => begin + 1 < Size
    BY <2>1, <1>3, InText
  <2> QED BY <2>2, <1>3, <1>4, <1>5
<1>7. CASE prefix = <<"0", "x">>
  <2>1. ByteAt(begin + 1) = "x"
    BY <1>7
  <2>2. BasedNumber(begin + 2, HexDigits)
    <3> HIDE DEF prefix
    <3>1. prefix # <<"0", "o">>
      BY <1>7
    <3> QED BY <3>1, <1>2, <1>7
  <2> QED BY <2>1, <2>2, <1>1, <1>6, BasedNumberReads
<1>8. CASE prefix = <<"0", "o">>
  <2>1. ByteAt(begin + 1) = "o"
    BY <1>8
  <2>2. BasedNumber(begin + 2, OctalDigits)
    <3> HIDE DEF prefix
    <3>1. prefix # <<"0", "x">>
      BY <1>8
    <3> QED BY <3>1, <1>2, <1>8
  <2> QED BY <2>1, <2>2, <1>1, <1>6, BasedNumberReads
<1>9. CASE prefix # <<"0", "x">> /\ prefix # <<"0", "o">>
  <2>1. DecimalNumber(begin)
    <3> HIDE DEF prefix
    <3> QED BY <1>2, <1>9
  <2>2. begin \in Position .. Size
    BY <1>3, <1>4, <1>5
  <2> QED BY <2>1, <2>2, <1>1, <1>4, DecimalNumberReads
<1> QED
  BY <1>7, <1>8, <1>9

\* A string is read past its end, a quote.
LEMMA readStringReads ==
  ASSUME LexerInvariant, readString PROVE \E end : Reading("String", end)
<1> DEFINE escaped == CHOOSE f : f = [i \in Position + 1 .. Size |->
             i > Position + 1 /\ ByteAt(i - 1) = "backslash" /\ ~f[i - 1]]
           ends == {i \in Position + 1 .. Size - 1 : ByteAt(i) = "quote" /\ ~escaped[i]}
<1>1. AtToken /\ IF ends = {} THEN Fail("String", Size) ELSE Accept("String", Min(ends) + 1)
  BY DEF readString
<1>2. Position \in Nat /\ Size \in Nat /\ source \in Seq(Bytes) /\ ~WithinCRLF(Position)
      /\ Position + 1 \in Position + 1 .. Size
  BY <1>1, AtTokenIs DEF LexerInvariant
<1> HIDE DEF escaped
<1>3. CASE ends = {}
  <2>1. Size \in Position + 1 .. Size
    BY <1>2
  <2> QED BY <2>1, <1>1, <1>2, <1>3 DEF Reading
<1>4. CASE ends # {}
  <2>1. Min(ends) \in ends
    <3>1. ends \subseteq Position + 1 .. Size - 1 /\ Position + 1 \in Int /\ Size - 1 \in Int
      BY <1>2
    <3> HIDE DEF ends
    <3> QED BY <3>1, <1>4, MinOfInterval
  <2>2. PICK m : m = Min(ends)
    OBVIOUS
  <2>3. m \in Position + 1 .. Size - 1 /\ ByteAt(m) = "quote" /\ Accept("String", m + 1)
    BY <2>1, <2>2, <1>1, <1>4
  <2> HIDE DEF ends
  <2>4. m + 1 \in Position + 1 .. Size /\ m \in Nat
    BY <2>3, <1>2
  <2>5. BeginsCharacter(m + 1)
    BY <2>3, <2>4, <1>2, BehindPlain DEF Plain, Bytes, Leads, Continuations
  <2> QED BY <2>3, <2>4, <2>5, <1>2 DEF Reading
<1> QED
  BY <1>3, <1>4

\* The marker is read, and the name with its points.
LEMMA readSpecialTokenReads ==
  ASSUME LexerInvariant, NEW marker, NEW type, readSpecialToken(marker, type)
  PROVE  \E end : Reading(type, end)
<1> DEFINE points == {i \in Holding({"."}) : marker = "#" /\ ByteAt(i + 1) \in Letters}
           run == LettersOrDigits \cup points
           end == EndOfRun(Position + 1, run)
<1>1. AtToken /\ IF Second \in Letters THEN Accept(type, end) ELSE Fail(type, Position + 1)
  BY DEF readSpecialToken
<1>2. Position \in Nat /\ Size \in Nat /\ source \in Seq(Bytes) /\ ~WithinCRLF(Position)
      /\ Position + 1 \in Position + 1 .. Size /\ Position + 1 \in Nat
  BY <1>1, AtTokenIs DEF LexerInvariant
<1>3. CASE Second \in Letters
  <2>1. \A j \in run : j \in Offsets /\ ByteAt(j) \in Letters \cup Digits \cup {"."}
    BY <1>2, Text DEF LettersOrDigits
  <2>2. Letters \cup Digits \cup {"."} \subseteq Plain
    BY DEF Letters, Digits, OctalDigits, Punctuation, Plain, Bytes, Leads, Continuations
  <2>3. Position + 1 \in run
    <3>1. ByteAt(Position + 1) # "nul" /\ ByteAt(Position + 1) \in Letters \cup Digits
      BY <1>3 DEF Second, Letters
    <3> HIDE DEF points
    <3> QED BY <3>1, <1>2, InText, Text DEF LettersOrDigits
  <2> HIDE DEF run
  <2>4. end \in (Position + 1) + 1 .. Size /\ BeginsCharacter(end)
    BY <2>1, <2>2, <2>3, <1>2, RunOfPlain
  <2>5. Accept(type, end)
    BY <1>1, <1>3
  <2> HIDE DEF end
  <2>6. end \in Position + 1 .. Size
    BY <2>4, <1>2
  <2> QED BY <2>4, <2>5, <2>6, <1>2 DEF Reading
<1>4. CASE Second \notin Letters
  BY <1>1, <1>2, <1>4 DEF Reading
<1> QED
  BY <1>3, <1>4

\* A punctuation character is read.
LEMMA ReadPunctuationReads ==
  ASSUME LexerInvariant, ReadPunctuation PROVE \E end : Reading("Punctuation", end)
<1>1. AtToken /\ First \in Punctuation /\ Accept("Punctuation", Position + 1)
  BY DEF ReadPunctuation
<1>2. Position \in Nat /\ source \in Seq(Bytes) /\ ~WithinCRLF(Position)
      /\ Position + 1 \in Position + 1 .. Size
  BY <1>1, AtTokenIs DEF LexerInvariant
<1>3. First \in Plain
  BY <1>1 DEF Punctuation, Plain, Bytes, Leads, Continuations
<1>4. BeginsCharacter(Position + 1)
  BY <1>2, <1>3, BehindPlain DEF First
<1> QED
  BY <1>1, <1>2, <1>4 DEF Reading

\* A byte that begins no token is read, and refused.
LEMMA UnexpectedCharacterReads ==
  ASSUME LexerInvariant, UnexpectedCharacter PROVE \E end : Reading("None", end)
<1>1. AtToken /\ Fail("None", Position + 1)
  BY DEF UnexpectedCharacter
<1> QED
  BY <1>1, AtTokenIs DEF Reading

\* Whatever the iteration is, it reads on or ends the tokens.
LEMMA IterationReads ==
  ASSUME LexerInvariant, Iterate
  PROVE  EndOfFile \/ \E type \in TokenTypes : \E end : Reading(type, end)
<1>1. /\ "None" \in TokenTypes /\ "Identifier" \in TokenTypes /\ "Number" \in TokenTypes
      /\ "String" \in TokenTypes /\ "SpecialRegister" \in TokenTypes
      /\ "SpecialInstruction" \in TokenTypes /\ "Punctuation" \in TokenTypes
  BY DEF TokenTypes
<1>2. CASE SkipBlank
  BY <1>1, <1>2, SkipBlankReads
<1>3. CASE SkipLineComment
  BY <1>1, <1>3, SkipLineCommentReads
<1>4. CASE SkipBlockComment
  BY <1>1, <1>4, SkipBlockCommentReads
<1>5. CASE readIdentifier
  BY <1>1, <1>5, readIdentifierReads
<1>6. CASE readNumber
  BY <1>1, <1>6, readNumberReads
<1>7. CASE readString
  BY <1>1, <1>7, readStringReads
<1>8. CASE readSpecialToken("%", "SpecialRegister")
  BY <1>1, <1>8, readSpecialTokenReads
<1>9. CASE readSpecialToken("#", "SpecialInstruction")
  BY <1>1, <1>9, readSpecialTokenReads
<1>10. CASE ReadPunctuation
  BY <1>1, <1>10, ReadPunctuationReads
<1>11. CASE UnexpectedCharacter
  BY <1>1, <1>11, UnexpectedCharacterReads
<1> QED
  BY <1>2, <1>3, <1>4, <1>5, <1>6, <1>7, <1>8, <1>9, <1>10, <1>11 DEF Iterate

\* A token that begins where the cursor is has its exact location.
LEMMA TokenHereExact ==
  ASSUME LexerInvariant, BeginsCharacter(Position), ~WithinCRLF(Position),
         NEW type \in TokenTypes
  PROVE  TokenExact(TokenHere(type))
<1>1. CursorExact(cursor)
  BY DEF LexerInvariant
<1>2. /\ cursor.position \in 0 .. Size
      /\ cursor.line = LineOf(cursor.position) /\ cursor.column = ColumnOf(cursor.position)
  BY <1>1 DEF CursorExact, Position
<1> QED
  BY <1>2 DEF TokenExact, TokenHere, Position

\* The first state satisfies the invariant.
LEMMA LexerStarts == Init => LexerInvariant
<1> SUFFICES ASSUME Init PROVE LexerInvariant
  OBVIOUS
<1>1. source \in Seq(Bytes)
  BY SourcesAssumption DEF Init
<1>2. CursorExact(cursor) /\ Position = 0
  BY <1>1, StartExact DEF Init, Position, Start
<1>3. BeginsCharacter(0)
  BY <1>1, LineBeginsAre, LinesBeginCharacters
<1>4. TokenExact(token)
  BY <1>1, <1>3, LineCounts, FirstColumn, Text
  DEF Init, TokenExact, TokenTypes, WithinCRLF
<1> QED
  BY <1>1, <1>2, <1>3, <1>4 DEF LexerInvariant, Init

\* Reading on keeps the invariant ...
LEMMA ReadingKeeps ==
  ASSUME LexerInvariant, source' = source, status = "reading",
         NEW type \in TokenTypes, NEW end, Reading(type, end)
  PROVE  LexerInvariant'
<1>1. CursorExact(cursor) /\ source \in Seq(Bytes) /\ BeginsCharacter(Position)
  BY DEF LexerInvariant
<1>2. cursor' = ReadUpTo(end)
  BY DEF Reading, Skip, Accept, Fail
<1>3. end \in cursor.position .. Size
  <2>1. end \in Position + 1 .. Size /\ Position \in 0 .. Size /\ Size \in Nat
    BY <1>1, Text DEF Reading, CursorExact, Position
  <2> QED BY <2>1 DEF Position
<1>4. CursorExact(cursor') /\ cursor'.position = end
  BY <1>1, <1>2, <1>3, ReadUpToExact
<1>5. CursorExact(cursor)' /\ Position' = end
  BY <1>4, CursorKept DEF Position
<1>6. /\ status' \in {"reading", "done", "error"}
      /\ status' = "reading" => BeginsCharacter(end)
  BY DEF Reading, Skip, Accept, Fail
<1>7. BeginsCharacter(end) => BeginsCharacter(Position)'
  BY <1>5, PlaceKept
<1>8. TokenExact(token')
  <2>1. CASE Skip(end)
    BY <2>1 DEF Skip, LexerInvariant
  <2>2. CASE ~WithinCRLF(Position) /\ token' = TokenHere(type)
    BY <2>2, <1>1, TokenHereExact
  <2> QED BY <2>1, <2>2 DEF Reading, Accept, Fail
<1>9. TokenExact(token)'
  BY <1>8, TokenKept
<1> QED
  BY <1>1, <1>5, <1>6, <1>7, <1>9 DEF LexerInvariant

\* ... and so does each step of tokenize.
LEMMA LexerSteps == LexerInvariant /\ [Next]_vars => LexerInvariant'
<1> SUFFICES ASSUME LexerInvariant, [Next]_vars PROVE LexerInvariant'
  OBVIOUS
<1>1. CASE UNCHANGED vars
  <2>1. source' = source /\ CursorExact(cursor') /\ TokenExact(token')
    BY <1>1 DEF vars, LexerInvariant
  <2>2. CursorExact(cursor)' /\ TokenExact(token)'
    BY <2>1, CursorKept, TokenKept
  <2>3. BeginsCharacter(Position) => BeginsCharacter(Position)'
    BY <1>1, <2>1, PlaceKept DEF vars, Position
  <2> QED BY <1>1, <2>1, <2>2, <2>3 DEF vars, LexerInvariant
<1>2. CASE Iterate
  <2>1. source' = source
    BY <1>2 DEF Iterate
  <2>2. status = "reading"
    BY <1>2 DEF Iterate, SkipBlank, SkipLineComment, SkipBlockComment, readIdentifier,
                readNumber, readString, readSpecialToken, ReadPunctuation,
                UnexpectedCharacter, EndOfFile, AtToken
  <2>3. CASE EndOfFile
    <3>1. /\ Position = Size /\ cursor' = cursor /\ status' = "done"
          /\ token' = TokenHere("EndOfFile")
      BY <2>3 DEF EndOfFile
    <3>2. ~WithinCRLF(Position)
      <4>1. ByteAt(Position) = "nul"
        BY <3>1, Text DEF LexerInvariant
      <4> QED BY <4>1 DEF WithinCRLF
    <3>3. TokenExact(token')
      BY <2>2, <3>1, <3>2, TokenHereExact DEF LexerInvariant, TokenTypes
    <3>4. CursorExact(cursor)' /\ TokenExact(token)'
      BY <2>1, <3>1, <3>3, CursorKept, TokenKept DEF LexerInvariant
    <3> QED BY <2>1, <3>1, <3>4 DEF LexerInvariant
  <2>4. CASE ~EndOfFile
    BY <1>2, <2>1, <2>2, <2>4, IterationReads, ReadingKeeps
  <2> QED BY <2>3, <2>4
<1> QED
  BY <1>1, <1>2 DEF Next, Stopped

-----------------------------------------------------------------------------
(***************************************************************************)
(* The inductive invariant of the lexer, for every text: readChar's        *)
(* counters are those of the cursor's place (one line ahead between CR and *)
(* LF), its utf8ContinuationBytes are the bytes that are left of the       *)
(* character, and tokens and comments end where a character does.          *)
(***************************************************************************)
THEOREM LexerInvariantHolds == Spec => []LexerInvariant
  BY LexerStarts, LexerSteps, PTL DEF Spec

(***************************************************************************)
(* On every text no counter of the lexer is ahead of the bytes it has      *)
(* read, and utf8ContinuationBytes, which readChar counts down, stays      *)
(* within 0 .. 3.                                                          *)
(***************************************************************************)
THEOREM LexerTypeCorrect == Spec => []TypeOK
<1>1. LexerInvariant => TypeOK
  BY DEF LexerInvariant, CursorExact, Cursors, TokenExact, TypeOK
<1> QED
  BY <1>1, LexerInvariantHolds, PTL

(***************************************************************************)
(* On every text each token and each error of tokenize is located at the   *)
(* line and at the character where it begins, whatever CR, LF, CRLF, tabs  *)
(* and valid or broken UTF-8 sequences are before it.                      *)
(***************************************************************************)
THEOREM PositionsExactHolds == Spec => []PositionsExact
<1>1. LexerInvariant => PositionsExact
  BY DEF LexerInvariant, TokenExact, PositionsExact
<1> QED
  BY <1>1, LexerInvariantHolds, PTL

(***************************************************************************)
(* On every text sourceLineAt (the library) and printDiagnostics (the      *)
(* driver) find the line that a token's location names by the lexer's      *)
(* count: three walks over the bytes agree on what a line is.              *)
(***************************************************************************)
THEOREM LinesAgreeHolds == Spec => []LinesAgree
<1>1. LexerInvariant => LinesAgree
  BY LinesFound DEF LexerInvariant, TokenExact, LinesAgree, LineAt
<1> QED
  BY <1>1, LexerInvariantHolds, PTL

(***************************************************************************)
(* On every text the caret of printDiagnostics stands below the token's    *)
(* first byte, although it walks over the line by its own rules for tabs   *)
(* and UTF-8 and takes the end of the line for that of the text.           *)
(***************************************************************************)
THEOREM CaretBelowTokenHolds == Spec => []CaretBelowToken
<1>1. LexerInvariant => CaretBelowToken
  BY CaretFound DEF LexerInvariant, TokenExact, CaretBelowToken, WithinCRLF
<1> QED
  BY <1>1, LexerInvariantHolds, PTL

(***************************************************************************)
(* On every text each iteration of tokenize reads a byte or more, or is    *)
(* its last: no scanning loop is entered for nothing.                      *)
(***************************************************************************)
THEOREM ReadsOnHolds == Spec => ReadsOn
<1>1. LexerInvariant /\ [Next]_vars =>
        [cursor'.position > cursor.position \/ status' # "reading"]_vars
  <2> SUFFICES ASSUME LexerInvariant, Next
               PROVE  cursor'.position > cursor.position \/ status' # "reading"
                      \/ UNCHANGED vars
    OBVIOUS
  <2>1. CASE Iterate
    <3>1. CASE EndOfFile
      BY <3>1 DEF EndOfFile
    <3>2. CASE ~EndOfFile
      <4>1. PICK type \in TokenTypes : \E end : Reading(type, end)
        BY <2>1, <3>2, IterationReads
      <4>6. PICK end : Reading(type, end)
        BY <4>1
      <4>2. cursor' = ReadUpTo(end)
        BY <4>6 DEF Reading, Skip, Accept, Fail
      <4>3. end \in Position + 1 .. Size /\ Position \in 0 .. Size /\ Size \in Nat
        BY <4>6, Text DEF Reading, LexerInvariant, CursorExact, Position
      <4>4. end \in cursor.position .. Size /\ end > cursor.position
        BY <4>3 DEF Position
      <4>5. cursor'.position = end
        BY <4>2, <4>4, ReadUpToExact DEF LexerInvariant
      <4> QED BY <4>4, <4>5
    <3> QED BY <3>1, <3>2
  <2> QED BY <2>1 DEF Next, Stopped
<1> QED
  BY <1>1, LexerInvariantHolds, PTL DEF Spec, ReadsOn

-----------------------------------------------------------------------------
(* The search for recursive structs.                                       *)

Frames == [struct : DOMAIN structs, field : Nat \ {0}]

SearchTypeOK ==
  /\ \A s \in DOMAIN structs : structs[s] \in Seq(Fields)
  /\ todo \subseteq DOMAIN structs
  /\ calls \in Seq(Frames)
  /\ visiting \subseteq DOMAIN structs
  /\ visited \subseteq DOMAIN structs
  /\ verdict \in {"searching", "recursive", "accepted"}

\* The parts that a call has looked at.
Seen(frame) ==
  {name \in DOMAIN structs :
     \E k \in DOMAIN structs[frame.struct] :
        /\ k < frame.field
        /\ structs[frame.struct][k].type = name
        /\ structs[frame.struct][k].pointers = 0}

OnePerStruct ==
  /\ visiting = {calls[i].struct : i \in DOMAIN calls}
  /\ \A i, j \in DOMAIN calls : calls[i].struct = calls[j].struct => i = j

Chain == \A i \in DOMAIN calls :
  i + 1 \in DOMAIN calls => calls[i + 1].struct \in Parts(calls[i].struct)

SeenAccounted == \A i \in DOMAIN calls : \A name \in Seen(calls[i]) :
  name \in visited \/ (i + 1 \in DOMAIN calls /\ calls[i + 1].struct = name)

VisitedFinite ==
  /\ visited \cap visiting = {}
  /\ \A s \in visited : Parts(s) \subseteq visited
  /\ \A some \in SUBSET visited : ~Endless(some)

AllReached == DOMAIN structs \subseteq todo \cup visited \cup visiting

SearchInvariant ==
  /\ SearchTypeOK
  /\ verdict = "searching" =>
       OnePerStruct /\ Chain /\ SeenAccounted /\ VisitedFinite /\ AllReached
  /\ RejectsRecursion

-----------------------------------------------------------------------------
\* A chain that comes back to one of its structs is endless from there on.
LEMMA ChainCloses ==
  ASSUME SearchTypeOK, Chain, calls # <<>>,
         NEW j \in DOMAIN calls, calls[j].struct \in Parts(Innermost.struct)
  PROVE  Recursive
<1> DEFINE some == {calls[i].struct : i \in j .. Len(calls)}
<1>1. calls \in Seq(Frames) /\ Len(calls) \in Nat /\ DOMAIN calls = 1 .. Len(calls)
      /\ j \in 1 .. Len(calls)
  BY DEF SearchTypeOK
<1>2. some \in SUBSET DOMAIN structs
  <2> SUFFICES ASSUME NEW i \in j .. Len(calls) PROVE calls[i].struct \in DOMAIN structs
    OBVIOUS
  <2>1. i \in 1 .. Len(calls)
    BY <1>1
  <2>2. calls[i] \in Frames
    BY <2>1, <1>1
  <2> QED
    BY <2>2 DEF Frames
<1>3. \A s \in some : Parts(s) \cap some # {}
  <2> SUFFICES ASSUME NEW i \in j .. Len(calls)
               PROVE  Parts(calls[i].struct) \cap some # {}
    OBVIOUS
  <2>1. CASE i = Len(calls)
    BY <2>1, <1>1, calls[j].struct \in some DEF Innermost
  <2>2. CASE i # Len(calls)
    <3>1. i \in 1 .. Len(calls) /\ i + 1 \in 1 .. Len(calls) /\ i + 1 \in j .. Len(calls)
      <4>1. \A l, m, n \in Nat : m \in 1 .. l /\ n \in m .. l /\ n # l =>
              n \in 1 .. l /\ n + 1 \in 1 .. l /\ n + 1 \in m .. l
        OBVIOUS
      <4>2. i \in Nat /\ j \in Nat
        BY <1>1
      <4> HIDE DEF some
      <4> QED BY <4>1, <4>2, <2>2, <1>1
    <3>2. i \in DOMAIN calls /\ i + 1 \in DOMAIN calls
      BY <3>1, <1>1
    <3> QED
      BY <3>1, <3>2 DEF Chain
  <2> QED
    BY <2>1, <2>2
<1>4. some # {}
  BY <1>1, calls[j].struct \in some
<1> QED
  BY <1>2, <1>3, <1>4 DEF Recursive, Endless

\* With a struct of which all parts are visited, still nothing is endless.
LEMMA FiniteGrows ==
  ASSUME VisitedFinite, NEW new \in DOMAIN structs, new \notin visited,
         Parts(new) \subseteq visited
  PROVE  \A some \in SUBSET (visited \cup {new}) : ~Endless(some)
<1> SUFFICES ASSUME NEW some \in SUBSET (visited \cup {new}), Endless(some)
             PROVE  FALSE
  OBVIOUS
<1>1. \A s \in some : Parts(s) \cap (some \ {new}) # {}
  BY DEF VisitedFinite, Endless
<1>2. some \ {new} # {}
  BY <1>1 DEF Endless
<1>3. Endless(some \ {new})
  BY <1>1, <1>2 DEF Endless
<1> QED
  BY <1>3 DEF VisitedFinite

LEMMA SearchStarts == SearchInit => SearchInvariant
<1> SUFFICES ASSUME SearchInit PROVE SearchInvariant
  OBVIOUS
<1>1. SearchTypeOK
  BY DEF SearchInit, SearchTypeOK
<1>2. ~Endless({}) /\ SUBSET visited = {{}}
  BY DEF Endless, SearchInit
<1>3. OnePerStruct /\ Chain /\ SeenAccounted /\ VisitedFinite /\ AllReached
  <2>1. DOMAIN calls = {}
    BY DEF SearchInit
  <2>2. OnePerStruct /\ Chain /\ SeenAccounted
    BY <2>1 DEF SearchInit, OnePerStruct, Chain, SeenAccounted
  <2> QED
    BY <1>2, <2>2 DEF SearchInit, VisitedFinite, AllReached
<1> QED
  BY <1>1, <1>3 DEF SearchInvariant, RejectsRecursion, SearchInit
-----------------------------------------------------------------------------
\* The innermost frame, and what its loop looks at.
LEMMA InnermostFrame ==
  ASSUME SearchTypeOK, calls # <<>>
  PROVE  /\ Len(calls) \in Nat \ {0}
         /\ DOMAIN calls = 1 .. Len(calls)
         /\ Innermost.struct \in DOMAIN structs
         /\ Innermost.field \in Nat \ {0}
         /\ structs[Innermost.struct] \in Seq(Fields)
         /\ DOMAIN structs[Innermost.struct] = 1 .. Len(structs[Innermost.struct])
<1>1. calls \in Seq(Frames) /\ Len(calls) \in Nat \ {0} /\ DOMAIN calls = 1 .. Len(calls)
  BY DEF SearchTypeOK
<1>2. Innermost \in Frames
  BY <1>1 DEF Innermost
<1> QED
  BY <1>1, <1>2 DEF Frames, SearchTypeOK

\* Going on to the next field leaves the structs of the calls as they are.
LEMMA AdvanceFrame ==
  ASSUME SearchTypeOK, calls # <<>>
  PROVE  /\ NextField \in Seq(Frames)
         /\ Len(NextField) = Len(calls)
         /\ DOMAIN NextField = DOMAIN calls
         /\ \A i \in DOMAIN calls : NextField[i].struct = calls[i].struct
         /\ \A i \in DOMAIN calls : i # Len(calls) => NextField[i] = calls[i]
         /\ NextField[Len(calls)].field = Innermost.field + 1
<1>1. calls \in Seq(Frames) /\ Len(calls) \in Nat \ {0} /\ DOMAIN calls = 1 .. Len(calls)
  BY InnermostFrame DEF SearchTypeOK
<1>2. \A i \in 1 .. Len(calls) : calls[i] \in Frames
  BY <1>1
<1>3. [Innermost EXCEPT !.field = @ + 1] \in Frames
  BY <1>1, <1>2 DEF Frames, Innermost
<1>4. NextField = [i \in 1 .. Len(calls) |->
        IF i = Len(calls) THEN [Innermost EXCEPT !.field = @ + 1] ELSE calls[i]]
  BY <1>1, <1>2 DEF NextField, Innermost, Frames
<1>5. \A i \in 1 .. Len(calls) : NextField[i] \in Frames
  BY <1>2, <1>3, <1>4
<1>6. NextField \in Seq(Frames) /\ Len(NextField) = Len(calls) /\ DOMAIN NextField = DOMAIN calls
  BY <1>1, <1>4, <1>5
<1>7. NextField[Len(calls)].field = Innermost.field + 1
      /\ NextField[Len(calls)].struct = calls[Len(calls)].struct
  BY <1>1, <1>2, <1>4 DEF Frames, Innermost
<1> QED
  BY <1>1, <1>4, <1>6, <1>7

\* What a loop has seen when it goes on: one part more, if its field is one.
LEMMA SeenAdvances ==
  ASSUME SearchTypeOK, calls # <<>>, HasField,
         NEW i \in DOMAIN calls, NEW name \in Seen(NextField[i])
  PROVE  \/ name \in Seen(calls[i])
         \/ i = Len(calls) /\ Field.type = name /\ Field.pointers = 0
<1>1. CASE i # Len(calls)
  BY <1>1, AdvanceFrame
<1>2. CASE i = Len(calls)
  <2>1. NextField[i].struct = calls[i].struct /\ NextField[i].field = calls[i].field + 1
    BY <1>2, AdvanceFrame DEF Innermost
  <2>2. PICK k \in DOMAIN structs[calls[i].struct] :
          /\ k < calls[i].field + 1
          /\ structs[calls[i].struct][k].type = name
          /\ structs[calls[i].struct][k].pointers = 0
    BY <2>1 DEF Seen
  <2>3. k \in Nat /\ calls[i].field \in Nat
    BY <1>2, InnermostFrame DEF Innermost
  <2>4. k < calls[i].field \/ k = calls[i].field
    BY <2>2, <2>3
  <2> QED
    BY <1>2, <2>2, <2>4 DEF Seen, Field, Innermost
<1> QED
  BY <1>1, <1>2

-----------------------------------------------------------------------------
\* The invariant of a search that has not ended.
Steady == SearchTypeOK /\ OnePerStruct /\ Chain /\ SeenAccounted /\ VisitedFinite /\ AllReached

\* VisitedFinite speaks of the structs and of what is visited only.
LEMMA FinitenessKept ==
  ASSUME VisitedFinite, UNCHANGED <<structs, visited>>
  PROVE  /\ (\A s \in visited : Parts(s) \subseteq visited)'
         /\ (\A some \in SUBSET visited : ~Endless(some))'
<1>1. \A s : Parts(s)' = Parts(s)
  BY DEF Parts
<1>2. \A some : Endless(some)' = Endless(some)
  BY <1>1 DEF Endless
<1>3. (\A s \in visited : Parts(s) \subseteq visited)'
  BY <1>1 DEF VisitedFinite
<1>4. (\A some \in SUBSET visited : ~Endless(some))'
  BY <1>2 DEF VisitedFinite
<1> QED
  BY <1>3, <1>4

\* Going on to the next field when there is nothing to visit in this one.
LEMMA AdvanceKeeps ==
  ASSUME Steady, calls # <<>>, HasField,
         Field.pointers = 0 /\ Field.type \in DOMAIN structs => Field.type \in visited,
         calls' = NextField, UNCHANGED <<structs, todo, visiting, visited, verdict>>
  PROVE  Steady'
<1> USE AdvanceFrame
<1>1. SearchTypeOK'
  BY DEF Steady, SearchTypeOK, Frames
<1>2. OnePerStruct'
  BY DEF Steady, OnePerStruct
<1>3. Chain'
  BY DEF Steady, Chain, Parts
<1>4. SeenAccounted'
  <2> SUFFICES ASSUME NEW i \in DOMAIN calls, NEW name \in Seen(NextField[i])
               PROVE  name \in visited
                      \/ (i + 1 \in DOMAIN calls /\ NextField[i + 1].struct = name)
    <3> SUFFICES ASSUME NEW i \in DOMAIN calls', NEW name \in Seen(calls[i])'
                 PROVE  (name \in visited
                          \/ (i + 1 \in DOMAIN calls /\ calls[i + 1].struct = name))'
      BY DEF SeenAccounted
    <3>1. name \in Seen(NextField[i])
      BY DEF Seen
    <3> QED
      BY <3>1 DEF Steady
  <2>1. CASE name \in Seen(calls[i])
    BY <2>1 DEF Steady, SeenAccounted
  <2>2. CASE i = Len(calls) /\ Field.type = name /\ Field.pointers = 0
    BY <2>2 DEF Seen
  <2> QED
    BY <2>1, <2>2, SeenAdvances DEF Steady
<1>5. VisitedFinite' /\ AllReached'
  BY FinitenessKept DEF Steady, VisitedFinite, AllReached
<1> QED
  BY <1>1, <1>2, <1>3, <1>4, <1>5 DEF Steady

\* The field of a loop, when it is a struct by value, is a part.
LEMMA FieldIsPart ==
  ASSUME SearchTypeOK, HasField, Field.pointers = 0, Field.type \in DOMAIN structs
  PROVE  Field.type \in Parts(Innermost.struct)
<1>1. Innermost.field \in DOMAIN structs[Innermost.struct]
  BY InnermostFrame DEF HasField
<1> QED
  BY <1>1 DEF Parts, Field

\* The call for a struct that is not visited and not being visited.
LEMMA VisitKeeps ==
  ASSUME Steady, calls # <<>>, HasField, Field.pointers = 0,
         Field.type \in DOMAIN structs \ visited, Field.type \notin visiting,
         visiting' = visiting \cup {Field.type},
         calls' \in Seq(Frames), DOMAIN calls' = 1 .. Len(calls) + 1,
         calls'[Len(calls) + 1] = [struct |-> Field.type, field |-> 1],
         \A i \in 1 .. Len(calls) : calls'[i] = NextField[i],
         UNCHANGED <<structs, todo, visited, verdict>>
  PROVE  Steady'
<1> DEFINE n == Len(calls)
<1>1. n \in Nat \ {0} /\ DOMAIN calls = 1 .. n
  BY InnermostFrame DEF Steady
<1>2. DOMAIN calls' = 1 .. n + 1
  OBVIOUS
<1>3. \A i \in 1 .. n : calls'[i].struct = calls[i].struct
  BY <1>1, <1>2, AdvanceFrame DEF Steady
<1>4. SearchTypeOK'
  BY <1>2 DEF Steady, SearchTypeOK, Frames
<1>5. OnePerStruct'
  <2>1. {calls'[i].struct : i \in 1 .. n + 1}
          = {calls'[i].struct : i \in 1 .. n} \cup {calls'[n + 1].struct}
    BY <1>1
  <2>2. visiting' = {calls'[i].struct : i \in DOMAIN calls'}
    BY <2>1, <1>1, <1>2, <1>3 DEF Steady, OnePerStruct
  <2>3. ASSUME NEW i \in 1 .. n + 1, NEW j \in 1 .. n + 1, calls'[i].struct = calls'[j].struct
        PROVE  i = j
    <3>1. \A k \in 1 .. n : calls'[k].struct # Field.type
      BY <1>1, <1>3 DEF Steady, OnePerStruct
    <3>2. calls'[n + 1].struct = Field.type
      BY <1>2
    <3>3. CASE i \in 1 .. n /\ j \in 1 .. n
      BY <3>3, <2>3, <1>1, <1>3 DEF Steady, OnePerStruct
    <3>4. (i \in 1 .. n \/ i = n + 1) /\ (j \in 1 .. n \/ j = n + 1)
      BY <1>1
    <3> QED
      BY <2>3, <3>1, <3>2, <3>3, <3>4
  <2> QED
    BY <2>2, <2>3, <1>2 DEF OnePerStruct
<1>6. Chain'
  <2> SUFFICES ASSUME NEW i \in 1 .. n + 1, i + 1 \in 1 .. n + 1
               PROVE  calls'[i + 1].struct \in Parts(calls'[i].struct)
    <3> SUFFICES ASSUME NEW i \in DOMAIN calls', i + 1 \in DOMAIN calls'
                 PROVE  (calls[i + 1].struct \in Parts(calls[i].struct))'
      BY DEF Chain
    <3>1. calls'[i + 1].struct \in Parts(calls'[i].struct)
      BY <1>2
    <3> QED
      BY <3>1 DEF Parts
  <2>1. CASE i = n
    BY <2>1, <1>1, <1>2, <1>3, FieldIsPart DEF Steady, Innermost
  <2>2. CASE i # n
    <3>1. i \in 1 .. n /\ i + 1 \in 1 .. n
      <4> HIDE DEF n
      <4> QED BY <2>2, <1>1
    <3> QED
      BY <3>1, <1>1, <1>3 DEF Steady, Chain
  <2> QED
    BY <2>1, <2>2
<1>7. SeenAccounted'
  <2> SUFFICES ASSUME NEW i \in 1 .. n + 1, NEW name \in Seen(calls'[i])
               PROVE  name \in visited
                      \/ (i + 1 \in 1 .. n + 1 /\ calls'[i + 1].struct = name)
    BY <1>2 DEF SeenAccounted, Seen
  <2>1. CASE i = n + 1
    <3>1. \A k \in DOMAIN structs[Field.type] : ~(k < 1)
      BY DEF Steady, SearchTypeOK
    <3> QED
      BY <2>1, <3>1, <1>2 DEF Seen
  <2>2. CASE i \in 1 .. n
    <3>1. i + 1 \in 1 .. n + 1
      BY <2>2, <1>1
    <3>2. CASE name \in Seen(calls[i])
      BY <3>1, <3>2, <2>2, <1>1, <1>3 DEF Steady, SeenAccounted
    <3>3. CASE i = n /\ Field.type = name
      BY <3>1, <3>3, <1>2
    <3> QED
      BY <3>2, <3>3, <2>2, <1>1, <1>2, SeenAdvances DEF Steady
  <2> QED
    BY <2>1, <2>2, <1>1
<1>8. VisitedFinite'
  <2>1. (visited \cap visiting)' = {}
    BY DEF Steady, VisitedFinite
  <2> QED
    BY <2>1, FinitenessKept DEF Steady, VisitedFinite
<1>9. AllReached'
  BY DEF Steady, AllReached
<1> QED
  BY <1>4, <1>5, <1>6, <1>7, <1>8, <1>9 DEF Steady

\* A call returns: all parts of its struct are visited, and so is the struct.
LEMMA LeaveKeeps ==
  ASSUME Steady, calls # <<>>, ~HasField,
         visiting' = visiting \ {Innermost.struct},
         visited' = visited \cup {Innermost.struct},
         calls' = SubSeq(calls, 1, Len(calls) - 1),
         UNCHANGED <<structs, todo, verdict>>
  PROVE  Steady'
<1> DEFINE n == Len(calls)
<1>1. n \in Nat \ {0} /\ DOMAIN calls = 1 .. n /\ Innermost = calls[n]
      /\ Innermost.struct \in DOMAIN structs /\ calls \in Seq(Frames)
  BY InnermostFrame DEF Steady, SearchTypeOK, Innermost
<1>2. /\ calls' \in Seq(Frames)
      /\ DOMAIN calls' = 1 .. n - 1
      /\ \A i \in 1 .. n - 1 : calls'[i] = calls[i]
  BY <1>1
<1>3. Innermost.struct \in visiting /\ Innermost.struct \notin visited
  BY <1>1 DEF Steady, OnePerStruct, VisitedFinite
<1>4. Parts(Innermost.struct) \subseteq visited
  <2> SUFFICES ASSUME NEW name \in Parts(Innermost.struct) PROVE name \in visited
    OBVIOUS
  <2>1. name \in Seen(Innermost)
    BY InnermostFrame DEF Steady, HasField, Seen, Parts
  <2>2. n + 1 \notin DOMAIN calls /\ n \in DOMAIN calls
    BY <1>1
  <2> QED
    BY <2>1, <2>2, <1>1 DEF Steady, SeenAccounted
<1>5. SearchTypeOK'
  BY <1>1, <1>2 DEF Steady, SearchTypeOK, Frames
<1>6. OnePerStruct'
  <2>1. {calls[i].struct : i \in 1 .. n}
          = {calls[i].struct : i \in 1 .. n - 1} \cup {calls[n].struct}
    BY <1>1
  <2>2. \A i \in 1 .. n - 1 : calls[i].struct # calls[n].struct
    BY <1>1 DEF Steady, OnePerStruct
  <2>3. visiting' = {calls[i].struct : i \in 1 .. n - 1}
    BY <2>1, <2>2, <1>1 DEF Steady, OnePerStruct
  <2>4. \A i, j \in 1 .. n - 1 : calls[i].struct = calls[j].struct => i = j
    BY <1>1 DEF Steady, OnePerStruct
  <2>5. {calls'[i].struct : i \in 1 .. n - 1} = {calls[i].struct : i \in 1 .. n - 1}
    BY <1>2
  <2>6. \A i, j \in 1 .. n - 1 : calls'[i].struct = calls'[j].struct => i = j
    BY <2>4, <1>2
  <2> QED
    BY <2>3, <2>5, <2>6, <1>2 DEF OnePerStruct
<1>7. Chain'
  <2> SUFFICES ASSUME NEW i \in DOMAIN calls', i + 1 \in DOMAIN calls'
               PROVE  (calls[i + 1].struct \in Parts(calls[i].struct))'
    BY DEF Chain
  <2>1. i \in DOMAIN calls /\ i + 1 \in DOMAIN calls
    BY <1>1, <1>2
  <2>2. calls'[i + 1].struct \in Parts(calls'[i].struct)
    BY <2>1, <1>2 DEF Steady, Chain
  <2> QED
    BY <2>2 DEF Parts
<1>8. SeenAccounted'
  <2> SUFFICES ASSUME NEW i \in DOMAIN calls', NEW name \in Seen(calls[i])'
               PROVE  (name \in visited
                        \/ (i + 1 \in DOMAIN calls /\ calls[i + 1].struct = name))'
    BY DEF SeenAccounted
  <2>1. i \in DOMAIN calls /\ name \in Seen(calls[i])
    BY <1>1, <1>2 DEF Seen
  <2>2. name \in visited \/ (i + 1 \in DOMAIN calls /\ calls[i + 1].struct = name)
    BY <2>1 DEF Steady, SeenAccounted
  <2>3. CASE i + 1 \in 1 .. n - 1
    BY <2>2, <2>3, <1>2
  <2>4. CASE i + 1 = n
    BY <2>2, <2>4, <1>1
  <2> QED
    BY <2>3, <2>4, <1>1, <1>2
<1>9. VisitedFinite'
  <2>1. \A s : Parts(s)' = Parts(s)
    BY DEF Parts
  <2>2. \A some : Endless(some)' = Endless(some)
    BY <2>1 DEF Endless
  <2>3. (visited \cap visiting)' = {}
    BY DEF Steady, VisitedFinite
  <2>4. (\A s \in visited : Parts(s) \subseteq visited)'
    BY <2>1, <1>4 DEF Steady, VisitedFinite
  <2>5. (\A some \in SUBSET visited : ~Endless(some))'
    BY <2>2, <1>1, <1>3, <1>4, FiniteGrows DEF Steady
  <2> QED
    BY <2>3, <2>4, <2>5 DEF VisitedFinite
<1>10. AllReached'
  BY DEF Steady, AllReached
<1> QED
  BY <1>5, <1>6, <1>7, <1>8, <1>9, <1>10 DEF Steady

\* The first call, for a struct that no earlier search has visited.
LEMMA StartKeeps ==
  ASSUME Steady, calls = <<>>, NEW name \in DOMAIN structs, name \notin visited,
         todo' = todo \ {name}, visiting' = visiting \cup {name},
         calls' = <<[struct |-> name, field |-> 1]>>,
         UNCHANGED <<structs, visited, verdict>>
  PROVE  Steady'
<1>1. DOMAIN calls' = {1} /\ calls'[1] = [struct |-> name, field |-> 1] /\ visiting = {}
  BY DEF Steady, OnePerStruct
<1>2. SearchTypeOK'
  BY DEF Steady, SearchTypeOK, Frames
<1>3. OnePerStruct' /\ Chain'
  BY <1>1 DEF OnePerStruct, Chain
<1>4. SeenAccounted'
  <2> SUFFICES ASSUME NEW i \in DOMAIN calls', NEW part \in Seen(calls[i])'
               PROVE  FALSE
    BY DEF SeenAccounted
  <2>1. \A k \in DOMAIN structs[name] : ~(k < 1)
    BY DEF Steady, SearchTypeOK
  <2> QED
    BY <1>1, <2>1 DEF Seen
<1>5. VisitedFinite'
  BY <1>1, FinitenessKept DEF Steady, VisitedFinite
<1>6. AllReached'
  BY DEF Steady, AllReached
<1> QED
  BY <1>2, <1>3, <1>4, <1>5, <1>6 DEF Steady

\* When a search ends in another verdict, it is right.
LEMMA VerdictRight ==
  ASSUME SearchTypeOK', structs' = structs,
         \/ verdict' = "recursive" /\ Recursive
         \/ verdict' = "accepted" /\ ~Recursive
  PROVE  SearchInvariant'
<1>1. Recursive' = Recursive
  <2>1. \A s : Parts(s)' = Parts(s)
    BY DEF Parts
  <2>2. \A some : Endless(some)' = Endless(some)
    BY <2>1 DEF Endless
  <2> QED
    BY <2>2 DEF Recursive
<1> QED
  BY <1>1 DEF SearchInvariant, RejectsRecursion

LEMMA SearchSteps == SearchInvariant /\ [Search]_search => SearchInvariant'
<1> SUFFICES ASSUME SearchInvariant, [Search]_search PROVE SearchInvariant'
  OBVIOUS
<1>1. CASE UNCHANGED search
  <2>1. RejectsRecursion'
    <3>1. \A s : Parts(s)' = Parts(s)
      BY <1>1 DEF Parts, search
    <3>2. \A some : Endless(some)' = Endless(some)
      BY <3>1 DEF Endless
    <3>3. Recursive' = Recursive
      BY <3>2, <1>1 DEF Recursive, search
    <3> QED
      BY <3>3, <1>1 DEF SearchInvariant, RejectsRecursion, search
  <2>2. SearchTypeOK'
    BY <1>1 DEF SearchInvariant, SearchTypeOK, search, Frames
  <2>3. verdict' = "searching" => (OnePerStruct /\ Chain /\ SeenAccounted)'
    <3>1. \A s : Parts(s)' = Parts(s)
      BY <1>1 DEF Parts, search
    <3>2. \A f : Seen(f)' = Seen(f)
      BY <1>1 DEF Seen, search
    <3> QED
      BY <3>1, <3>2, <1>1
      DEF SearchInvariant, OnePerStruct, Chain, SeenAccounted, search
  <2>4. verdict' = "searching" => (VisitedFinite /\ AllReached)'
    BY <1>1, FinitenessKept DEF SearchInvariant, VisitedFinite, AllReached, search
  <2> QED
    BY <2>1, <2>2, <2>3, <2>4 DEF SearchInvariant
<1>2. CASE Search
  <2> SUFFICES \/ Steady' /\ verdict' = "searching"
               \/ SearchTypeOK' /\ structs' = structs
                  /\ \/ verdict' = "recursive" /\ Recursive
                     \/ verdict' = "accepted" /\ ~Recursive
    BY VerdictRight DEF SearchInvariant, Steady, RejectsRecursion
  <2>1. Steady /\ verdict = "searching"
    BY <1>2 DEF Search, StartSearch, VisitField, SkipPointer, LeaveStruct, EndSearch,
                Searching, SearchInvariant, Steady
  <2>2. CASE StartSearch
    <3>1. PICK name \in todo : todo' = todo \ {name} /\ Visit(name, <<>>)
      BY <2>2 DEF StartSearch
    <3>2. calls = <<>> /\ visiting = {} /\ name \in DOMAIN structs
          /\ UNCHANGED <<structs, visited>>
      BY <2>1, <2>2 DEF StartSearch, Steady, OnePerStruct, SearchTypeOK
    <3>3. CASE name \in visited
      <4>1. calls' = calls /\ UNCHANGED <<visiting, verdict>>
        BY <3>1, <3>2, <3>3 DEF Visit
      <4>2. SearchTypeOK' /\ OnePerStruct' /\ AllReached'
        BY <2>1, <3>1, <3>2, <3>3, <4>1
        DEF Steady, SearchTypeOK, OnePerStruct, AllReached, Frames
      <4>3. Chain' /\ SeenAccounted'
        BY <3>2, <4>1 DEF Chain, SeenAccounted
      <4>4. VisitedFinite'
        BY <2>1, <3>2, <4>1, FinitenessKept DEF Steady, VisitedFinite
      <4> QED
        BY <2>1, <4>1, <4>2, <4>3, <4>4 DEF Steady
    <3>4. CASE name \notin visited
      <4>1. /\ visiting' = visiting \cup {name}
            /\ calls' = <<[struct |-> name, field |-> 1]>>
            /\ UNCHANGED verdict
        BY <3>1, <3>2, <3>4 DEF Visit
      <4> QED
        BY <2>1, <3>1, <3>2, <3>4, <4>1, StartKeeps
    <3> QED
      BY <3>3, <3>4
  <2>3. CASE VisitField
    <3>1. /\ calls # <<>> /\ HasField /\ Field.pointers = 0
          /\ Visit(Field.type, NextField) /\ UNCHANGED <<structs, todo, visited>>
      BY <2>3 DEF VisitField, HasField
    <3>2. CASE Field.type \in visited \/ Field.type \notin DOMAIN structs
      <4>1. calls' = NextField /\ UNCHANGED <<visiting, verdict>>
        BY <3>1, <3>2 DEF Visit
      <4> QED
        BY <2>1, <3>1, <3>2, <4>1, AdvanceKeeps
    <3>3. CASE Field.type \in DOMAIN structs \ visited /\ Field.type \in visiting
      <4>1. verdict' = "recursive" /\ calls' = NextField /\ UNCHANGED visiting
        BY <3>1, <3>3 DEF Visit
      <4>2. SearchTypeOK'
        BY <2>1, <3>1, <4>1, AdvanceFrame DEF Steady, SearchTypeOK, Frames
      <4>3. PICK j \in DOMAIN calls : calls[j].struct = Field.type
        BY <2>1, <3>3 DEF Steady, OnePerStruct
      <4>4. Recursive
        BY <2>1, <3>1, <3>3, <4>3, FieldIsPart, ChainCloses DEF Steady
      <4> QED
        BY <3>1, <4>1, <4>2, <4>4
    <3>4. CASE Field.type \in DOMAIN structs \ visited /\ Field.type \notin visiting
      <4> DEFINE frame == [struct |-> Field.type, field |-> 1]
      <4>1. /\ visiting' = visiting \cup {Field.type}
            /\ calls' = Append(NextField, frame)
            /\ UNCHANGED verdict
        BY <3>1, <3>4 DEF Visit
      <4>2. /\ NextField \in Seq(Frames) /\ Len(NextField) = Len(calls)
            /\ Len(calls) \in Nat /\ frame \in Frames
        BY <2>1, <3>1, <3>4, AdvanceFrame, InnermostFrame DEF Steady, Frames
      <4>3. /\ Append(NextField, frame) \in Seq(Frames)
            /\ DOMAIN Append(NextField, frame) = 1 .. Len(calls) + 1
            /\ Append(NextField, frame)[Len(calls) + 1] = frame
            /\ \A i \in 1 .. Len(calls) : Append(NextField, frame)[i] = NextField[i]
        <5> HIDE DEF frame, NextField
        <5> QED BY <4>2
      <4> QED
        BY <2>1, <3>1, <3>4, <4>1, <4>3, VisitKeeps
    <3> QED
      BY <3>2, <3>3, <3>4
  <2>4. CASE SkipPointer
    BY <2>1, <2>4, AdvanceKeeps DEF SkipPointer, HasField
  <2>5. CASE LeaveStruct
    BY <2>1, <2>5, LeaveKeeps DEF LeaveStruct
  <2>6. CASE EndSearch
    <3>1. verdict' = "accepted" /\ UNCHANGED <<structs, todo, calls, visiting, visited>>
      BY <2>6 DEF EndSearch
    <3>2. SearchTypeOK'
      BY <2>1, <3>1 DEF Steady, SearchTypeOK, Frames
    <3>3. DOMAIN structs \subseteq visited
      BY <2>1, <2>6 DEF EndSearch, Steady, AllReached, OnePerStruct
    <3>4. ~Recursive
      BY <2>1, <3>3 DEF Steady, VisitedFinite, Recursive
    <3> QED
      BY <3>1, <3>2, <3>4
  <2> QED
    BY <1>2, <2>2, <2>3, <2>4, <2>5, <2>6 DEF Search
<1> QED
  BY <1>1, <1>2

-----------------------------------------------------------------------------
(***************************************************************************)
(* The inductive invariant of the search (visitStructByValue with the two  *)
(* sets that its starts share), whatever structs there are.                *)
(***************************************************************************)
THEOREM SearchInvariantHolds == SearchSpec => []SearchInvariant
  BY SearchStarts, SearchSteps, PTL DEF SearchSpec

(***************************************************************************)
(* The search accepts no structs that contain each other endlessly, and    *)
(* refuses no others, for any number of structs and fields and any order   *)
(* of the unordered_map.                                                   *)
(***************************************************************************)
THEOREM RecursionRejected == SearchSpec => []RejectsRecursion
<1>1. SearchInvariant => RejectsRecursion
  BY DEF SearchInvariant
<1> QED
  BY <1>1, SearchInvariantHolds, PTL
=============================================================================
