------------------------- MODULE BoundedViewProofs -------------------------
(***************************************************************************)
(* Bounded views never leave their storage, and behave as sequences of     *)
(* cells: for every number of views, size of element, width of addresses   *)
(* and operands.                                                           *)
(***************************************************************************)
EXTENDS BoundedView, SequenceTheorems, TLAPS

\* A view register that counts only elements of array literals.  One past its
\* last element is still an address, so that slicing does not wrap.
InStorage(r) ==
  /\ r.length <= MaxLiteral
  /\ r.data + r.length * ElementSize < AddressSpace
  /\ \A i \in 0 .. r.length - 1 : r.data + i * ElementSize \in stack

StackOK == \A a \in stack : a # Null /\ a + ElementSize < AddressSpace

\* The inductive invariant.
ViewInv ==
  /\ TypeOK
  /\ StackOK
  /\ \A v \in View : InStorage(views[v])

-----------------------------------------------------------------------------
\* Multiplication by the size of an element.
LEMMA Scaled ==
  ASSUME NEW i \in Nat
  PROVE  i * ElementSize \in Nat
BY ViewSpaceAssumption, SMT

LEMMA ScaledMonotonic ==
  ASSUME NEW i \in Nat, NEW j \in Nat, i <= j
  PROVE  i * ElementSize <= j * ElementSize
BY ViewSpaceAssumption, SMT

LEMMA ScaledSum ==
  ASSUME NEW i \in Nat, NEW j \in Nat
  PROVE  (i + j) * ElementSize = i * ElementSize + j * ElementSize
BY ViewSpaceAssumption, SMT

LEMMA AddressUnwrapped ==
  ASSUME NEW x \in Nat, x < AddressSpace
  PROVE  x % AddressSpace = x
BY ViewSpaceAssumption, SMT

LEMMA WordUnwrapped ==
  ASSUME NEW x \in Nat, x < WordSpace
  PROVE  x % WordSpace = x
BY ViewSpaceAssumption, SMT

\* Widening keeps a number that is not negative, and makes a negative one
\* larger than every length.
LEMMA ConvertedNumber ==
  ASSUME NEW o \in Operand
  PROVE  /\ Converted(o) \in Word
         /\ Number(o) \in Int
         /\ 0 <= Number(o) => Converted(o) = Number(o)
         /\ Number(o) < 0 => MaxLiteral < Converted(o)
<1>1. /\ o.space \in Nat /\ o.bits \in 0 .. o.space - 1
      /\ o.space <= WordSpace
  BY OperandAssumption
<1>2. CASE o.unsigned \/ 2 * o.bits < o.space
  BY <1>1, <1>2, ViewSpaceAssumption, SMT DEF Converted, Number, Word
<1>3. CASE ~(o.unsigned \/ 2 * o.bits < o.space)
  <2>1. Converted(o) = WordSpace - o.space + o.bits /\ Number(o) = o.bits - o.space
    BY <1>3 DEF Converted, Number
  <2>2. o.space <= 2 * o.bits
    BY <1>1, <1>3, SMT
  <2> QED
    BY <1>1, <2>1, <2>2, ViewSpaceAssumption, SMT DEF Word
<1> QED
  BY <1>2, <1>3

\* An element of a view is where the address arithmetic says, and passes the
\* checks of null and of wrapping.
LEMMA ElementInside ==
  ASSUME ViewInv, NEW v \in View, NEW i \in Nat, i < views[v].length
  PROVE  /\ ElementAddress(views[v].data, i) = views[v].data + i * ElementSize
         /\ views[v].data + i * ElementSize \in stack
         /\ ~AccessFaults(v, i)
<1> DEFINE a == views[v].data + i * ElementSize
<1>1. views[v].data \in Address /\ views[v].length \in Nat
  BY SMT DEF ViewInv, TypeOK, Word
<1>2. a \in stack
  <2>1. i \in 0 .. views[v].length - 1
    BY <1>1, SMT
  <2>2. InStorage(views[v])
    BY DEF ViewInv
  <2>3. \A j \in 0 .. views[v].length - 1 : views[v].data + j * ElementSize \in stack
    BY <2>2 DEF InStorage
  <2> QED
    BY <2>1, <2>3
<1>3. a \in Address /\ a # Null /\ a + ElementSize < AddressSpace
  BY <1>2 DEF ViewInv, TypeOK, StackOK
<1>4. a \in Nat /\ a + ElementSize \in Nat
  BY <1>3, ViewSpaceAssumption, SMT DEF Address
<1>5. a % AddressSpace = a /\ (a + ElementSize) % AddressSpace = a + ElementSize
  <2>1. a < AddressSpace
    BY <1>3, ViewSpaceAssumption, SMT DEF Address
  <2> QED
    BY <1>3, <1>4, <2>1, AddressUnwrapped
<1>6. views[v].data # Null
  <2>1. 0 \in 0 .. views[v].length - 1
    BY <1>1, SMT
  <2>2. views[v].data + 0 * ElementSize \in stack
    BY <2>1 DEF ViewInv, InStorage
  <2>3. views[v].data + 0 * ElementSize = views[v].data
    BY <1>1, ViewSpaceAssumption, SMT DEF Address
  <2> QED
    BY <2>2, <2>3 DEF ViewInv, StackOK
<1>7. ElementAddress(views[v].data, i) = a
  BY <1>5 DEF ElementAddress
<1>8. ~(i >= views[v].length) /\ ~((a + ElementSize) % AddressSpace < a)
  BY <1>1, <1>3, <1>4, <1>5, ViewSpaceAssumption, SMT DEF Address
<1> QED
  BY <1>2, <1>3, <1>6, <1>7, <1>8 DEF AccessFaults

\* Any part of a view is a view of the same storage.
LEMMA SliceInside ==
  ASSUME ViewInv, NEW w \in View, NEW start \in Nat, NEW count \in Nat,
         start + count <= views[w].length
  PROVE  LET r == [data |-> ElementAddress(views[w].data, start), length |-> count]
         IN  /\ InStorage(r) /\ r \in [data : Address, length : Word]
             /\ r.data = views[w].data + start * ElementSize
<1> DEFINE d == views[w].data
           n == views[w].length
           r == [data |-> ElementAddress(d, start), length |-> count]
<1>1. /\ d \in Address /\ n \in Word /\ n \in Nat /\ n <= MaxLiteral
      /\ d + n * ElementSize < AddressSpace
      /\ \A i \in 0 .. n - 1 : d + i * ElementSize \in stack
  <2>1. InStorage(views[w])
    BY DEF ViewInv
  <2>2. /\ n <= MaxLiteral /\ d + n * ElementSize < AddressSpace
        /\ \A i \in 0 .. n - 1 : d + i * ElementSize \in stack
    BY <2>1 DEF InStorage
  <2>3. d \in Address /\ n \in Word /\ n \in Nat
    BY SMT DEF ViewInv, TypeOK, Word
  <2> QED
    BY <2>2, <2>3
<1>2. /\ (start + count) * ElementSize <= n * ElementSize
      /\ (start + count) * ElementSize = start * ElementSize + count * ElementSize
      /\ start * ElementSize \in Nat /\ count * ElementSize \in Nat /\ n * ElementSize \in Nat
  <2>1. start + count \in Nat
    BY SMT
  <2>2. (start + count) * ElementSize <= n * ElementSize
    BY <1>1, <2>1, ScaledMonotonic
  <2> QED
    BY <1>1, <2>2, Scaled, ScaledSum
<1>3. d + start * ElementSize \in Address
  <2> DEFINE a == start * ElementSize b == count * ElementSize c == n * ElementSize
             e == (start + count) * ElementSize
  <2>1. a \in Nat /\ b \in Nat /\ c \in Nat /\ e <= c /\ e = a + b /\ d + c < AddressSpace
    BY <1>1, <1>2
  <2> HIDE DEF a, b, c, e
  <2>2. d + a \in Address
    BY <1>1, <2>1, ViewSpaceAssumption, SMT DEF Address
  <2> QED
    BY <2>2 DEF a
<1>4. r.data = d + start * ElementSize
  BY <1>3, AddressUnwrapped, ViewSpaceAssumption, SMT DEF ElementAddress, Address
<1>5. r.data + count * ElementSize < AddressSpace
  <2> DEFINE a == start * ElementSize b == count * ElementSize c == n * ElementSize
             e == (start + count) * ElementSize
  <2>1. /\ a \in Nat /\ b \in Nat /\ c \in Nat /\ e <= c /\ e = a + b
        /\ d + c < AddressSpace /\ r.data = d + a
    BY <1>1, <1>2, <1>4
  <2> HIDE DEF a, b, c, e, r
  <2>2. r.data + b < AddressSpace
    BY <1>1, <2>1, ViewSpaceAssumption, SMT DEF Address
  <2> QED
    BY <2>2 DEF b
<1>6. ASSUME NEW i \in 0 .. count - 1 PROVE r.data + i * ElementSize \in stack
  <2>1. i \in Nat /\ start + i \in 0 .. n - 1
    BY <1>1, SMT
  <2>2. (start + i) * ElementSize = start * ElementSize + i * ElementSize
    BY <2>1, ScaledSum
  <2>3. d + (start + i) * ElementSize \in stack
    BY <1>1, <2>1
  <2>4. d + (start + i) * ElementSize = r.data + i * ElementSize
    <3> DEFINE a == start * ElementSize b == i * ElementSize
               e == (start + i) * ElementSize
    <3>1. a \in Nat /\ b \in Nat /\ e = a + b /\ r.data = d + a
      BY <1>2, <1>4, <2>1, <2>2, Scaled
    <3> HIDE DEF a, b, e, r
    <3>2. d + e = r.data + b
      BY <1>1, <3>1, ViewSpaceAssumption, SMT DEF Address
    <3> QED
      BY <3>2 DEF b, e
  <2> QED
    BY <2>3, <2>4
<1>7. r.length <= MaxLiteral /\ count \in Word
  BY <1>1, ViewSpaceAssumption, SMT DEF Word
<1>8. r.data \in Address
  BY <1>3, <1>4
<1>9. InStorage(r)
  <2> HIDE DEF r
  <2>1. r.length = count
    BY DEF r
  <2> QED
    BY <1>5, <1>6, <1>7, <2>1 DEF InStorage
<1>10. r \in [data : Address, length : Word]
  BY <1>7, <1>8
<1> QED
  BY <1>4, <1>9, <1>10

LEMMA Divided ==
  ASSUME NEW i \in Nat
  PROVE  (i * ElementSize) \div ElementSize = i
BY ViewSpaceAssumption, SMT

\* What an array literal is given: addresses that are neither null nor at the
\* end, one for each element.
LEMMA ArrayInside ==
  ASSUME NEW n \in Nat, NEW base \in Address, CanAllocate(base, n)
  PROVE  /\ base + n * ElementSize < AddressSpace
         /\ \A i \in 0 .. n - 1 :
              /\ base + i * ElementSize \in Address
              /\ base + i * ElementSize # Null
              /\ base + i * ElementSize + ElementSize < AddressSpace
<1>1. base + n * ElementSize < AddressSpace /\ base # Null
  BY DEF CanAllocate
<1>2. ASSUME NEW i \in 0 .. n - 1
      PROVE  /\ base + i * ElementSize \in Address
             /\ base + i * ElementSize # Null
             /\ base + i * ElementSize + ElementSize < AddressSpace
  <2>1. i \in Nat /\ i + 1 \in Nat /\ i + 1 <= n /\ 1 \in Nat
    BY SMT
  <2>2. (i + 1) * ElementSize <= n * ElementSize
    BY <2>1, ScaledMonotonic
  <2>3. (i + 1) * ElementSize = i * ElementSize + 1 * ElementSize
    BY <2>1, ScaledSum
  <2>4. 1 * ElementSize = ElementSize
    BY ViewSpaceAssumption, SMT
  <2>5. i * ElementSize \in Nat /\ n * ElementSize \in Nat
    BY <2>1, Scaled
  <2> DEFINE a == i * ElementSize b == n * ElementSize c == (i + 1) * ElementSize
  <2>7. /\ a \in Nat /\ b \in Nat /\ c <= b /\ c = a + ElementSize
        /\ base + b < AddressSpace
    BY <1>1, <2>2, <2>3, <2>4, <2>5
  <2> HIDE DEF a, b, c
  <2>8. /\ base + a \in Address /\ base + a # Null
        /\ base + a + ElementSize < AddressSpace
    BY <1>1, <2>7, ViewSpaceAssumption, SMT DEF Address, Null
  <2> QED
    BY <2>7, <2>8 DEF a
<1> QED
  BY <1>1, <1>2

-----------------------------------------------------------------------------
LEMMA ViewInit == Init => ViewInv
<1> SUFFICES ASSUME Init PROVE ViewInv
  OBVIOUS
<1>1. Null \in Address /\ 0 \in Word
  BY ViewSpaceAssumption, SMT DEF Null, Address, Word
<1>2. TypeOK
  BY <1>1 DEF Init, TypeOK
<1>3. ASSUME NEW v \in View PROVE InStorage(views[v])
  <2>1. views[v].data = 0 /\ views[v].length = 0
    BY DEF Init, Null
  <2>2. 0 + 0 * ElementSize < AddressSpace /\ 0 <= MaxLiteral
    BY ViewSpaceAssumption, SMT
  <2>3. 0 .. 0 - 1 = {}
    BY SMT
  <2> QED
    BY <2>1, <2>2, <2>3 DEF InStorage
<1>4. StackOK
  BY DEF Init, StackOK
<1> QED
  BY <1>2, <1>3, <1>4 DEF ViewInv

\* A step that leaves the storage alone and gives one view a part of it.
LEMMA ViewChanged ==
  ASSUME ViewInv, NEW v \in View, NEW r \in [data : Address, length : Word],
         InStorage(r), views' = [views EXCEPT ![v] = r],
         result' \in Value \cup {NoValue} \cup Word,
         UNCHANGED <<memory, stack, trapped>>
  PROVE  ViewInv'
<1>1. TypeOK'
  BY DEF ViewInv, TypeOK
<1>2. ASSUME NEW u \in View PROVE InStorage(views[u])'
  <2>1. InStorage(views'[u])
    <3>1. CASE u = v
      BY <3>1 DEF ViewInv, TypeOK
    <3>2. CASE u # v
      BY <3>2 DEF ViewInv, TypeOK
    <3> QED
      BY <3>1, <3>2
  <2> QED
    BY <2>1 DEF InStorage
<1>3. StackOK'
  BY DEF ViewInv, StackOK
<1> QED
  BY <1>1, <1>2, <1>3 DEF ViewInv

\* A step that leaves the views and the storage alone.
LEMMA ViewsKept ==
  ASSUME ViewInv, UNCHANGED <<views, stack>>,
         memory' \in [Address -> Value \cup {NoValue}],
         result' \in Value \cup {NoValue} \cup Word, trapped' \in BOOLEAN
  PROVE  ViewInv'
<1>1. TypeOK'
  BY DEF ViewInv, TypeOK
<1>2. StackOK'
  BY DEF ViewInv, StackOK
<1>3. ASSUME NEW u \in View PROVE InStorage(views[u])'
  <2>1. InStorage(views[u])
    BY DEF ViewInv
  <2> QED
    BY <2>1 DEF InStorage
<1> QED
  BY <1>1, <1>2, <1>3 DEF ViewInv

LEMMA TrapKeeps == ViewInv /\ Trap => ViewInv'
<1> SUFFICES ASSUME ViewInv, Trap PROVE ViewInv'
  OBVIOUS
<1>1. UNCHANGED <<views, stack>> /\ memory' = memory /\ result' = NoValue /\ trapped' = TRUE
  BY DEF Trap
<1>2. memory' \in [Address -> Value \cup {NoValue}]
  BY <1>1 DEF ViewInv, TypeOK
<1>3. result' \in Value \cup {NoValue} \cup Word /\ trapped' \in BOOLEAN
  BY <1>1
<1> QED
  BY <1>1, <1>2, <1>3, ViewsKept

LEMMA LiteralKeeps ==
  ASSUME NEW v \in View, NEW n \in 0 .. MaxLiteral, NEW values \in [1 .. n -> Value],
         NEW base \in Address, ViewInv, ArrayLiteral(v, values, base)
  PROVE  ViewInv'
<1> DEFINE r == [data |-> base, length |-> n]
<1>1. n \in Nat /\ n <= MaxLiteral /\ Len(values) = n
  <2>1. n \in Nat /\ n <= MaxLiteral
    BY ViewSpaceAssumption, SMT
  <2>2. values \in Seq(Value)
    BY <2>1, SeqDef
  <2> QED
    BY <2>1, <2>2, LenProperties, SMT
<1>2. /\ CanAllocate(base, n)
      /\ views' = [views EXCEPT ![v] = r]
      /\ stack' = stack \cup ArrayAt(base, n)
      /\ result' = NoValue /\ trapped' = trapped
  BY <1>1 DEF ArrayLiteral
<1>3. /\ base + n * ElementSize < AddressSpace
      /\ \A i \in 0 .. n - 1 :
           /\ base + i * ElementSize \in Address
           /\ base + i * ElementSize # Null
           /\ base + i * ElementSize + ElementSize < AddressSpace
  BY <1>1, <1>2, ArrayInside
<1>4. ArrayAt(base, n) \subseteq Address
  BY <1>3 DEF ArrayAt
<1>5. \A a \in ArrayAt(base, n) : a # Null /\ a + ElementSize < AddressSpace
  BY <1>3 DEF ArrayAt
<1>6. ASSUME NEW a \in ArrayAt(base, n)
      PROVE  values[(a - base) \div ElementSize + 1] \in Value
  <2>1. PICK i \in 0 .. n - 1 : a = base + i * ElementSize
    BY DEF ArrayAt
  <2>2. (a - base) \div ElementSize = i
    <3> DEFINE x == i * ElementSize
    <3>1. i \in Nat /\ x \in Nat /\ x \div ElementSize = i /\ a = base + x
      BY <1>1, <2>1, Scaled, Divided, SMT
    <3> HIDE DEF x
    <3>2. a - base = x
      BY <3>1, ViewSpaceAssumption, SMT DEF Address
    <3> QED
      BY <3>1, <3>2
  <2>3. i + 1 \in 1 .. n
    BY <1>1, SMT
  <2> QED
    BY <2>2, <2>3
<1>7. memory' \in [Address -> Value \cup {NoValue}]
  BY <1>1, <1>6 DEF ArrayLiteral, ViewInv, TypeOK
<1>8. r \in [data : Address, length : Word]
  BY <1>1, ViewSpaceAssumption, SMT DEF Word
<1>9. TypeOK'
  <2>1. views' \in [View -> [data : Address, length : Word]]
    BY <1>2, <1>8 DEF ViewInv, TypeOK
  <2>2. stack' \subseteq Address
    BY <1>2, <1>4 DEF ViewInv, TypeOK
  <2> QED
    BY <1>2, <1>7, <2>1, <2>2 DEF ViewInv, TypeOK
<1>10. StackOK'
  BY <1>2, <1>5 DEF ViewInv, StackOK
<1>11. ASSUME NEW u \in View PROVE InStorage(views[u])'
  <2>1. CASE u = v
    <3>1. views'[u] = r
      BY <1>2, <2>1 DEF ViewInv, TypeOK
    <3>2. \A i \in 0 .. n - 1 : base + i * ElementSize \in stack'
      BY <1>2 DEF ArrayAt
    <3>3. views'[u].data = base /\ views'[u].length = n
      BY <3>1
    <3>4. base + n * ElementSize < AddressSpace /\ n <= MaxLiteral
      BY <1>1, <1>3
    <3> HIDE DEF r
    <3> QED
      BY <3>2, <3>3, <3>4 DEF InStorage
  <2>2. CASE u # v
    <3>1. views'[u] = views[u] /\ InStorage(views[u]) /\ stack \subseteq stack'
      BY <1>2, <2>2 DEF ViewInv, TypeOK
    <3> QED
      BY <3>1 DEF InStorage
  <2> QED
    BY <2>1, <2>2
<1> QED
  BY <1>9, <1>10, <1>11 DEF ViewInv

\* The start and the count of a slice that passes both comparisons.
LEMMA SliceFits ==
  ASSUME ViewInv, NEW w \in View, NEW start \in Word, NEW count \in Word
  PROVE  SliceOutOfBounds(w, start, count) <=> ~(start + count <= views[w].length)
<1>1. views[w].length \in Word
  BY DEF ViewInv, TypeOK
<1>2. CASE start > views[w].length
  BY <1>1, <1>2, ViewSpaceAssumption, SMT DEF SliceOutOfBounds, Word
<1>3. CASE start <= views[w].length
  <2>1. views[w].length - start \in Nat /\ views[w].length - start < WordSpace
    BY <1>1, <1>3, ViewSpaceAssumption, SMT DEF Word
  <2>2. (views[w].length - start) % WordSpace = views[w].length - start
    BY <2>1, WordUnwrapped
  <2> QED
    BY <1>1, <1>3, <2>2, ViewSpaceAssumption, SMT DEF SliceOutOfBounds, Word
<1> QED
  BY <1>1, <1>2, <1>3, ViewSpaceAssumption, SMT DEF Word

LEMMA SliceKeeps ==
  ASSUME NEW v \in View, NEW w \in View, NEW first \in Operand, NEW second \in Operand,
         ViewInv, ViewSlice(v, w, first, second)
  PROVE  ViewInv'
<1> DEFINE start == Converted(first)
           count == Converted(second)
           r == [data |-> ElementAddress(views[w].data, start), length |-> count]
<1>1. start \in Word /\ count \in Word /\ start \in Nat /\ count \in Nat
  BY ConvertedNumber, ViewSpaceAssumption, SMT DEF Word
<1>2. CASE SliceOutOfBounds(w, start, count) /\ Trap
  BY <1>2, TrapKeeps
<1>3. CASE /\ ~SliceOutOfBounds(w, start, count)
           /\ views' = [views EXCEPT ![v] = r]
           /\ result' = NoValue
           /\ UNCHANGED <<memory, stack, trapped>>
  <2>1. start + count <= views[w].length
    BY <1>1, <1>3, SliceFits
  <2>2. InStorage(r) /\ r \in [data : Address, length : Word]
    BY <1>1, <2>1, SliceInside
  <2> QED
    BY <1>3, <2>2, ViewChanged
<1> QED
  BY <1>2, <1>3 DEF ViewSlice

LEMMA LoadKeeps ==
  ASSUME NEW v \in View, NEW operand \in Operand, ViewInv, ViewLoad(v, operand)
  PROVE  ViewInv'
<1>1. CASE Trap
  BY <1>1, TrapKeeps
<1>2. CASE /\ ~AccessFaults(v, Converted(operand))
           /\ result' = memory[ElementAddress(views[v].data, Converted(operand))]
           /\ UNCHANGED <<views, memory, stack, trapped>>
  <2>1. Converted(operand) \in Nat /\ views[v].length \in Nat
    BY ConvertedNumber, ViewSpaceAssumption, SMT DEF Word, ViewInv, TypeOK
  <2>2. Converted(operand) < views[v].length
    BY <1>2, <2>1, SMT DEF AccessFaults
  <2>3. ElementAddress(views[v].data, Converted(operand)) \in Address
    BY <2>1, <2>2, ElementInside DEF ViewInv, TypeOK
  <2>4. result' \in Value \cup {NoValue} \cup Word
    BY <1>2, <2>3 DEF ViewInv, TypeOK
  <2>5. memory' \in [Address -> Value \cup {NoValue}] /\ trapped' \in BOOLEAN
    BY <1>2 DEF ViewInv, TypeOK
  <2> QED
    BY <1>2, <2>4, <2>5, ViewsKept
<1> QED
  BY <1>1, <1>2 DEF ViewLoad

LEMMA StoreKeeps ==
  ASSUME NEW v \in View, NEW operand \in Operand, NEW value \in Value,
         ViewInv, ViewStore(v, operand, value)
  PROVE  ViewInv'
<1>1. CASE Trap
  BY <1>1, TrapKeeps
<1>2. CASE /\ memory' = [memory EXCEPT
                ![ElementAddress(views[v].data, Converted(operand))] = value]
           /\ result' = NoValue
           /\ UNCHANGED <<views, stack, trapped>>
  <2>1. memory' \in [Address -> Value \cup {NoValue}] /\ trapped' \in BOOLEAN
    BY <1>2 DEF ViewInv, TypeOK
  <2> QED
    BY <1>2, <2>1, ViewsKept
<1> QED
  BY <1>1, <1>2 DEF ViewStore

\* The invariant holds of every program over views.
THEOREM ViewInvariant == Spec => []ViewInv
<1>1. ViewInv /\ [Next]_vars => ViewInv'
  <2> SUFFICES ASSUME ViewInv, [Next]_vars PROVE ViewInv'
    OBVIOUS
  <2>1. CASE UNCHANGED vars
    <3>1. UNCHANGED <<views, stack, memory, result, trapped>>
      BY <2>1 DEF vars
    <3> QED
      BY <3>1, ViewsKept DEF ViewInv, TypeOK
  <2>2. CASE Next
    <3>1. PICK v \in View :
            \/ \E n \in 0 .. MaxLiteral : \E values \in [1 .. n -> Value], base \in Address :
                 ArrayLiteral(v, values, base)
            \/ \E w \in View : CopyView(v, w)
            \/ ViewLength(v)
            \/ \E w \in View, first, second \in Operand : ViewSlice(v, w, first, second)
            \/ \E operand \in Operand : ViewLoad(v, operand)
            \/ \E operand \in Operand, value \in Value : ViewStore(v, operand, value)
      BY <2>2 DEF Next
    <3>2. ASSUME NEW w \in View, CopyView(v, w) PROVE ViewInv'
      <4>1. views[w] \in [data : Address, length : Word] /\ InStorage(views[w])
        BY DEF ViewInv, TypeOK
      <4>2. views' = [views EXCEPT ![v] = views[w]] /\ UNCHANGED <<memory, stack, trapped>>
             /\ result' = NoValue
        BY <3>2 DEF CopyView
      <4> QED
        BY <4>1, <4>2, ViewChanged
    <3>3. ASSUME ViewLength(v) PROVE ViewInv'
      <4>1. result' \in Word /\ UNCHANGED <<views, memory, stack, trapped>>
        BY <3>3 DEF ViewLength, ViewInv, TypeOK
      <4> QED
        BY <4>1, ViewsKept DEF ViewInv, TypeOK
    <3> QED
      BY <3>1, <3>2, <3>3, LiteralKeeps, SliceKeeps, LoadKeeps, StoreKeeps
  <2> QED
    BY <2>1, <2>2
<1> QED
  BY ViewInit, <1>1, PTL DEF Spec

\* Registers, memory and results keep their ranges.
THEOREM ViewTypeCorrect == Spec => []TypeOK
<1>1. ViewInv => TypeOK
  BY DEF ViewInv
<1> QED
  BY <1>1, ViewInvariant, PTL

\* Whatever slices of slices a program takes, a view counts only elements of
\* array literals.
THEOREM ViewsStayInStorage == Spec => []ViewsInStorage
<1>1. ViewInv => ViewsInStorage
  BY DEF ViewInv, InStorage, ViewsInStorage
<1> QED
  BY <1>1, ViewInvariant, PTL

-----------------------------------------------------------------------------
\* A view as the sequence of its elements' addresses.
LEMMA ElementsSeq ==
  ASSUME ViewInv, NEW v \in View
  PROVE  /\ Elements(v) \in Seq(Address)
         /\ Len(Elements(v)) = views[v].length
         /\ \A i \in 1 .. views[v].length :
              Elements(v)[i] = views[v].data + (i - 1) * ElementSize
<1> DEFINE n == views[v].length
<1>1. n \in Nat
  BY SMT DEF ViewInv, TypeOK, Word
<1>2. ASSUME NEW i \in 1 .. n PROVE views[v].data + (i - 1) * ElementSize \in Address
  <2>1. InStorage(views[v]) /\ i - 1 \in 0 .. n - 1
    BY <1>1, SMT DEF ViewInv
  <2> QED
    BY <2>1 DEF InStorage, ViewInv, TypeOK
<1>3. Elements(v) \in [1 .. n -> Address]
  BY <1>2 DEF Elements
<1>4. Elements(v) \in Seq(Address)
  BY <1>1, <1>3, SeqDef
<1>5. Len(Elements(v)) = n
  <2>1. Len(Elements(v)) \in Nat /\ 1 .. Len(Elements(v)) = 1 .. n
    BY <1>3, <1>4, LenProperties
  <2> HIDE DEF n
  <2> QED
    BY <1>1, <2>1, SMT
<1> QED
  BY <1>4, <1>5 DEF Elements

\* What the mapping makes of a view that is assigned.
LEMMA ElementsChanged ==
  ASSUME ViewInv, NEW v \in View, NEW r,
         views' = [views EXCEPT ![v] = r]
  PROVE  /\ views'[v] = r
         /\ [u \in View |-> Elements(u)]' =
              [[u \in View |-> Elements(u)] EXCEPT
                 ![v] = [i \in 1 .. r.length |-> r.data + (i - 1) * ElementSize]]
<1>1. /\ views'[v] = r
      /\ \A u \in View : u # v => views'[u] = views[u]
  BY DEF ViewInv, TypeOK
<1>2. Elements(v)' = [i \in 1 .. r.length |-> r.data + (i - 1) * ElementSize]
  BY <1>1 DEF Elements
<1>3. \A u \in View : u # v => Elements(u)' = Elements(u)
  BY <1>1 DEF Elements
<1> QED
  BY <1>1, <1>2, <1>3

LEMMA ElementsKept ==
  ASSUME views' = views
  PROVE  [u \in View |-> Elements(u)]' = [u \in View |-> Elements(u)]
BY DEF Elements

LEMMA TrapImplements == Trap => Contract!Trap
<1> SUFFICES ASSUME Trap PROVE Contract!Trap
  OBVIOUS
<1>1. views' = views /\ memory' = memory /\ stack' = stack /\ trapped' = TRUE /\ result' = NoValue
  BY DEF Trap
<1> QED
  BY <1>1, ElementsKept DEF Contract!Trap

\* The checks of an access ask whether the number is an index of the view.
LEMMA AccessFits ==
  ASSUME ViewInv, NEW v \in View, NEW o \in Operand
  PROVE  /\ AccessFaults(v, Converted(o)) <=> ~Contract!IndexOf(v, Number(o))
         /\ ~AccessFaults(v, Converted(o)) =>
              /\ Number(o) + 1 \in 1 .. views[v].length
              /\ ElementAddress(views[v].data, Converted(o)) = Elements(v)[Number(o) + 1]
<1>1. views[v].length \in Nat /\ views[v].length <= MaxLiteral
  <2>1. InStorage(views[v])
    BY DEF ViewInv
  <2> QED
    BY <2>1, SMT DEF InStorage, ViewInv, TypeOK, Word
<1>2. /\ Converted(o) \in Nat /\ Number(o) \in Int
      /\ 0 <= Number(o) => Converted(o) = Number(o)
      /\ Number(o) < 0 => MaxLiteral < Converted(o)
  BY ConvertedNumber, ViewSpaceAssumption, SMT DEF Word
<1>3. Contract!IndexOf(v, Number(o)) <=> 0 <= Number(o) /\ Number(o) < views[v].length
  BY ElementsSeq DEF Contract!IndexOf
<1>4. CASE 0 <= Number(o) /\ Number(o) < views[v].length
  <2>1. Converted(o) = Number(o) /\ Converted(o) < views[v].length
    BY <1>2, <1>4
  <2>2. /\ ~AccessFaults(v, Converted(o))
        /\ ElementAddress(views[v].data, Converted(o))
             = views[v].data + Converted(o) * ElementSize
    BY <1>2, <2>1, ElementInside
  <2>3. Number(o) + 1 \in 1 .. views[v].length /\ (Number(o) + 1) - 1 = Number(o)
    BY <1>1, <1>2, <1>4, SMT
  <2>4. Elements(v)[Number(o) + 1] = views[v].data + Number(o) * ElementSize
    BY <2>3, ElementsSeq
  <2> QED
    BY <1>3, <1>4, <2>1, <2>2, <2>3, <2>4
<1>5. CASE ~(0 <= Number(o) /\ Number(o) < views[v].length)
  <2>1. Converted(o) >= views[v].length
    BY <1>1, <1>2, <1>5, ViewSpaceAssumption, SMT
  <2> QED
    BY <1>3, <1>5, <2>1 DEF AccessFaults
<1> QED
  BY <1>4, <1>5

LEMMA LoadImplements ==
  ASSUME ViewInv, NEW v \in View, NEW operand \in Operand, ViewLoad(v, operand)
  PROVE  Contract!Load(v, Number(operand))
<1>1. request' = <<"load", v, Number(operand)>>
  BY DEF ViewLoad
<1>2. CASE AccessFaults(v, Converted(operand)) /\ Trap
  BY <1>1, <1>2, AccessFits, TrapImplements DEF Contract!Load
<1>3. CASE /\ ~AccessFaults(v, Converted(operand))
           /\ result' = memory[ElementAddress(views[v].data, Converted(operand))]
           /\ UNCHANGED <<views, memory, stack, trapped>>
  <2>1. Contract!IndexOf(v, Number(operand))
    BY <1>3, AccessFits
  <2>2. result' = memory[[u \in View |-> Elements(u)][v][Number(operand) + 1]]
    BY <1>3, AccessFits
  <2>3. [u \in View |-> Elements(u)]' = [u \in View |-> Elements(u)]
    BY <1>3, ElementsKept
  <2> QED
    BY <1>1, <1>3, <2>1, <2>2, <2>3 DEF Contract!Load
<1> QED
  BY <1>2, <1>3 DEF ViewLoad

LEMMA StoreImplements ==
  ASSUME ViewInv, NEW v \in View, NEW operand \in Operand, NEW value \in Value,
         ViewStore(v, operand, value)
  PROVE  Contract!Store(v, Number(operand), value)
<1>1. request' = <<"store", v, Number(operand)>>
  BY DEF ViewStore
<1>2. CASE AccessFaults(v, Converted(operand)) /\ Trap
  BY <1>1, <1>2, AccessFits, TrapImplements DEF Contract!Store
<1>3. CASE /\ ~AccessFaults(v, Converted(operand))
           /\ memory' = [memory EXCEPT
                ![ElementAddress(views[v].data, Converted(operand))] = value]
           /\ result' = NoValue
           /\ UNCHANGED <<views, stack, trapped>>
  <2>1. Contract!IndexOf(v, Number(operand))
    BY <1>3, AccessFits
  <2>2. memory' =
          [memory EXCEPT ![[u \in View |-> Elements(u)][v][Number(operand) + 1]] = value]
    BY <1>3, AccessFits
  <2>3. [u \in View |-> Elements(u)]' = [u \in View |-> Elements(u)]
    BY <1>3, ElementsKept
  <2> QED
    BY <1>1, <1>3, <2>1, <2>2, <2>3 DEF Contract!Store
<1> QED
  BY <1>2, <1>3 DEF ViewStore

\* The two unsigned comparisons ask whether the numbers fit the view.
LEMMA SliceAgrees ==
  ASSUME ViewInv, NEW w \in View, NEW first \in Operand, NEW second \in Operand
  PROVE  /\ SliceOutOfBounds(w, Converted(first), Converted(second))
              <=> ~Contract!PartOf(w, Number(first), Number(second))
         /\ Contract!PartOf(w, Number(first), Number(second)) =>
              Converted(first) = Number(first) /\ Converted(second) = Number(second)
<1> DEFINE n == views[w].length
<1>1. n \in Nat /\ n <= MaxLiteral
  <2>1. InStorage(views[w])
    BY DEF ViewInv
  <2> QED
    BY <2>1, SMT DEF InStorage, ViewInv, TypeOK, Word
<1>2. /\ Converted(first) \in Nat /\ Number(first) \in Int
      /\ 0 <= Number(first) => Converted(first) = Number(first)
      /\ Number(first) < 0 => MaxLiteral < Converted(first)
      /\ Converted(second) \in Nat /\ Number(second) \in Int
      /\ 0 <= Number(second) => Converted(second) = Number(second)
      /\ Number(second) < 0 => MaxLiteral < Converted(second)
  BY ConvertedNumber, ViewSpaceAssumption, SMT DEF Word
<1>3. SliceOutOfBounds(w, Converted(first), Converted(second))
        <=> ~(Converted(first) + Converted(second) <= n)
  BY ConvertedNumber, SliceFits
<1>4. Contract!PartOf(w, Number(first), Number(second))
        <=> 0 <= Number(first) /\ 0 <= Number(second) /\ Number(first) + Number(second) <= n
  BY ElementsSeq DEF Contract!PartOf
<1> HIDE DEF n
<1>5. Converted(first) + Converted(second) <= n
        <=> 0 <= Number(first) /\ 0 <= Number(second) /\ Number(first) + Number(second) <= n
  BY <1>1, <1>2, ViewSpaceAssumption, SMT
<1> QED
  BY <1>2, <1>3, <1>4, <1>5

\* Scaling the start of a slice is skipping that many elements.
LEMMA SliceElements ==
  ASSUME ViewInv, NEW w \in View, NEW start \in Nat, NEW count \in Nat,
         start + count <= views[w].length,
         NEW d, d = views[w].data + start * ElementSize
  PROVE  [i \in 1 .. count |-> d + (i - 1) * ElementSize]
           = SubSeq(Elements(w), start + 1, start + count)
<1> DEFINE s == [i \in 1 .. count |-> d + (i - 1) * ElementSize]
           t == SubSeq(Elements(w), start + 1, start + count)
           n == views[w].length
<1>1. /\ Elements(w) \in Seq(Address) /\ Len(Elements(w)) = n
      /\ \A i \in 1 .. n : Elements(w)[i] = views[w].data + (i - 1) * ElementSize
  BY ElementsSeq
<1>2. n \in Nat /\ views[w].data \in Int
  BY ViewSpaceAssumption, SMT DEF ViewInv, TypeOK, Word, Address
<1>3. \A i \in start + 1 .. start + count : Elements(w)[i] \in Address
  <2> SUFFICES ASSUME NEW i \in start + 1 .. start + count PROVE Elements(w)[i] \in Address
    OBVIOUS
  <2>1. i \in 1 .. n
    BY <1>2, SMT
  <2> QED
    BY <1>1, <2>1, ElementOfSeq
<1>4. /\ t \in Seq(Address)
      /\ Len(t) = IF start + 1 <= start + count THEN (start + count) - (start + 1) + 1 ELSE 0
      /\ \A i \in 1 .. (start + count) - (start + 1) + 1 :
           t[i] = Elements(w)[(start + 1) + i - 1]
  <2>1. start + 1 \in Int /\ start + count \in Int
    BY SMT
  <2> QED
    BY <1>3, <2>1, SubSeqProperties
<1>5. Len(t) = count
  <2> HIDE DEF t
  <2> QED
    BY <1>4, SMT
<1>6. ASSUME NEW i \in 1 .. count PROVE s[i] = t[i] /\ s[i] \in Address
  <2>1. /\ i \in 1 .. (start + count) - (start + 1) + 1
        /\ (start + 1) + i - 1 = start + i
        /\ start + i \in 1 .. n /\ (start + i) - 1 = start + (i - 1)
        /\ i - 1 \in Nat /\ start + i \in start + 1 .. start + count
    BY <1>2, SMT
  <2>2. t[i] = Elements(w)[start + i]
    BY <1>4, <2>1
  <2>3. Elements(w)[start + i] = views[w].data + (start + (i - 1)) * ElementSize
    BY <1>1, <2>1
  <2>4. (start + (i - 1)) * ElementSize = start * ElementSize + (i - 1) * ElementSize
    BY <2>1, ScaledSum
  <2>5. views[w].data + (start + (i - 1)) * ElementSize = d + (i - 1) * ElementSize
    <3> DEFINE a == start * ElementSize b == (i - 1) * ElementSize
               e == (start + (i - 1)) * ElementSize
    <3>1. a \in Nat /\ b \in Nat /\ e = a + b /\ d = views[w].data + a
      BY <2>1, <2>4, Scaled
    <3> HIDE DEF a, b, e
    <3>2. views[w].data + e = d + b
      BY <1>2, <3>1, SMT
    <3> QED
      BY <3>2 DEF b, e
  <2>6. s[i] = t[i]
    BY <2>2, <2>3, <2>5
  <2> QED
    BY <1>3, <2>1, <2>2, <2>6
<1>7. s \in Seq(Address) /\ Len(s) = count
  <2>1. s \in [1 .. count -> Address]
    BY <1>6
  <2>2. s \in Seq(Address)
    BY <2>1, SeqDef
  <2>3. Len(s) \in Nat /\ 1 .. Len(s) = 1 .. count
    BY <2>1, <2>2, LenProperties
  <2> HIDE DEF s
  <2>4. Len(s) = count
    BY <2>3, SMT
  <2> QED
    BY <2>2, <2>4
<1> HIDE DEF s, t
<1>8. s = t
  BY <1>4, <1>5, <1>6, <1>7, SeqEqual
<1> QED
  BY <1>8 DEF s, t

LEMMA SliceImplements ==
  ASSUME ViewInv, NEW v \in View, NEW w \in View,
         NEW first \in Operand, NEW second \in Operand, ViewSlice(v, w, first, second)
  PROVE  Contract!Slice(v, w, Number(first), Number(second))
<1> DEFINE start == Converted(first)
           count == Converted(second)
           r == [data |-> ElementAddress(views[w].data, start), length |-> count]
<1>1. request' = <<"slice", w, Number(first), Number(second)>>
  BY DEF ViewSlice
<1>2. CASE SliceOutOfBounds(w, start, count) /\ Trap
  BY <1>1, <1>2, SliceAgrees, TrapImplements DEF Contract!Slice
<1>3. CASE /\ ~SliceOutOfBounds(w, start, count)
           /\ views' = [views EXCEPT ![v] = r]
           /\ result' = NoValue
           /\ UNCHANGED <<memory, stack, trapped>>
  <2>1. /\ Contract!PartOf(w, Number(first), Number(second))
        /\ start = Number(first) /\ count = Number(second)
    BY <1>3, SliceAgrees
  <2>2. start \in Word /\ count \in Word /\ start \in Nat /\ count \in Nat
    BY ConvertedNumber, ViewSpaceAssumption, SMT DEF Word
  <2>3. start + count <= views[w].length
    BY <1>3, <2>2, SliceFits
  <2>4. r.data = views[w].data + start * ElementSize /\ r.length = count
    BY <2>2, <2>3, SliceInside
  <2>5. [i \in 1 .. r.length |-> r.data + (i - 1) * ElementSize]
          = SubSeq(Elements(w), start + 1, start + count)
    BY <2>2, <2>3, <2>4, SliceElements
  <2>6. [u \in View |-> Elements(u)]' =
          [[u \in View |-> Elements(u)] EXCEPT
             ![v] = SubSeq([u \in View |-> Elements(u)][w],
                           Number(first) + 1, Number(first) + Number(second))]
    <3> HIDE DEF r, start, count
    <3> QED
      BY <1>3, <2>1, <2>5, ElementsChanged
  <2> QED
    BY <1>1, <1>3, <2>1, <2>6 DEF Contract!Slice
<1> QED
  BY <1>2, <1>3 DEF ViewSlice

LEMMA CopyImplements ==
  ASSUME ViewInv, NEW v \in View, NEW w \in View, CopyView(v, w)
  PROVE  Contract!Copy(v, w)
<1>1. /\ views' = [views EXCEPT ![v] = views[w]]
      /\ request' = <<"copy">> /\ result' = NoValue
      /\ UNCHANGED <<memory, stack, trapped>>
  BY DEF CopyView
<1>2. [u \in View |-> Elements(u)]' =
        [[u \in View |-> Elements(u)] EXCEPT ![v] = [u \in View |-> Elements(u)][w]]
  BY <1>1, ElementsChanged DEF Elements
<1> QED
  BY <1>1, <1>2 DEF Contract!Copy

LEMMA LengthImplements ==
  ASSUME ViewInv, NEW v \in View, ViewLength(v)
  PROVE  Contract!Length(v)
<1>1. /\ result' = views[v].length /\ request' = <<"length">>
      /\ UNCHANGED <<views, memory, stack, trapped>>
  BY DEF ViewLength
<1>2. result' = Len([u \in View |-> Elements(u)][v])
  BY <1>1, ElementsSeq
<1>3. [u \in View |-> Elements(u)]' = [u \in View |-> Elements(u)]
  BY <1>1, ElementsKept
<1> QED
  BY <1>1, <1>2, <1>3 DEF Contract!Length

\* An array literal gets cells that are new and differ from each other.
LEMMA LiteralImplements ==
  ASSUME ViewInv, NEW v \in View, NEW n \in 0 .. MaxLiteral, NEW values \in [1 .. n -> Value],
         NEW base \in Address, ArrayLiteral(v, values, base)
  PROVE  Contract!Literal(v, values)
<1> DEFINE s == [i \in 1 .. n |-> base + (i - 1) * ElementSize]
           r == [data |-> base, length |-> n]
<1>1. n \in Nat /\ Len(values) = n /\ DOMAIN values = 1 .. n
  <2>1. n \in Nat
    BY ViewSpaceAssumption, SMT
  <2>2. values \in Seq(Value)
    BY <2>1, SeqDef
  <2> QED
    BY <2>1, <2>2, LenProperties, SMT
<1>2. /\ CanAllocate(base, n)
      /\ views' = [views EXCEPT ![v] = r]
      /\ memory' = [a \in Address |-> IF a \in ArrayAt(base, n)
                      THEN values[(a - base) \div ElementSize + 1] ELSE memory[a]]
      /\ stack' = stack \cup ArrayAt(base, n)
      /\ request' = <<"literal">> /\ result' = NoValue /\ trapped' = trapped
  BY <1>1 DEF ArrayLiteral
<1>3. base \in Nat
  BY ViewSpaceAssumption, SMT DEF Address
<1>4. ASSUME NEW i \in 1 .. n
      PROVE  /\ s[i] \in ArrayAt(base, n)
             /\ s[i] \in Nat
             /\ (s[i] - base) \div ElementSize + 1 = i
  <2>1. i - 1 \in 0 .. n - 1 /\ i - 1 \in Nat /\ (i - 1) + 1 = i
    BY <1>1, SMT
  <2> DEFINE a == (i - 1) * ElementSize
  <2>2. a \in Nat /\ a \div ElementSize = i - 1 /\ s[i] = base + a
    BY <2>1, Scaled, Divided
  <2>3. s[i] \in ArrayAt(base, n)
    BY <2>1, <2>2 DEF ArrayAt
  <2> HIDE DEF a, s
  <2>4. s[i] \in Nat /\ s[i] - base = a
    BY <1>3, <2>2, SMT
  <2> QED
    BY <2>1, <2>2, <2>3, <2>4
<1>5. \A a \in ArrayAt(base, n) : \E i \in 1 .. n : s[i] = a
  <2> SUFFICES ASSUME NEW a \in ArrayAt(base, n) PROVE \E i \in 1 .. n : s[i] = a
    OBVIOUS
  <2>1. PICK j \in 0 .. n - 1 : a = base + j * ElementSize
    BY DEF ArrayAt
  <2>2. j + 1 \in 1 .. n /\ (j + 1) - 1 = j
    BY <1>1, SMT
  <2>3. s[j + 1] = a
    BY <2>1, <2>2
  <2> QED
    BY <2>2, <2>3
<1>6. ArrayAt(base, n) \subseteq Address
  BY <1>1, <1>2, ArrayInside DEF ArrayAt
<1>7. ArrayAt(base, n) \cap stack = {}
  <2> SUFFICES ASSUME NEW a \in ArrayAt(base, n), a \in stack PROVE FALSE
    OBVIOUS
  <2>1. a + ElementSize <= a
    BY <1>2 DEF CanAllocate
  <2>2. a \in Nat
    BY <1>6, ViewSpaceAssumption, SMT DEF Address
  <2> QED
    BY <2>1, <2>2, ViewSpaceAssumption, SMT
<1>8. s \in [DOMAIN values -> Address \ stack]
  BY <1>1, <1>4, <1>6, <1>7
<1>9. Contract!Injective(s)
  <2> SUFFICES ASSUME NEW i \in 1 .. n, NEW j \in 1 .. n, s[i] = s[j] PROVE i = j
    BY DEF Contract!Injective
  <2>1. (s[i] - base) \div ElementSize + 1 = i
    BY <1>4
  <2>2. (s[j] - base) \div ElementSize + 1 = j
    BY <1>4
  <2> HIDE DEF s
  <2> QED
    BY <2>1, <2>2
<1>10. [u \in View |-> Elements(u)]' = [[u \in View |-> Elements(u)] EXCEPT ![v] = s]
  <2>1. [i \in 1 .. r.length |-> r.data + (i - 1) * ElementSize] = s
    OBVIOUS
  <2> HIDE DEF r, s
  <2>2. views' = [views EXCEPT ![v] = r]
    BY <1>2
  <2> QED
    BY <2>1, <2>2, ElementsChanged
<1>11. stack' = stack \cup {s[i] : i \in DOMAIN s}
  <2>1. DOMAIN s = 1 .. n
    OBVIOUS
  <2>2. {s[i] : i \in DOMAIN s} = ArrayAt(base, n)
    <3> HIDE DEF s
    <3> QED
      BY <1>4, <1>5, <2>1
  <2> QED
    BY <1>2, <2>2
<1>12. memory' = Contract!Holding(s, values)
  <2>1. DOMAIN s = 1 .. n
    OBVIOUS
  <2> HIDE DEF s
  <2>2. ASSUME NEW a \in Address
        PROVE  memory'[a] = IF \E i \in DOMAIN s : s[i] = a
                              THEN values[CHOOSE i \in DOMAIN s : s[i] = a] ELSE memory[a]
    <3>1. CASE a \in ArrayAt(base, n)
      <4> DEFINE k == CHOOSE i \in DOMAIN s : s[i] = a
      <4>1. \E i \in DOMAIN s : s[i] = a
        BY <1>5, <2>1, <3>1
      <4>2. k \in 1 .. n /\ s[k] = a
        BY <2>1, <4>1
      <4>3. (a - base) \div ElementSize + 1 = k
        <5>1. (s[k] - base) \div ElementSize + 1 = k
          BY <1>4, <4>2
        <5> HIDE DEF k
        <5> QED
          BY <4>2, <5>1
      <4>4. memory'[a] = values[(a - base) \div ElementSize + 1]
        BY <1>2, <3>1
      <4> QED
        BY <4>1, <4>3, <4>4
    <3>2. CASE a \notin ArrayAt(base, n)
      <4>1. ~\E i \in DOMAIN s : s[i] = a
        BY <1>4, <2>1, <3>2
      <4> QED
        BY <1>2, <3>2, <4>1
    <3> QED
      BY <3>1, <3>2
  <2>3. memory' = [a \in Address |-> memory'[a]]
    BY <1>2
  <2> QED
    BY <2>2, <2>3 DEF Contract!Holding
<1> HIDE DEF s
<1> QED
  BY <1>2, <1>8, <1>9, <1>10, <1>11, <1>12 DEF Contract!Literal

LEMMA StepImplements ==
  ASSUME ViewInv, [Next]_vars
  PROVE  [Contract!Next]_(Contract!vars)
<1>1. CASE UNCHANGED vars
  BY <1>1, ElementsKept DEF vars, Contract!vars
<1>2. CASE Next
  <2>1. PICK v \in View :
          \/ \E n \in 0 .. MaxLiteral : \E values \in [1 .. n -> Value], base \in Address :
               ArrayLiteral(v, values, base)
          \/ \E w \in View : CopyView(v, w)
          \/ ViewLength(v)
          \/ \E w \in View, first, second \in Operand : ViewSlice(v, w, first, second)
          \/ \E operand \in Operand : ViewLoad(v, operand)
          \/ \E operand \in Operand, value \in Value : ViewStore(v, operand, value)
    BY <1>2 DEF Next
  <2>2. ~trapped
    BY <1>2 DEF Next
  <2>3. \A o \in Operand : Number(o) \in {Number(p) : p \in Operand}
    OBVIOUS
  <2>4. ASSUME NEW n \in 0 .. MaxLiteral, NEW values \in [1 .. n -> Value],
               NEW base \in Address, ArrayLiteral(v, values, base)
        PROVE  Contract!Next
    <3>1. Contract!Literal(v, values)
      BY <2>4, LiteralImplements
    <3> QED
      BY <2>2, <3>1 DEF Contract!Next
  <2>5. ASSUME NEW w \in View, CopyView(v, w) PROVE Contract!Next
    BY <2>2, <2>5, CopyImplements DEF Contract!Next
  <2>6. ASSUME ViewLength(v) PROVE Contract!Next
    BY <2>2, <2>6, LengthImplements DEF Contract!Next
  <2>7. ASSUME NEW w \in View, NEW first \in Operand, NEW second \in Operand,
               ViewSlice(v, w, first, second)
        PROVE  Contract!Next
    <3>1. Contract!Slice(v, w, Number(first), Number(second))
      BY <2>7, SliceImplements
    <3> QED
      BY <2>2, <2>3, <3>1 DEF Contract!Next
  <2>8. ASSUME NEW operand \in Operand, ViewLoad(v, operand) PROVE Contract!Next
    <3>1. Contract!Load(v, Number(operand))
      BY <2>8, LoadImplements
    <3> QED
      BY <2>2, <2>3, <3>1 DEF Contract!Next
  <2>9. ASSUME NEW operand \in Operand, NEW value \in Value, ViewStore(v, operand, value)
        PROVE  Contract!Next
    <3>1. Contract!Store(v, Number(operand), value)
      BY <2>9, StoreImplements
    <3> QED
      BY <2>2, <2>3, <3>1 DEF Contract!Next
  <2> QED
    BY <2>1, <2>4, <2>5, <2>6, <2>7, <2>8, <2>9
<1> QED
  BY <1>1, <1>2

\* The emitted code implements views as sequences of cells: every command does
\* to the addresses what ViewContract says of the cells, and traps exactly
\* when its numbers do not fit.
THEOREM ViewsKeepContract == Spec => KeepsViewContract
<1>1. Init => Contract!Init
  <2> SUFFICES ASSUME Init PROVE Contract!Init
    OBVIOUS
  <2>1. ASSUME NEW v \in View PROVE Elements(v) = <<>>
    <3>1. views[v].length = 0 /\ 1 .. 0 = {}
      BY SMT DEF Init
    <3>2. Elements(v) \in [1 .. 0 -> {}]
      BY <3>1 DEF Elements
    <3>3. Elements(v) \in Seq({}) /\ Len(Elements(v)) = 0
      <4>1. Elements(v) \in Seq({})
        BY <3>2, SeqDef, SMT
      <4> QED
        BY <3>1, <3>2, <4>1, LenProperties, SMT
    <3>4. <<>> \in Seq({}) /\ Len(<<>>) = 0
      BY EmptySeq
    <3>5. \A i \in 1 .. Len(Elements(v)) : Elements(v)[i] = <<>>[i]
      BY <3>1, <3>3
    <3> QED
      BY <3>3, <3>4, <3>5, SeqEqual
  <2> QED
    BY <2>1 DEF Init, Contract!Init
<1>2. ViewInv /\ [Next]_vars => [Contract!Next]_(Contract!vars)
  BY StepImplements
<1> QED
  BY <1>1, <1>2, ViewInvariant, PTL DEF Spec, KeepsViewContract, Contract!Spec
=============================================================================
