-------------------------- MODULE MemoryCopyProofs --------------------------
(***************************************************************************)
(* #memcpy and #memset for every address width, length width and memory.   *)
(***************************************************************************)
EXTENDS MemoryCopy, TLAPS

\* Address arithmetic that does not wrap, and that wraps once.
LEMMA Unwrapped ==
  ASSUME NEW x \in Nat, x < AddressSpace
  PROVE  x % AddressSpace = x
BY SpaceAssumption, SMT

LEMMA WrappedOnce ==
  ASSUME NEW x \in Nat, AddressSpace <= x, x < 2 * AddressSpace
  PROVE  x % AddressSpace = x - AddressSpace
BY SpaceAssumption, SMT

LEMMA Reduced ==
  ASSUME NEW x \in Int
  PROVE  x % AddressSpace \in Address
BY SpaceAssumption, SMT DEF Address

LEMMA ReducedByte ==
  ASSUME NEW x \in Int
  PROVE  x % ByteSpace \in Byte
BY SpaceAssumption, SMT DEF Byte

-----------------------------------------------------------------------------
\* The offsets into the destination that the loop has moved so far.
Moved(i) == IF copy /\ backward THEN count - index <= i ELSE i < index

\* The byte that belongs at an address of the destination.
Wanted(x) == IF copy THEN before[src + (x - dst)] ELSE fill % ByteSpace

\* The memory after the iterations so far.
PartlyMoved ==
  [x \in Address |->
     IF x \in dst .. dst + count - 1 /\ Moved(x - dst) THEN Wanted(x) ELSE before[x]]

\* The inductive invariant: nothing is written before the loop, which is
\* reached with the length as written and with operands that are not faulty;
\* there, the memory is what the iterations so far make of it.
CopyInv ==
  /\ TypeOK
  /\ pc \in {"convert", "range", "nonzero", "trap"} => memory = before
  /\ pc \in {"convert", "range", "nonzero"} => index = 0
  /\ pc \in {"range", "nonzero", "loop", "done"} => count = length
  /\ pc \in {"nonzero", "loop"} =>
       /\ 0 < count
       /\ Representable(dst, count)
       /\ copy => Representable(src, count)
  /\ pc = "loop" =>
       /\ dst # Null /\ (copy => src # Null)
       /\ backward = CopyBackward
       /\ index <= count
       /\ memory = PartlyMoved
  /\ pc = "done" => ~Faulty /\ memory = ThroughBuffer
  /\ pc = "trap" => Faulty

LEMMA CopyInit == Init => CopyInv
<1> SUFFICES ASSUME Init PROVE CopyInv
  OBVIOUS
<1>1. copy \in BOOLEAN /\ dst \in Address /\ fill \in 0 .. FillSpace - 1
  BY SpaceAssumption, SMT DEF Init
<1>2. src \in Address /\ count \in Address /\ index \in Address
  BY SpaceAssumption, SMT DEF Init, Address, Null
<1>3. /\ length \in 0 .. LengthSpace - 1 /\ backward \in BOOLEAN
      /\ memory \in [Address -> Byte] /\ before \in [Address -> Byte]
      /\ pc = "convert"
  BY DEF Init
<1>4. TypeOK
  BY <1>1, <1>2, <1>3 DEF TypeOK
<1> QED
  BY <1>4, SMT DEF Init, CopyInv

\* What a range check finds, for an address and a length that fit.
LEMMA WrapsExactly ==
  ASSUME NEW p \in Address, count \in Address
  PROVE  Wraps(p) <=> ~Representable(p, count)
<1>1. CASE p + count < AddressSpace
  BY <1>1, Unwrapped, SpaceAssumption, SMT DEF Address, Wraps, Representable
<1>2. CASE AddressSpace <= p + count
  BY <1>2, WrappedOnce, SpaceAssumption, SMT DEF Address, Wraps, Representable
<1> QED
  BY <1>1, <1>2, SpaceAssumption, SMT DEF Address

LEMMA CopyConvert == CopyInv /\ ConvertLength => CopyInv'
<1> SUFFICES ASSUME CopyInv, ConvertLength PROVE CopyInv'
  OBVIOUS
<1> USE DEF CopyInv, ConvertLength, operands
<1>1. length \in Nat /\ Narrowed(length) \in Address
  BY Reduced, SpaceAssumption, SMT DEF TypeOK, Narrowed
<1>2. length < AddressSpace <=> Narrowed(length) = length
  <2>1. length < AddressSpace => Narrowed(length) = length
    BY <1>1, Unwrapped DEF Narrowed
  <2>2. Narrowed(length) < AddressSpace
    BY <1>1, SpaceAssumption, SMT DEF Address
  <2> QED
    BY <2>1, <2>2
<1>3. TypeOK'
  BY <1>1, SMT DEF TypeOK
<1>4. CASE Narrowed(length) = length
  BY <1>3, <1>4, SMT
<1>5. CASE Narrowed(length) # length
  <2>1. Faulty'
    BY <1>1, <1>2, <1>5, SpaceAssumption, SMT DEF Faulty, Representable, TypeOK, Address
  <2> QED
    BY <1>3, <1>5, <2>1, SMT
<1> QED
  BY <1>4, <1>5

LEMMA CopyRanges == CopyInv /\ CheckRanges => CopyInv'
<1> SUFFICES ASSUME CopyInv, CheckRanges PROVE CopyInv'
  OBVIOUS
<1> USE DEF CopyInv, CheckRanges, operands
<1>1. /\ count = length /\ count \in Address
      /\ Wraps(dst) <=> ~Representable(dst, count)
      /\ Wraps(src) <=> ~Representable(src, count)
  BY WrapsExactly DEF TypeOK
<1>2. TypeOK'
  BY SMT DEF TypeOK
<1>3. CASE Wraps(dst) \/ (copy /\ Wraps(src))
  BY <1>1, <1>2, <1>3, SMT DEF Faulty, Representable
<1>4. CASE ~(Wraps(dst) \/ (copy /\ Wraps(src))) /\ count = 0
  <2>1. ~Faulty' /\ length = 0
    BY <1>1, <1>4, SMT DEF Faulty, Representable
  <2>2. memory' = ThroughBuffer'
    BY <2>1, SpaceAssumption, SMT DEF ThroughBuffer, TypeOK, Address
  <2> QED
    BY <1>1, <1>2, <1>4, <2>1, <2>2, SMT
<1>5. CASE ~(Wraps(dst) \/ (copy /\ Wraps(src))) /\ count # 0
  BY <1>1, <1>2, <1>5, SMT DEF Representable, Address
<1> QED
  BY <1>3, <1>4, <1>5

LEMMA CopyNull == CopyInv /\ CheckNull => CopyInv'
<1> SUFFICES ASSUME CopyInv, CheckNull PROVE CopyInv'
  OBVIOUS
<1> USE DEF CopyInv, CheckNull, operands
<1>1. CopyBackward \in BOOLEAN
  BY DEF CopyBackward, TypeOK
<1>2. TypeOK'
  BY <1>1, SMT DEF TypeOK
<1>3. CASE dst = Null \/ (copy /\ src = Null)
  BY <1>2, <1>3, SMT DEF Faulty, TypeOK, Address
<1>4. CASE ~(dst = Null \/ (copy /\ src = Null))
  <2>1. backward' = CopyBackward' /\ Representable(dst, count)'
         /\ (copy => Representable(src, count))'
    BY <1>4, SMT DEF CopyBackward, Representable
  <2>2. memory' = PartlyMoved'
    BY <1>4, SpaceAssumption, SMT DEF PartlyMoved, Moved, TypeOK, Address
  <2> QED
    BY <1>2, <1>4, <2>1, <2>2, SMT DEF TypeOK, Address
<1> QED
  BY <1>3, <1>4

LEMMA CopyLeave == CopyInv /\ LeaveLoop => CopyInv'
<1> SUFFICES ASSUME CopyInv, LeaveLoop PROVE CopyInv'
  OBVIOUS
<1> USE DEF CopyInv, LeaveLoop, operands
<1>1. TypeOK'
  BY SMT DEF TypeOK
<1>2. ~Faulty'
  BY SMT DEF Faulty, Representable
<1>3. index = count
  BY SMT DEF TypeOK, Address
<1>4. \A x \in Address : x \in dst .. dst + count - 1 => Moved(x - dst)
  BY <1>3, SpaceAssumption, SMT DEF Moved, TypeOK, Address
<1>5. memory = ThroughBuffer
  BY <1>4, SMT DEF PartlyMoved, ThroughBuffer, Wanted
<1>6. memory' = ThroughBuffer'
  BY <1>5, SMT DEF ThroughBuffer
<1> QED
  BY <1>1, <1>2, <1>6, SMT

\* The byte that an iteration reads has not been overwritten by an earlier
\* one: copying goes the way in which the destination trails the source.
LEMMA SourceIntact ==
  ASSUME CopyInv, pc = "loop", index < count, copy
  PROVE  memory[src + ByteIndex] = before[src + ByteIndex]
<1> DEFINE x == src + ByteIndex
<1>1. ByteIndex \in 0 .. count - 1 /\ x \in Address
  BY SpaceAssumption, SMT DEF CopyInv, TypeOK, Address, ByteIndex, Representable
<1>2. ~(x \in dst .. dst + count - 1 /\ Moved(x - dst))
  <2>1. CASE backward
    <3>1. src < dst /\ ByteIndex = count - 1 - index
      BY <2>1 DEF CopyInv, CopyBackward, ByteIndex
    <3> QED
      BY <1>1, <2>1, <3>1, SpaceAssumption, SMT DEF CopyInv, TypeOK, Address, Moved
  <2>2. CASE ~backward
    <3>1. ByteIndex = index
      BY <2>2 DEF ByteIndex
    <3>2. CASE dst <= src
      BY <1>1, <2>2, <3>1, <3>2, SpaceAssumption, SMT
      DEF CopyInv, TypeOK, Address, Moved
    <3>3. CASE src < dst
      <4>1. (dst - src) % AddressSpace = dst - src
        BY <3>3, Unwrapped, SpaceAssumption, SMT DEF CopyInv, TypeOK, Address
      <4>2. count <= dst - src
        <5>1. ~CopyBackward
          BY <2>2 DEF CopyInv
        <5> QED
          BY <3>3, <4>1, <5>1, SpaceAssumption, SMT
          DEF CopyInv, TypeOK, Address, CopyBackward
      <4> QED
        BY <1>1, <3>1, <4>2, SpaceAssumption, SMT DEF CopyInv, TypeOK, Address
    <3> QED
      BY <3>2, <3>3, SpaceAssumption, SMT DEF CopyInv, TypeOK, Address
  <2> QED
    BY <2>1, <2>2
<1>3. memory = PartlyMoved
  BY DEF CopyInv
<1> QED
  BY <1>1, <1>2, <1>3 DEF PartlyMoved

LEMMA CopyMove == CopyInv /\ MoveByte => CopyInv'
<1> SUFFICES ASSUME CopyInv, MoveByte PROVE CopyInv'
  OBVIOUS
<1> DEFINE at == dst + ByteIndex
<1>1. /\ pc = "loop" /\ index < count /\ index \in Nat /\ count \in Address
      /\ ByteIndex \in 0 .. count - 1
      /\ at \in Address
      /\ copy => src + ByteIndex \in Address
  BY SpaceAssumption, SMT
  DEF CopyInv, MoveByte, TypeOK, Address, ByteIndex, Representable
<1>2. at % AddressSpace = at /\ (copy => (src + ByteIndex) % AddressSpace = src + ByteIndex)
  BY <1>1, Unwrapped, SpaceAssumption, SMT DEF Address
<1>3. index' = index + 1
  <2>1. index + 1 < AddressSpace
    BY <1>1, SpaceAssumption, SMT DEF Address
  <2> QED
    BY <1>1, <2>1, Unwrapped DEF MoveByte
<1>4. ByteValue = Wanted(at)
  <2>1. CASE copy
    <3>1. memory[src + ByteIndex] = before[src + ByteIndex]
      BY <1>1, <2>1, SourceIntact
    <3>2. src + (at - dst) = src + ByteIndex
      BY <1>1, SpaceAssumption, SMT DEF CopyInv, TypeOK, Address
    <3> QED
      BY <1>2, <2>1, <3>1, <3>2 DEF ByteValue, Wanted
  <2>2. CASE ~copy
    BY <2>2 DEF ByteValue, Wanted
  <2> QED
    BY <2>1, <2>2
<1>5. ByteValue \in Byte
  <2>1. CASE copy
    BY <1>1, <1>2, <2>1 DEF ByteValue, CopyInv, TypeOK
  <2>2. CASE ~copy
    <3>1. fill \in Int
      BY SpaceAssumption, SMT DEF CopyInv, TypeOK
    <3> QED
      BY <2>2, <3>1, ReducedByte DEF ByteValue
  <2> QED
    BY <2>1, <2>2
<1>6. memory' = [memory EXCEPT ![at] = Wanted(at)]
  BY <1>2, <1>4 DEF MoveByte
<1>7. TypeOK'
  BY <1>1, <1>3, <1>5, <1>6, <1>4, SpaceAssumption, SMT
  DEF CopyInv, TypeOK, MoveByte, operands, Address
<1>8. memory' = PartlyMoved'
  <2>1. /\ copy' = copy /\ dst' = dst /\ src' = src /\ fill' = fill
        /\ before' = before /\ count' = count /\ backward' = backward
    BY DEF MoveByte, operands
  <2>2. ASSUME NEW x \in Address, x \in dst .. dst + count - 1
        PROVE  Moved(x - dst)' <=> Moved(x - dst) \/ x = at
    BY <1>1, <1>3, <2>1, <2>2, SpaceAssumption, SMT
    DEF Moved, ByteIndex, CopyInv, TypeOK, Address
  <2>3. at \in dst .. dst + count - 1
    BY <1>1, SpaceAssumption, SMT DEF CopyInv, TypeOK, Address
  <2>4. memory = PartlyMoved
    BY <1>1 DEF CopyInv
  <2>5. ASSUME NEW x \in Address PROVE memory'[x] = PartlyMoved'[x]
    <3>1. CASE x = at
      BY <1>6, <2>1, <2>2, <2>3, <2>4, <3>1 DEF PartlyMoved, Wanted
    <3>2. CASE x # at
      BY <1>6, <2>1, <2>2, <2>4, <3>2 DEF PartlyMoved, Wanted
    <3> QED
      BY <3>1, <3>2
  <2> QED
    BY <1>6, <2>1, <2>4, <2>5 DEF PartlyMoved
<1>9. backward' = CopyBackward'
  BY <1>1 DEF CopyInv, MoveByte, operands, CopyBackward
<1> QED
  <2>1. pc' = "loop" /\ (copy' <=> copy) /\ dst' = dst /\ src' = src
        /\ count' = count /\ length' = length
    BY <1>1 DEF MoveByte, operands
  <2>2. index' <= count'
    BY <1>1, <1>3, <2>1, SMT DEF Address
  <2>3. /\ count = length /\ 0 < count /\ dst # Null /\ (copy => src # Null)
        /\ Representable(dst, count) /\ (copy => Representable(src, count))
    BY <1>1, SMT DEF CopyInv
  <2> QED
    BY <1>7, <1>8, <1>9, <2>1, <2>2, <2>3, SMT DEF CopyInv, Representable, Null

\* A length, a pointer and an overlap of any size: the invariant holds always.
THEOREM CopyInvariant == Spec => []CopyInv
<1>1. CopyInv /\ [Next]_vars => CopyInv'
  <2> SUFFICES ASSUME CopyInv, [Next]_vars PROVE CopyInv'
    OBVIOUS
  <2>1. CASE UNCHANGED vars
    BY <2>1, SMT
    DEF vars, CopyInv, TypeOK, Representable, Faulty, ThroughBuffer, CopyBackward,
        PartlyMoved, Moved, Wanted
  <2>2. CASE Next
    BY <2>2, CopyConvert, CopyRanges, CopyNull, CopyMove, CopyLeave DEF Next
  <2> QED
    BY <2>1, <2>2
<1> QED
  BY CopyInit, <1>1, PTL DEF Spec

\* The variables stay in range, the index and the narrowed length included.
THEOREM CopyTypeCorrect == Spec => []TypeOK
<1>1. CopyInv => TypeOK
  BY DEF CopyInv
<1> QED
  BY <1>1, CopyInvariant, PTL

\* A finished #memcpy or #memset has moved the bytes as if through a buffer.
THEOREM CopyCorrect == Spec => []CopiesAsThroughBuffer
<1>1. CopyInv => CopiesAsThroughBuffer
  BY DEF CopyInv, CopiesAsThroughBuffer
<1> QED
  BY <1>1, CopyInvariant, PTL

\* It traps exactly on faulty operands, before it has written a byte.
THEOREM CopyTrapsCleanly == Spec => []TrapsCleanly
<1>1. CopyInv => TrapsCleanly
  <2> SUFFICES ASSUME CopyInv PROVE TrapsCleanly
    OBVIOUS
  <2>1. pc = "loop" => ~Faulty
    BY SMT DEF CopyInv, Faulty, Representable
  <2> QED
    BY <2>1, SMT DEF CopyInv, TrapsCleanly
<1> QED
  BY <1>1, CopyInvariant, PTL
=============================================================================
