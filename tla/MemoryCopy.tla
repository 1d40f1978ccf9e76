----------------------------- MODULE MemoryCopy -----------------------------
(***************************************************************************)
(* The code that processMemoryIntrinsicInstruction emits for #memcpy and   *)
(* #memset, run by one thread: the length is narrowed to the width of an   *)
(* address, the ranges are checked, and a loop moves one byte at a time in *)
(* the direction that an overlap of the ranges requires.                   *)
(*                                                                         *)
(* Addresses are 0 .. AddressSpace - 1 and all address arithmetic wraps.   *)
(* The length operand may have a type wider than an address.  A load and a *)
(* store of one byte are one step, since nobody else writes here.          *)
(***************************************************************************)
EXTENDS Integers

CONSTANTS
  AddressSpace, \* the number of addresses, 2^(pointer width)
  LengthSpace,  \* the number of values of the length operand's type
  ByteSpace,    \* the number of values of a byte
  FillSpace     \* the number of values of the type of #memset's second operand

ASSUME SpaceAssumption ==
  /\ AddressSpace \in Nat \ {0}
  /\ LengthSpace \in Nat
  /\ ByteSpace \in Nat \ {0}
  /\ FillSpace \in Nat \ {0}

VARIABLES
  copy,     \* the name is "memcpy"
  dst,      \* destination
  src,      \* second operand of memcpy, null in memset
  fill,     \* second operand of memset, 0 in memcpy
  length,   \* the length operand as written
  count,    \* the length as an address-wide integer
  backward, \* copyBackward
  index,    \* memory.byte.index
  memory,   \* what every address holds
  before,   \* memory when the command began (history)
  pc        \* the block that runs next

operands == <<copy, dst, src, fill, length, before>>
vars == <<copy, dst, src, fill, length, count, backward, index, memory, before, pc>>

Address == 0 .. AddressSpace - 1
Byte == 0 .. ByteSpace - 1
Null == 0

TypeOK ==
  /\ copy \in BOOLEAN
  /\ dst \in Address /\ src \in Address
  /\ fill \in 0 .. FillSpace - 1
  /\ length \in 0 .. LengthSpace - 1
  /\ count \in Address
  /\ backward \in BOOLEAN
  /\ index \in Address
  /\ memory \in [Address -> Byte] /\ before \in [Address -> Byte]
  /\ pc \in {"convert", "range", "nonzero", "loop", "done", "trap"}

-----------------------------------------------------------------------------
Init ==
  /\ copy \in BOOLEAN
  /\ dst \in Address
  /\ src \in IF copy THEN Address ELSE {Null}
  /\ fill \in IF copy THEN {0} ELSE 0 .. FillSpace - 1
  /\ length \in 0 .. LengthSpace - 1
  /\ memory \in [Address -> Byte]
  /\ before = memory
  /\ count = 0 /\ backward = FALSE /\ index = 0
  /\ pc = "convert"

\* CreateTrunc to an address-wide integer; the identity on a narrower type.
Narrowed(n) == n % AddressSpace

\* Mutant: the narrowed length is not compared with the length.
ConvertUnchecked ==
  /\ pc = "convert"
  /\ pc' = "range" /\ count' = Narrowed(length)
  /\ UNCHANGED <<operands, memory, backward, index>>

\* The length is narrowed and must be itself when it is widened again.
ConvertLength ==
  /\ pc = "convert"
  /\ IF Narrowed(length) # length
       THEN pc' = "trap" /\ count' = count
       ELSE pc' = "range" /\ count' = Narrowed(length)
  /\ UNCHANGED <<operands, memory, backward, index>>

\* trapIfAddressRangeWraps: the end of the range is below its beginning.
Wraps(pointer) == (pointer + count) % AddressSpace < pointer

CheckRanges ==
  /\ pc = "range"
  /\ pc' = IF Wraps(dst) \/ (copy /\ Wraps(src)) THEN "trap"
           ELSE IF count = 0 THEN "done" ELSE "nonzero"
  /\ UNCHANGED <<operands, memory, count, backward, index>>

\* Mutant: the overlap test is done for the ranges the other way round.
CopyBackwardSwapped == copy /\ dst < src /\ (src - dst) % AddressSpace < count

\* Copying upwards would read source bytes that it has already overwritten.
CopyBackward == copy /\ dst > src /\ (dst - src) % AddressSpace < count

CheckNull ==
  /\ pc = "nonzero"
  /\ IF dst = Null \/ (copy /\ src = Null)
       THEN pc' = "trap" /\ backward' = backward
       ELSE pc' = "loop" /\ backward' = CopyBackward
  /\ UNCHANGED <<operands, memory, count, index>>

\* The byte of the ranges that the current iteration moves.
ByteIndex == IF copy /\ backward THEN count - 1 - index ELSE index

ByteValue ==
  IF copy THEN memory[(src + ByteIndex) % AddressSpace] ELSE fill % ByteSpace

\* Mutant: the index is one bit narrower than an address.
MoveByteHalfIndex ==
  /\ pc = "loop" /\ index < count
  /\ memory' = [memory EXCEPT ![(dst + ByteIndex) % AddressSpace] = ByteValue]
  /\ index' = (index + 1) % (AddressSpace \div 2)
  /\ UNCHANGED <<operands, count, backward, pc>>

MoveByte ==
  /\ pc = "loop" /\ index < count
  /\ memory' = [memory EXCEPT ![(dst + ByteIndex) % AddressSpace] = ByteValue]
  /\ index' = (index + 1) % AddressSpace
  /\ UNCHANGED <<operands, count, backward, pc>>

LeaveLoop ==
  /\ pc = "loop" /\ ~(index < count)
  /\ pc' = "done"
  /\ UNCHANGED <<operands, memory, count, backward, index>>

Next == ConvertLength \/ CheckRanges \/ CheckNull \/ MoveByte \/ LeaveLoop

Spec == Init /\ [][Next]_vars

\* Nothing makes the thread wait.
FairSpec == Spec /\ WF_vars(Next)

-----------------------------------------------------------------------------
\* A range is representable when one past its last byte is still an address.
Representable(pointer, n) == pointer + n < AddressSpace

\* The operands, taken as mathematical integers, for which a command must trap.
Faulty ==
  \/ ~Representable(dst, length)
  \/ copy /\ ~Representable(src, length)
  \/ length > 0 /\ (dst = Null \/ (copy /\ src = Null))

\* The memory after all source bytes were read into a buffer and then written.
ThroughBuffer ==
  [x \in Address |->
     IF x \in dst .. dst + length - 1
       THEN IF copy THEN before[src + (x - dst)] ELSE fill % ByteSpace
       ELSE before[x]]

\* A finished command has moved exactly the bytes that the untruncated length
\* asks for, as if through a buffer, however the ranges overlap and whatever
\* the direction (the choice of copyBackward, the wrapping of addresses and
\* the narrowing of the length).
CopiesAsThroughBuffer == pc = "done" => memory = ThroughBuffer

\* A command traps exactly on faulty operands, and before it writes a byte: a
\* long length is never cut to a short one, and there is no partial write.
TrapsCleanly ==
  /\ pc = "trap" => Faulty /\ memory = before
  /\ pc \in {"loop", "done"} => ~Faulty

\* Every command traps or finishes: the index reaches the length, whatever
\* the length is, without wrapping round.
Ends == <>(pc \in {"done", "trap"})

=============================================================================
