--------------------------- MODULE BytewiseAccess ---------------------------
(***************************************************************************)
(* Ordinary memory access of generated code (src/src/codegen_module.cpp):  *)
(* a value is loaded and stored one byte at a time, each byte by an atomic *)
(* access, while another thread does the same.  One thread stores a value, *)
(* another loads one that may share its bytes and computes with it.        *)
(*                                                                         *)
(* A volatile access is one LLVM access, aligned to a byte and not atomic: *)
(* the bytes of a racing one arrive in any order.                          *)
(*                                                                         *)
(* case      what the threads do, see Cases                                *)
(* memory    the bytes                                                     *)
(* pending   the bytes that the store has still to write, in order         *)
(* loaded    the bytes that the load has read, by their address            *)
(* outcome   of the command that uses the loaded value; <<>> until then    *)
(* overlap   history: some byte was stored between two that were loaded,   *)
(*           or loaded between two that were stored                        *)
(***************************************************************************)
EXTENDS Arithmetic, FiniteSets

CONSTANTS
  ByteBits,   \* in a byte
  Cases       \* records of the initial memory, a store, a load and a command

VARIABLES case, memory, pending, loaded, outcome, overlap

vars == <<case, memory, pending, loaded, outcome, overlap>>

Byte == 0 .. 2^ByteBits - 1

Covered(access) == access.address .. access.address + access.size - 1

\* A store of a structure has its two fields, one behind the other and perhaps
\* with padding, inside its size; any other has one that takes all of it, and
\* the case without a store none.  The structure is not volatile.
FitsStore(store) ==
  /\ store.address \in Nat /\ store.size \in Nat /\ store.isVolatile \in BOOLEAN
  /\ store.fields \in Seq([offset : Nat, bytes : Seq(Byte)]) /\ Len(store.fields) <= 2
  /\ Len(store.fields) = 0 => store.size = 0
  /\ Len(store.fields) = 1 =>
       store.fields[1].offset = 0 /\ Len(store.fields[1].bytes) = store.size
  /\ Len(store.fields) = 2 =>
       /\ ~store.isVolatile
       /\ store.fields[1].offset + Len(store.fields[1].bytes) <= store.fields[2].offset
       /\ store.fields[2].offset + Len(store.fields[2].bytes) <= store.size

Operations == {"add", "sub", "mul", "div", "mod", "lsh", "rsh",
               "eq", "neq", "gt", "lt", "gte", "lte"}

\* The value of a command fills the bytes that are loaded.  The right operands
\* are words, of a width of their own or of that of the left one.  The limits of
\* an integer type are numbers of the floating-point format.
FitsCommand(command, size) ==
  \/ /\ command.kind = "binary" /\ command.isUnsigned \in BOOLEAN
     /\ command.op \in Operations
     /\ command.rhsBits \in Nat \ {0} /\ command.rhs \in 0 .. 2^command.rhsBits - 1
  \/ /\ command.kind = "pointers"
     /\ command.rhs \in 0 .. 2^(ByteBits * size) - 1
     /\ command.elementSize \in 1 .. 2^(ByteBits * size) - 1
  \/ /\ command.kind = "vector" /\ command.op \in {"vdivi", "vdivu"}
     /\ command.divisors \in [1 .. size -> Byte]
  \/ /\ command.kind = "minmax" /\ command.op \in {"vmin", "vmax"}
     /\ ByteBits * size = FloatBits /\ command.rhs \in 0 .. 2^FloatBits - 1
  \/ /\ command.kind = "convert" /\ command.op \in {"fptosi", "fptoui"}
     /\ ByteBits * size = FloatBits /\ command.bits \in Nat \ {0}
     /\ One * 2^command.bits <= Units(LargestFinite)

ASSUME CaseAssumption ==
  /\ ByteBits \in Nat \ {0}
  /\ \A c \in Cases :
       /\ FitsStore(c.store)
       /\ c.load.address \in Nat /\ c.load.size \in 1 .. 3
       /\ Covered(c.store) \cup Covered(c.load) \subseteq DOMAIN c.memory
       /\ DOMAIN c.memory \subseteq Nat
       /\ \A a \in DOMAIN c.memory : c.memory[a] \in Byte
       /\ FitsCommand(c.command, c.load.size)

\* storeValueBytewiseAtomic and atomicStoreByte: the writes of a value.  No type
\* but a structure takes more bytes than its value has.
BytewiseStore(bytes, address) ==
  [k \in 1 .. Len(bytes) |-> <<address + k - 1, bytes[k]>>]

Zeros(size) == [k \in 1 .. size |-> 0]

\* storeValueWithZeroedPadding of a structure of two fields.
\* Slip: only the fields are written.
FieldsOnly(fields, size, address) ==
  BytewiseStore(fields[1].bytes, address + fields[1].offset)
    \o BytewiseStore(fields[2].bytes, address + fields[2].offset)

ZeroedPadding(fields, size, address) ==
  BytewiseStore(Zeros(size), address)
    \o BytewiseStore(fields[1].bytes, address + fields[1].offset)
    \o BytewiseStore(fields[2].bytes, address + fields[2].offset)

Writes(store) ==
  CASE Len(store.fields) = 0 -> <<>>
    [] Len(store.fields) = 1 -> BytewiseStore(store.fields[1].bytes, store.address)
    [] Len(store.fields) = 2 -> ZeroedPadding(store.fields, store.size, store.address)

Init ==
  /\ case \in Cases
  /\ memory = case.memory
  /\ pending = Writes(case.store)
  /\ loaded = <<>>
  /\ outcome = <<>>
  /\ overlap = FALSE

-----------------------------------------------------------------------------
Addresses == Covered(case.load)
Unread == Addresses \ DOMAIN loaded

Storing == pending # <<>> /\ Len(pending) < Len(Writes(case.store))
Loading == DOMAIN loaded # {} /\ Unread # {}

Without(sequence, k) == SubSeq(sequence, 1, k - 1) \o SubSeq(sequence, k + 1, Len(sequence))

StoreByte ==
  \E k \in DOMAIN pending :
    /\ k = 1 \/ case.store.isVolatile
    /\ memory' = [memory EXCEPT ![pending[k][1]] = pending[k][2]]
    /\ pending' = Without(pending, k)
    /\ overlap' = (overlap \/ Loading)
    /\ UNCHANGED <<case, loaded, outcome>>

\* loadValueBytewiseAtomic
LoadByte ==
  \E address \in Unread :
    /\ case.load.isVolatile \/ \A other \in Unread : address <= other
    /\ loaded' = [a \in DOMAIN loaded \cup {address} |->
                    IF a = address THEN memory[a] ELSE loaded[a]]
    /\ overlap' = (overlap \/ Storing)
    /\ UNCHANGED <<case, memory, pending, outcome>>

\* The loaded value: a word, or the lanes of a vector.
Bytes == [k \in 1 .. case.load.size |-> loaded[case.load.address + k - 1]]
Bits == ByteBits * case.load.size
Word ==
  CASE case.load.size = 1 -> Bytes[1]
    [] case.load.size = 2 -> Bytes[1] + 2^ByteBits * Bytes[2]
    [] case.load.size = 3 -> Bytes[1] + 2^ByteBits * Bytes[2] + 2^(2 * ByteBits) * Bytes[3]

\* What a command makes of the loaded value: outcomes, one for every choice
\* that LLVM leaves to the target.
Outcomes(command) ==
  CASE command.kind = "binary" ->
         {Binary(command.op, Word, Bits, command.rhs, command.rhsBits, command.isUnsigned)}
    [] command.kind = "pointers" ->
         {PointerDifference(Word, command.rhs, Bits, command.elementSize)}
    [] command.kind = "vector" -> {VectorDivision(command.op, Bytes, command.divisors, ByteBits)}
    [] command.kind = "minmax" -> MinMax(command.op, Word, command.rhs)
    [] command.kind = "convert" -> {FloatToInteger(Word, command.bits, command.op = "fptosi")}

Execute ==
  /\ Unread = {}
  /\ outcome = <<>>
  /\ outcome' \in Outcomes(case.command)
  /\ UNCHANGED <<case, memory, pending, loaded, overlap>>

Next == StoreByte \/ LoadByte \/ Execute

Spec == Init /\ [][Next]_vars

-----------------------------------------------------------------------------
\* What the memory is to become: the fields, zeros between them, the rest.
Inside(address, first, size) == address >= first /\ address < first + size

Final(c, address) ==
  LET store == c.store
      written == {k \in DOMAIN store.fields :
        Inside(address, store.address + store.fields[k].offset, Len(store.fields[k].bytes))}
  IN IF written # {}
     THEN LET k == CHOOSE k \in written : TRUE
          IN store.fields[k].bytes[address - store.address - store.fields[k].offset + 1]
     ELSE IF address \in Covered(store) THEN 0
     ELSE c.memory[address]

(***************************************************************************)
(* A load that races with a store returns a mixture, byte by byte, of what *)
(* was there and what is stored, and zeros only where a structure is being *)
(* stored; it never returns bytes of neither (of a temporary, of padding). *)
(* A load and a store that do not overlap in time are whole, and a store   *)
(* leaves behind the value, zeros in its padding, and all else unchanged.  *)
(***************************************************************************)
LoadsMixStores ==
  /\ \A a \in DOMAIN loaded :
        \/ loaded[a] \in {case.memory[a], Final(case, a)}
        \/ loaded[a] = 0 /\ Len(case.store.fields) = 2
             /\ a \in Covered(case.store)
  /\ Unread = {} /\ ~overlap =>
       \/ \A a \in Addresses : loaded[a] = case.memory[a]
       \/ \A a \in Addresses : loaded[a] = Final(case, a)
  /\ pending = <<>> => \A a \in DOMAIN memory : memory[a] = Final(case, a)

-----------------------------------------------------------------------------
\* Arithmetic without widths, rounded or refused as PSI does.
Representable(i, n, isUnsigned) ==
  IF isUnsigned THEN i \in 0 .. 2^n - 1 ELSE i \in -(2^(n - 1)) .. 2^(n - 1) - 1

ExactBinary(op, x, y, n, isUnsigned) ==
  LET i == Number(x, n, isUnsigned)
      j == Number(y, n, isUnsigned)
  IN CASE op = "add" -> Value(Wrap(i + j, n))
       [] op = "sub" -> Value(Wrap(i - j, n))
       [] op = "mul" -> Value(Wrap(i * j, n))
       [] op \in {"div", "mod"} ->
            IF j = 0 THEN Trap
            ELSE IF ~Representable(Quotient(i, j), n, isUnsigned) THEN Trap
            ELSE Value(Wrap(IF op = "div" THEN Quotient(i, j) ELSE Remainder(i, j), n))
       [] op \in {"lsh", "rsh"} ->
            IF j \notin 0 .. n - 1 THEN Trap
            ELSE Value(Wrap(IF op = "lsh" THEN i * 2^j ELSE i \div 2^j, n))
       [] op \in {"eq", "gte", "lte"} /\ i = j -> Truth(TRUE)
       [] op \in {"neq", "gt", "lt"} /\ i = j -> Truth(FALSE)
       [] op \in {"eq", "neq", "gt", "gte"} /\ i > j -> Truth(op # "eq")
       [] op \in {"eq", "neq", "lt", "lte"} /\ i < j -> Truth(op # "eq")
       [] OTHER -> Truth(FALSE)

\* A vector divides in all lanes or in none.
ExactVector(op, a, b, n) ==
  LET lanes == [k \in DOMAIN a |-> ExactBinary("div", a[k], b[k], n, op = "vdivu")]
  IN IF \E k \in DOMAIN a : lanes[k] = Trap THEN Trap
     ELSE Value([k \in DOMAIN a |-> lanes[k][2]])

\* The elements between two elements of an array in half the address space.
SameArray(x, y, n, size) == (x - y) % size = 0 /\ Abs(x - y) < 2^(n - 1)

\* The order in which -0 is below +0; no target may choose between them.
Rank(x) == IF SignBit(x) = 1 THEN -(2 * Magnitude(x)) - 1 ELSE 2 * Magnitude(x)
Extreme(op, a, b) ==
  IF (op = "vmin") = (Rank(a) < Rank(b)) THEN a ELSE b

ExactMinMax(op, a, b) ==
  CASE IsSignaling(a) \/ IsSignaling(b) \/ (IsNaN(a) /\ IsNaN(b)) -> CanonicalNaN
    [] IsNaN(a) /\ ~IsSignaling(a) /\ ~IsNaN(b) -> b
    [] IsNaN(b) /\ ~IsSignaling(b) /\ ~IsNaN(a) -> a
    [] OTHER -> Extreme(op, a, b)

\* A number within the limits of the integer type, cut to its integral part.
ExactInteger(x, n, signed) ==
  LET whole == Quotient(Units(x), One)
  IN IF /\ IsFinite(x)
        /\ Representable(whole, n, ~signed)
        /\ Representable(IF Units(x) < One * whole THEN whole - 1 ELSE whole, n, ~signed)
     THEN Value(Wrap(whole, n))
     ELSE Trap

Exact(command) ==
  CASE command.kind = "binary" ->
         outcome = ExactBinary(command.op, Word,
           Wrap(Number(command.rhs, command.rhsBits, command.isUnsigned), Bits),
           Bits, command.isUnsigned)
    [] command.kind = "pointers" ->
         SameArray(Word, command.rhs, Bits, command.elementSize) =>
           outcome = Value(Wrap(Quotient(Word - command.rhs, command.elementSize), Bits))
    [] command.kind = "vector" ->
         outcome = ExactVector(command.op, Bytes, command.divisors, ByteBits)
    [] command.kind = "minmax" ->
         outcome = Value(ExactMinMax(command.op, flushSubnormal(Word),
                                     flushSubnormal(command.rhs)))
    [] command.kind = "convert" ->
         outcome = ExactInteger(flushSubnormal(Word), command.bits, command.op = "fptosi")

(***************************************************************************)
(* Whatever mixture was loaded, the command computes its exact result or   *)
(* traps exactly where there is none: the checks before LLVM's division,   *)
(* shift and conversion leave no operand for which LLVM's result is        *)
(* undefined, and refuse no other; and what minnum and maxnum leave to the *)
(* target (the sign of a zero, the bits of a NaN) never shows.             *)
(***************************************************************************)
ResultsExact == outcome # <<>> => outcome # Poison /\ Exact(case.command)
=============================================================================
