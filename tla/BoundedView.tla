---------------------------- MODULE BoundedView ----------------------------
(***************************************************************************)
(* Bounded views as the generator represents them: a pair of an address    *)
(* and a 64-bit length.  A function with some view registers runs any      *)
(* sequence of #viewslice, #viewload, #viewstore, #viewlen, copies and     *)
(* array literals.                                                         *)
(*                                                                         *)
(* Operands are bit patterns of integer types no wider than a length,      *)
(* signed or unsigned.  Addresses wrap.  An element is a value, held at    *)
(* the address of its first byte.  A literal gets storage that no earlier  *)
(* one has: where is up to the allocator.  Every view here comes from a    *)
(* literal, since views cannot be global, stored, returned, or passed to   *)
(* or from other languages' declarations (validation.cpp:1627-1664).       *)
(***************************************************************************)
EXTENDS Integers, Sequences

CONSTANTS
  View,         \* the view registers of the function
  Value,        \* elements
  NoValue,      \* no element
  Operand,      \* integer operands: [bits, space, unsigned]
  WordSpace,    \* the number of values of a length, 2^64
  AddressSpace, \* the number of addresses
  ElementSize,  \* how many bytes an element takes
  MaxLiteral    \* the longest array literal

ASSUME ViewSpaceAssumption ==
  /\ WordSpace \in Nat \ {0} /\ AddressSpace \in Nat \ {0}
  /\ ElementSize \in Nat \ {0} /\ MaxLiteral \in Nat
  /\ AddressSpace <= WordSpace
  /\ 2 * MaxLiteral < WordSpace \* a literal is part of the program's text

\* bits is a pattern of the operand's type, which has space values, half of
\* them negative if it is signed.
ASSUME OperandAssumption ==
  \A o \in Operand :
    /\ o.space \in Nat /\ o.bits \in 0 .. o.space - 1
    /\ o.space <= WordSpace
    /\ o.unsigned \in BOOLEAN

ASSUME NoValueAssumption == NoValue \notin Value

VARIABLES
  views,    \* the register of each view: data and length
  memory,   \* what the element at each address holds
  stack,    \* addresses of the elements allocated so far
  request,  \* the command that ran last, with its numbers (history)
  result,   \* what it returned
  trapped   \* it has trapped, and the program with it

vars == <<views, memory, stack, request, result, trapped>>

Address == 0 .. AddressSpace - 1
Word == 0 .. WordSpace - 1
Null == 0

\* What an operand stands for: its type says how to read its bits.
Number(o) == IF o.unsigned \/ 2 * o.bits < o.space THEN o.bits ELSE o.bits - o.space

TypeOK ==
  /\ views \in [View -> [data : Address, length : Word]]
  /\ memory \in [Address -> Value \cup {NoValue}]
  /\ stack \subseteq Address
  /\ result \in Value \cup {NoValue} \cup Word
  /\ trapped \in BOOLEAN

Init ==
  /\ views = [v \in View |-> [data |-> Null, length |-> 0]]
  /\ memory = [a \in Address |-> NoValue]
  /\ stack = {}
  /\ request = <<>>
  /\ result = NoValue
  /\ trapped = FALSE

-----------------------------------------------------------------------------
\* Mutant: a negative operand stays below zero instead of wrapping to a large one.
Unconverted(o) == IF o.unsigned \/ 2 * o.bits < o.space THEN o.bits ELSE o.bits - o.space

\* convertViewInteger: zero or sign extension to 64 bits.
Converted(o) ==
  IF o.unsigned \/ 2 * o.bits < o.space
    THEN o.bits ELSE WordSpace - o.space + o.bits

\* CreateGEP: the address of an element.
ElementAddress(data, index) == (data + index * ElementSize) % AddressSpace

\* llvm.trap and unreachable.
Trap ==
  /\ trapped' = TRUE
  /\ result' = NoValue
  /\ UNCHANGED <<views, memory, stack>>

-----------------------------------------------------------------------------
\* The addresses of the elements of an array of n that begins at base.
ArrayAt(base, n) == {base + i * ElementSize : i \in 0 .. n - 1}

\* Mutant: the storage of an earlier execution of a literal is used again.
CanAllocateAgain(base, n) == base # Null /\ base + n * ElementSize < AddressSpace

\* CreateAlloca: storage that is not in use, does not contain the null address
\* and does not reach the end of the address space.
CanAllocate(base, n) ==
  /\ base # Null
  /\ base + n * ElementSize < AddressSpace
  /\ \A a \in ArrayAt(base, n), b \in stack :
       a + ElementSize <= b \/ b + ElementSize <= a

\* v = [values], each time it is reached.
ArrayLiteral(v, values, base) ==
  /\ CanAllocate(base, Len(values))
  /\ views' = [views EXCEPT ![v] = [data |-> base, length |-> Len(values)]]
  /\ memory' = [a \in Address |->
       IF a \in ArrayAt(base, Len(values))
         THEN values[(a - base) \div ElementSize + 1] ELSE memory[a]]
  /\ stack' = stack \cup ArrayAt(base, Len(values))
  /\ request' = <<"literal">> /\ result' = NoValue
  /\ UNCHANGED trapped

CopyView(v, w) ==
  /\ views' = [views EXCEPT ![v] = views[w]]
  /\ request' = <<"copy">> /\ result' = NoValue
  /\ UNCHANGED <<memory, stack, trapped>>

ViewLength(v) ==
  /\ result' = views[v].length
  /\ request' = <<"length">>
  /\ UNCHANGED <<views, memory, stack, trapped>>

\* Mutant: the count is compared with the length and not with what remains.
SliceCountOutOfBounds(w, start, count) ==
  start > views[w].length \/ count > views[w].length

\* Both comparisons are unsigned, on 64 bits.
SliceOutOfBounds(w, start, count) ==
  \/ start > views[w].length
  \/ count > (views[w].length - start) % WordSpace

ViewSlice(v, w, first, second) ==
  LET start == Converted(first)
      count == Converted(second) IN
  /\ request' = <<"slice", w, Number(first), Number(second)>>
  /\ \/ SliceOutOfBounds(w, start, count) /\ Trap
     \/ /\ ~SliceOutOfBounds(w, start, count)
        /\ views' = [views EXCEPT ![v] =
             [data |-> ElementAddress(views[w].data, start), length |-> count]]
        /\ result' = NoValue
        /\ UNCHANGED <<memory, stack, trapped>>

\* The bounds check, then the checks every PSI access has: null, and an
\* element that wraps round the address space.
AccessFaults(v, index) ==
  LET address == ElementAddress(views[v].data, index) IN
  \/ index >= views[v].length
  \/ views[v].data = Null
  \/ address = Null
  \/ (address + ElementSize) % AddressSpace < address

ViewLoad(v, operand) ==
  LET index == Converted(operand) IN
  /\ request' = <<"load", v, Number(operand)>>
  /\ \/ AccessFaults(v, index) /\ Trap
     \/ /\ ~AccessFaults(v, index)
        /\ result' = memory[ElementAddress(views[v].data, index)]
        /\ UNCHANGED <<views, memory, stack, trapped>>

ViewStore(v, operand, value) ==
  LET index == Converted(operand) IN
  /\ request' = <<"store", v, Number(operand)>>
  /\ \/ AccessFaults(v, index) /\ Trap
     \/ /\ ~AccessFaults(v, index)
        /\ memory' = [memory EXCEPT ![ElementAddress(views[v].data, index)] = value]
        /\ result' = NoValue
        /\ UNCHANGED <<views, stack, trapped>>

Next ==
  /\ ~trapped
  /\ \E v \in View :
       \/ \E n \in 0 .. MaxLiteral : \E values \in [1 .. n -> Value], base \in Address :
            ArrayLiteral(v, values, base)
       \/ \E w \in View : CopyView(v, w)
       \/ ViewLength(v)
       \/ \E w \in View, first, second \in Operand : ViewSlice(v, w, first, second)
       \/ \E operand \in Operand : ViewLoad(v, operand)
       \/ \E operand \in Operand, value \in Value : ViewStore(v, operand, value)

Spec == Init /\ [][Next]_vars

-----------------------------------------------------------------------------
\* Every element that a view counts is an element of some array literal, in
\* its place, after any sequence of slices of slices, so that no access that
\* passes the bounds check leaves the program's storage.
ViewsInStorage ==
  \A v \in View : \A i \in 0 .. views[v].length - 1 :
    views[v].data + i * ElementSize \in stack

\* The addresses of the elements of a view are the cells it stands for.
Elements(v) ==
  [i \in 1 .. views[v].length |-> views[v].data + (i - 1) * ElementSize]

Contract ==
  INSTANCE ViewContract WITH
    Cell <- Address, Numbers <- {Number(o) : o \in Operand},
    views <- [v \in View |-> Elements(v)], cells <- memory, owned <- stack

\* Views behave as sequences of cells: copies and slices share their elements,
\* literals do not, and a command traps exactly when its integers, read with
\* their own type's sign, do not fit the view.
KeepsViewContract == Contract!Spec
=============================================================================
