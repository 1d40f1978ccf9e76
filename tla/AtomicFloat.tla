---------------------------- MODULE AtomicFloat ----------------------------
(***************************************************************************)
(* #atomicfadd and #atomicfsub: no machine instruction adds floating-point *)
(* numbers atomically and normalises subnormals and NaNs as PSI demands,   *)
(* so processCanonicalAtomicFloatRmw emits a compare-exchange loop on the  *)
(* bits.  Several threads run it on one cell, beside #atomicstore.         *)
(*                                                                         *)
(* Bits are abstract; Flush, NaN, QuietNaN and Arithmetic say what the     *)
(* normalisations and the hardware's operations do with them.  The pointer *)
(* has passed its checks.  The load that seeds the loop is monotonic: it   *)
(* may return any bits that the cell has held.                             *)
(***************************************************************************)
EXTENDS Naturals

CONSTANTS
  Thread,
  Bits,       \* bit patterns of the floating-point type
  Op,         \* FAdd and FSub
  Arithmetic, \* the hardware's result, of <<op, left, right>>
  Flushed,    \* each pattern, with subnormals replaced by a zero of their sign
  NaN,        \* the patterns that are not numbers
  QuietNaN,   \* the canonical one
  NoBits,     \* none
  MaxCalls    \* how many commands each thread executes

ASSUME BitsAssumption ==
  /\ Op # {} /\ NoBits \notin Bits
  /\ Arithmetic \in [Op \X Bits \X Bits -> Bits]
  /\ Flushed \in [Bits -> Bits]
  /\ NaN \subseteq Bits /\ QuietNaN \in NaN

ASSUME CallsAssumption == MaxCalls \in Nat

VARIABLES
  memory,   \* the bits of the cell
  held,     \* the bits it has held so far (what a monotonic load may see)
  pc,       \* the block each thread runs: outside, the seed load, or the loop
  op,       \* the operation
  value,    \* the operand
  expected, \* atomic.float.expected
  result,   \* atomic.float.result of the last command
  calls     \* commands begun (bound)

vars == <<memory, held, pc, op, value, expected, result, calls>>

\* The registers have values where they are used.
TypeOK ==
  /\ memory \in Bits /\ held \subseteq Bits
  /\ pc \in [Thread -> {"outside", "seed", "retry"}]
  /\ op \in [Thread -> Op]
  /\ value \in [Thread -> Bits \cup {NoBits}]
  /\ expected \in [Thread -> Bits \cup {NoBits}]
  /\ result \in [Thread -> Bits \cup {NoBits}]
  /\ calls \in [Thread -> 0 .. MaxCalls]
  /\ \A t \in Thread :
       /\ pc[t] # "outside" => value[t] # NoBits
       /\ pc[t] = "retry" => expected[t] # NoBits

Init ==
  /\ memory \in Bits
  /\ held = {memory}
  /\ pc = [t \in Thread |-> "outside"]
  /\ op = [t \in Thread |-> CHOOSE o \in Op : TRUE]
  /\ value = [t \in Thread |-> NoBits]
  /\ expected = [t \in Thread |-> NoBits]
  /\ result = [t \in Thread |-> NoBits]
  /\ calls = [t \in Thread |-> 0]

-----------------------------------------------------------------------------
flushSubnormal(bits) == Flushed[bits]

canonicalizeNaN(bits) ==
  IF flushSubnormal(bits) \in NaN THEN QuietNaN ELSE flushSubnormal(bits)

\* nextValue: what the loop offers for the bits it expects.
NextBits(o, old, operand) ==
  canonicalizeNaN(Arithmetic[<<o, flushSubnormal(old), flushSubnormal(operand)>>])

BeginCommand(t) ==
  /\ pc[t] = "outside" /\ calls[t] < MaxCalls
  /\ calls' = [calls EXCEPT ![t] = @ + 1]
  /\ result' = [result EXCEPT ![t] = NoBits]

\* result = #atomicfadd pointer operand (or #atomicfsub)
BeginUpdate(t, o, operand) ==
  /\ BeginCommand(t)
  /\ pc' = [pc EXCEPT ![t] = "seed"]
  /\ op' = [op EXCEPT ![t] = o]
  /\ value' = [value EXCEPT ![t] = operand]
  /\ UNCHANGED <<memory, held, expected>>

\* #atomicstore pointer bits
AtomicStore(t, bits) ==
  /\ BeginCommand(t)
  /\ memory' = bits
  /\ held' = held \cup {bits}
  /\ UNCHANGED <<pc, op, value, expected>>

\* Mutant: nothing is loaded before the loop.
SeedMissing(t) ==
  /\ pc[t] = "seed"
  /\ pc' = [pc EXCEPT ![t] = "retry"]
  /\ UNCHANGED <<memory, held, op, value, expected, result, calls>>

\* The monotonic load before the loop.
Seed(t) ==
  /\ pc[t] = "seed"
  /\ \E bits \in held : expected' = [expected EXCEPT ![t] = bits]
  /\ pc' = [pc EXCEPT ![t] = "retry"]
  /\ UNCHANGED <<memory, held, op, value, result, calls>>

\* Mutant: the exchange compares numbers, and no NaN equals itself.
SameNumber(a, b) == a = b /\ a \notin NaN

\* The exchange compares patterns.
SameBits(a, b) == a = b

\* Mutant: the sum is stored whether or not the cell still has the bits.
ExchangeUnchecked(t) ==
  LET next == NextBits(op[t], expected[t], value[t]) IN
  /\ pc[t] = "retry"
  /\ memory' = next /\ held' = held \cup {next}
  /\ result' = [result EXCEPT ![t] = expected[t]]
  /\ pc' = [pc EXCEPT ![t] = "outside"]
  /\ expected' = [expected EXCEPT ![t] = NoBits]
  /\ value' = [value EXCEPT ![t] = NoBits]
  /\ UNCHANGED <<op, calls>>

\* The strong compare-exchange succeeds and its old bits are returned as they
\* were, or it fails and what it observed is expected next.  The registers of a
\* command that is over are dead.
Exchange(t) ==
  LET next == NextBits(op[t], expected[t], value[t]) IN
  /\ pc[t] = "retry"
  /\ \/ /\ SameBits(memory, expected[t])
        /\ memory' = next /\ held' = held \cup {next}
        /\ result' = [result EXCEPT ![t] = expected[t]]
        /\ pc' = [pc EXCEPT ![t] = "outside"]
        /\ expected' = [expected EXCEPT ![t] = NoBits]
        /\ value' = [value EXCEPT ![t] = NoBits]
     \/ /\ ~SameBits(memory, expected[t])
        /\ expected' = [expected EXCEPT ![t] = memory]
        /\ UNCHANGED <<memory, held, result, pc, value>>
  /\ UNCHANGED <<op, calls>>

Begin(t) ==
  \/ \E o \in Op, operand \in Bits : BeginUpdate(t, o, operand)
  \/ \E bits \in Bits : AtomicStore(t, bits)

\* What a thread does by itself once it has begun an update.
Step(t) == Seed(t) \/ Exchange(t)

Next == \E t \in Thread : Begin(t) \/ Step(t)

Spec == Init /\ [][Next]_vars

\* The operating system runs every thread.
FairSpec == Spec /\ \A t \in Thread : WF_vars(Step(t))

-----------------------------------------------------------------------------
Cell ==
  INSTANCE AtomicCell WITH
    Combine <- [a \in Op \X Bits \X Bits |-> NextBits(a[1], a[2], a[3])],
    cell <- memory,
    pending <- [t \in Thread |->
                  IF pc[t] = "outside" THEN <<>> ELSE <<op[t], value[t]>>]

\* Each update happens at once, at the exchange that succeeds: no update of
\* another thread between the read and the write is lost, the seed may be
\* stale, and the bits returned are those replaced, a NaN's payload included.
UpdatesAreAtomic == Cell!Spec

\* An update that has begun returns, also when the cell holds a NaN, however
\* often the other threads get in between.
UpdatesReturn == \A t \in Thread : pc[t] # "outside" ~> pc[t] = "outside"
=============================================================================
