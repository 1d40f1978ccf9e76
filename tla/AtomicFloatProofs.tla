------------------------- MODULE AtomicFloatProofs -------------------------
(***************************************************************************)
(* The compare-exchange loop makes every update atomic, for every number   *)
(* of threads, every set of bit patterns and every arithmetic on them.     *)
(***************************************************************************)
EXTENDS AtomicFloat, TLAPS

LEMMA NextBitsTyped ==
  ASSUME NEW o \in Op, NEW old \in Bits, NEW operand \in Bits
  PROVE  NextBits(o, old, operand) \in Bits
<1>1. flushSubnormal(old) \in Bits /\ flushSubnormal(operand) \in Bits
  BY BitsAssumption DEF flushSubnormal
<1>2. Arithmetic[<<o, flushSubnormal(old), flushSubnormal(operand)>>] \in Bits
  BY <1>1, BitsAssumption
<1>3. \A b \in Bits : canonicalizeNaN(b) \in Bits
  BY BitsAssumption DEF canonicalizeNaN, flushSubnormal
<1> QED
  BY <1>2, <1>3 DEF NextBits

LEMMA AtomicInit == Init => TypeOK
<1> SUFFICES ASSUME Init PROVE TypeOK
  OBVIOUS
<1>1. (CHOOSE o \in Op : TRUE) \in Op
  BY BitsAssumption
<1>2. 0 \in 0 .. MaxCalls
  BY CallsAssumption, SMT
<1> QED
  BY <1>1, <1>2 DEF Init, TypeOK

LEMMA BeginUpdateTyped ==
  ASSUME TypeOK, NEW t \in Thread, NEW o \in Op, NEW operand \in Bits,
         BeginUpdate(t, o, operand)
  PROVE  TypeOK'
<1>1. calls' \in [Thread -> 0 .. MaxCalls]
  BY CallsAssumption, SMT DEF BeginUpdate, BeginCommand, TypeOK
<1>2. operand # NoBits
  BY BitsAssumption
<1> QED
  BY <1>1, <1>2 DEF BeginUpdate, BeginCommand, TypeOK

LEMMA AtomicStoreTyped ==
  ASSUME TypeOK, NEW t \in Thread, NEW bits \in Bits, AtomicStore(t, bits)
  PROVE  TypeOK'
<1>1. calls' \in [Thread -> 0 .. MaxCalls]
  BY CallsAssumption, SMT DEF AtomicStore, BeginCommand, TypeOK
<1> QED
  BY <1>1 DEF AtomicStore, BeginCommand, TypeOK

LEMMA SeedTyped ==
  ASSUME TypeOK, NEW t \in Thread, Seed(t)
  PROVE  TypeOK'
<1>1. PICK bits \in held : expected' = [expected EXCEPT ![t] = bits]
  BY DEF Seed
<1>2. bits \in Bits /\ bits # NoBits
  BY BitsAssumption DEF TypeOK
<1> QED
  BY <1>1, <1>2 DEF Seed, TypeOK

\* The exchange that succeeds found the bits it expected.
LEMMA ExchangeCases ==
  ASSUME TypeOK, NEW t \in Thread, Exchange(t)
  PROVE  \/ /\ memory = expected[t]
            /\ memory' = NextBits(op[t], memory, value[t])
            /\ held' = held \cup {memory'}
            /\ result' = [result EXCEPT ![t] = memory]
            /\ pc' = [pc EXCEPT ![t] = "outside"]
            /\ expected' = [expected EXCEPT ![t] = NoBits]
            /\ value' = [value EXCEPT ![t] = NoBits]
         \/ /\ expected' = [expected EXCEPT ![t] = memory]
            /\ UNCHANGED <<memory, held, result, pc, value>>
BY DEF Exchange, SameBits

LEMMA ExchangeTyped ==
  ASSUME TypeOK, NEW t \in Thread, Exchange(t)
  PROVE  TypeOK'
<1>1. pc[t] = "retry" /\ UNCHANGED <<op, calls>>
  BY DEF Exchange
<1>2. value[t] \in Bits /\ op[t] \in Op /\ memory \in Bits /\ memory # NoBits
  BY <1>1, BitsAssumption DEF TypeOK
<1>3. NextBits(op[t], memory, value[t]) \in Bits
  BY <1>2, NextBitsTyped
<1>4. CASE /\ memory' = NextBits(op[t], memory, value[t])
           /\ held' = held \cup {memory'}
           /\ result' = [result EXCEPT ![t] = memory]
           /\ pc' = [pc EXCEPT ![t] = "outside"]
           /\ expected' = [expected EXCEPT ![t] = NoBits]
           /\ value' = [value EXCEPT ![t] = NoBits]
  BY <1>1, <1>2, <1>3, <1>4 DEF TypeOK
<1>5. CASE /\ expected' = [expected EXCEPT ![t] = memory]
           /\ UNCHANGED <<memory, held, result, pc, value>>
  BY <1>1, <1>2, <1>5 DEF TypeOK
<1> QED
  BY <1>4, <1>5, ExchangeCases

\* Registers have values where they are used, in every execution.
THEOREM AtomicTypeCorrect == Spec => []TypeOK
<1>1. TypeOK /\ [Next]_vars => TypeOK'
  <2> SUFFICES ASSUME TypeOK, [Next]_vars PROVE TypeOK'
    OBVIOUS
  <2>1. CASE UNCHANGED vars
    BY <2>1 DEF vars, TypeOK
  <2>2. CASE Next
    BY <2>2, BeginUpdateTyped, AtomicStoreTyped, SeedTyped, ExchangeTyped
    DEF Next, Begin, Step
  <2> QED
    BY <2>1, <2>2
<1> QED
  BY AtomicInit, <1>1, PTL DEF Spec

-----------------------------------------------------------------------------
\* The update that a thread has called, as the abstract cell sees it.
Pending == [t \in Thread |-> IF pc[t] = "outside" THEN <<>> ELSE <<op[t], value[t]>>]

LEMMA PendingChanged ==
  ASSUME TypeOK, NEW t \in Thread,
         \A u \in Thread : u # t => pc'[u] = pc[u] /\ op'[u] = op[u] /\ value'[u] = value[u]
  PROVE  Pending' = [Pending EXCEPT
           ![t] = IF pc'[t] = "outside" THEN <<>> ELSE <<op'[t], value'[t]>>]
BY DEF Pending

LEMMA BeginUpdateImplements ==
  ASSUME TypeOK, NEW t \in Thread, NEW o \in Op, NEW operand \in Bits,
         BeginUpdate(t, o, operand)
  PROVE  Cell!Call(t, o, operand)
<1>1. /\ pc[t] = "outside" /\ pc'[t] = "seed" /\ op'[t] = o /\ value'[t] = operand
      /\ \A u \in Thread : u # t => pc'[u] = pc[u] /\ op'[u] = op[u] /\ value'[u] = value[u]
      /\ result' = [result EXCEPT ![t] = NoBits] /\ memory' = memory
  BY DEF BeginUpdate, BeginCommand, TypeOK
<1>2. Pending' = [Pending EXCEPT ![t] = <<o, operand>>] /\ Pending[t] = <<>>
  BY <1>1, PendingChanged DEF Pending
<1> QED
  BY <1>1, <1>2 DEF Cell!Call, Pending

LEMMA AtomicStoreImplements ==
  ASSUME TypeOK, NEW t \in Thread, NEW bits \in Bits, AtomicStore(t, bits)
  PROVE  Cell!Write(t, bits)
<1>1. /\ pc[t] = "outside" /\ memory' = bits /\ pc' = pc /\ op' = op /\ value' = value
      /\ result' = [result EXCEPT ![t] = NoBits]
  BY DEF AtomicStore, BeginCommand
<1>2. Pending' = Pending /\ Pending[t] = <<>>
  BY <1>1 DEF Pending
<1> QED
  BY <1>1, <1>2 DEF Cell!Write, Pending

LEMMA ExchangeImplements ==
  ASSUME TypeOK, NEW t \in Thread, Exchange(t)
  PROVE  Cell!Update(t) \/ UNCHANGED Cell!vars
<1>1. pc[t] = "retry" /\ op' = op
  BY DEF Exchange
<1>2. Pending[t] = <<op[t], value[t]>> /\ Pending[t] # <<>>
  BY <1>1 DEF Pending
<1>3. value[t] \in Bits /\ op[t] \in Op /\ memory \in Bits
  BY <1>1 DEF TypeOK
<1>4. CASE /\ memory' = NextBits(op[t], memory, value[t])
           /\ result' = [result EXCEPT ![t] = memory]
           /\ pc' = [pc EXCEPT ![t] = "outside"]
           /\ value' = [value EXCEPT ![t] = NoBits]
  <2>1. /\ pc'[t] = "outside"
        /\ \A u \in Thread : u # t => pc'[u] = pc[u] /\ op'[u] = op[u] /\ value'[u] = value[u]
    BY <1>1, <1>4 DEF TypeOK
  <2>2. Pending' = [Pending EXCEPT ![t] = <<>>]
    BY <2>1, PendingChanged
  <2>3. memory' = [a \in Op \X Bits \X Bits |-> NextBits(a[1], a[2], a[3])]
                    [<<Pending[t][1], memory, Pending[t][2]>>]
    BY <1>2, <1>3, <1>4
  <2> QED
    BY <1>2, <1>4, <2>2, <2>3 DEF Cell!Update, Pending
<1>5. CASE UNCHANGED <<memory, result, pc, value>>
  BY <1>1, <1>5 DEF Cell!vars
<1> QED
  BY <1>4, <1>5, ExchangeCases

LEMMA SeedImplements ==
  ASSUME TypeOK, NEW t \in Thread, Seed(t)
  PROVE  UNCHANGED Cell!vars
<1>1. /\ UNCHANGED <<memory, op, value, result>>
      /\ \A u \in Thread : pc'[u] = "outside" <=> pc[u] = "outside"
  BY DEF Seed, TypeOK
<1> QED
  BY <1>1 DEF Cell!vars

\* Every update of the loop is atomic: it implements the abstract cell.
THEOREM UpdatesAtomic == Spec => UpdatesAreAtomic
<1>1. Init => Cell!Init
  BY DEF Init, Cell!Init
<1>2. TypeOK /\ [Next]_vars => [Cell!Next]_(Cell!vars)
  <2> SUFFICES ASSUME TypeOK, [Next]_vars PROVE [Cell!Next]_(Cell!vars)
    OBVIOUS
  <2>1. CASE UNCHANGED vars
    BY <2>1 DEF vars, Cell!vars
  <2>2. ASSUME NEW t \in Thread, Begin(t) PROVE Cell!Next
    BY <2>2, BeginUpdateImplements, AtomicStoreImplements DEF Begin, Cell!Next
  <2>3. ASSUME NEW t \in Thread, Step(t) PROVE [Cell!Next]_(Cell!vars)
    BY <2>3, SeedImplements, ExchangeImplements DEF Step, Cell!Next
  <2> QED
    BY <2>1, <2>2, <2>3 DEF Next
<1> QED
  BY <1>1, <1>2, AtomicTypeCorrect, PTL DEF Spec, UpdatesAreAtomic, Cell!Spec
=============================================================================
