----------------------------- MODULE AtomicCell -----------------------------
(***************************************************************************)
(* A cell of floating-point bits whose updates are atomic: an update takes *)
(* effect in one step between its call and its return, combines the bits   *)
(* that it finds with its operand, and returns the bits it found.          *)
(***************************************************************************)
CONSTANTS
  Thread,
  Bits,     \* the bit patterns of the type
  Op,       \* the operations
  Combine,  \* what an operation makes of the cell's bits and an operand
  NoBits    \* no operand, no result

VARIABLES
  cell,    \* the bits in memory
  pending, \* the update that each thread has called: <<op, operand>>, or <<>>
  result   \* what the last update of each thread returned

vars == <<cell, pending, result>>

Init ==
  /\ cell \in Bits
  /\ pending = [t \in Thread |-> <<>>]
  /\ result = [t \in Thread |-> NoBits]

Call(t, op, operand) ==
  /\ pending[t] = <<>>
  /\ pending' = [pending EXCEPT ![t] = <<op, operand>>]
  /\ result' = [result EXCEPT ![t] = NoBits]
  /\ UNCHANGED cell

Update(t) ==
  /\ pending[t] # <<>>
  /\ cell' = Combine[<<pending[t][1], cell, pending[t][2]>>]
  /\ pending' = [pending EXCEPT ![t] = <<>>]
  /\ result' = [result EXCEPT ![t] = cell]

\* #atomicstore, or any other write of the whole cell.
Write(t, bits) ==
  /\ pending[t] = <<>>
  /\ cell' = bits
  /\ result' = [result EXCEPT ![t] = NoBits]
  /\ UNCHANGED pending

Next ==
  \E t \in Thread :
    \/ \E op \in Op, operand \in Bits : Call(t, op, operand)
    \/ Update(t)
    \/ \E bits \in Bits : Write(t, bits)

Spec == Init /\ [][Next]_vars
=============================================================================
