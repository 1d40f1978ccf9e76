--------------------------- MODULE MCAtomicFloat ---------------------------
(***************************************************************************)
(* An instance of AtomicFloat with one pattern of each kind: a zero, a     *)
(* number, a subnormal, and NaNs with and without a payload.               *)
(***************************************************************************)
EXTENDS AtomicFloat

CONSTANTS zero, one, subnormal, payload, quiet

NaNs == {payload, quiet}
FlushedBits == [b \in Bits |-> IF b = subnormal THEN zero ELSE b]

\* The hardware propagates payloads and underflows to a subnormal.
FloatArithmetic ==
  [a \in Op \X Bits \X Bits |->
     IF a[2] \in NaNs THEN a[2]
     ELSE IF a[3] \in NaNs THEN a[3]
     ELSE IF a[3] = zero THEN a[2]
     ELSE IF a[1] = "FSub" /\ a[2] = a[3] THEN subnormal
     ELSE one]
=============================================================================
