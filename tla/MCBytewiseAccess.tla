-------------------------- MODULE MCBytewiseAccess --------------------------
(***************************************************************************)
(* Bytes of two bits.  Every command on every operand without a store, and *)
(* loads of two bytes of a structure or a word that is being stored, for   *)
(* two commands that trap on some mixtures.                                *)
(***************************************************************************)
EXTENDS BytewiseAccess

Memories(size) == [1 .. size -> Byte]

NoStore == [address |-> 1, size |-> 0, fields |-> <<>>, isVolatile |-> FALSE]
Load(address, size, isVolatile) ==
  [address |-> address, size |-> size, isVolatile |-> isVolatile]

Rights == UNION {{<<bits, rhs>> : rhs \in 0 .. 2^bits - 1} : bits \in {2, 4, 6}}

Words ==
  {[kind |-> "binary", op |-> op, rhs |-> r[2], rhsBits |-> r[1], isUnsigned |-> u] :
     op \in Operations, r \in Rights, u \in BOOLEAN}
    \cup {[kind |-> "pointers", rhs |-> rhs, elementSize |-> size] :
            rhs \in 0 .. 15, size \in 1 .. 15}
    \cup {[kind |-> "vector", op |-> op, divisors |-> rhs] :
            op \in {"vdivi", "vdivu"}, rhs \in Memories(2)}

Floats ==
  {[kind |-> "minmax", op |-> op, rhs |-> rhs] :
     op \in {"vmin", "vmax"}, rhs \in 0 .. 2^FloatBits - 1}
    \cup {[kind |-> "convert", op |-> op, bits |-> bits] :
            op \in {"fptosi", "fptoui"}, bits \in 1 .. 4}

Alone(memories, size, commands) ==
  [memory : memories, store : {NoStore}, load : {Load(1, size, FALSE)}, command : commands]

-----------------------------------------------------------------------------
Field(offset, bytes) == [offset |-> offset, bytes |-> bytes]

\* A structure of a byte, a byte of padding and a word of two bytes; a word.
Stores ==
  {[address |-> 1, size |-> 4, isVolatile |-> FALSE,
    fields |-> <<Field(0, <<1>>), Field(2, word)>>] : word \in Memories(2)}
    \cup {[address |-> 2, size |-> 2, isVolatile |-> v, fields |-> <<Field(0, word)>>] :
            word \in Memories(2), v \in BOOLEAN}

Racing ==
  [memory : {<<3>> \o m \o <<1>> : m \in Memories(2)} \cup {<<0, 3>> \o m : m \in Memories(2)},
   store : Stores,
   load : {Load(address, 2, v) : address \in {2, 3}, v \in BOOLEAN},
   command :
     {[kind |-> "binary", op |-> "mod", rhs |-> 15, rhsBits |-> 4, isUnsigned |-> FALSE],
      [kind |-> "vector", op |-> "vdivi", divisors |-> <<3, 3>>]}]

MCCases ==
  Alone(Memories(2), 2, Words) \cup Alone(Memories(3), 3, Floats) \cup Racing
=============================================================================
