--------------------------- MODULE MCBoundedView ---------------------------
(***************************************************************************)
(* An instance of BoundedView with two views and two-byte elements: the    *)
(* operands are two-bit integers, signed (1, -1) and unsigned (0, 3),      *)
(* and signed 64-bit ones (four bits here), 2 and the least one.           *)
(***************************************************************************)
EXTENDS BoundedView

Operands ==
  [bits : {1, 3}, space : {4}, unsigned : {FALSE}]
    \cup [bits : {0, 3}, space : {4}, unsigned : {TRUE}]
    \cup [bits : {2, 8}, space : {16}, unsigned : {FALSE}]

\* States are told apart without the history variable: no action reads it, and
\* TLC checks the contract on every step, also to a state it has seen.
WithoutRequest == <<views, memory, stack, result, trapped>>
=============================================================================
