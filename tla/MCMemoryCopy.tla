---------------------------- MODULE MCMemoryCopy ----------------------------
(***************************************************************************)
(* An instance of MemoryCopy with three-bit addresses, lengths that do not *)
(* fit them, and two bytes.                                                *)
(***************************************************************************)
EXTENDS MemoryCopy
=============================================================================
