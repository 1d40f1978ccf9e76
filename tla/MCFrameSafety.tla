--------------------------- MODULE MCFrameSafety ---------------------------
(***************************************************************************)
(* Instances of FrameSafety.  The registers are                            *)
(*   x        an integer                o        an argument, a pointer    *)
(*   a, b     pointers to integers               to a pointer              *)
(*   e        one declared by the       p, q     pointers to pointers      *)
(*            command that targets it   d, f     two declared like e       *)
(*   g        another like it           t        a pointer to one of those *)
(* and every fragment takes the commands of one question from them.        *)
(***************************************************************************)
EXTENDS FrameSafety

CONSTANTS x, a, b, d, e, f, g, o, p, q, t

MCLevel == [r \in Reg |-> CASE r = x -> 0
                            [] r \in {a, b, e, g} -> 1
                            [] r = t -> 3
                            [] OTHER -> 2]

On(op, ds, ss) == {[op |-> op, dst |-> u, src |-> s] : u \in ds, s \in ss}

\* Addresses of x that travel through a, the slot of b, and e.
EscapeCommands ==
  On("ref", {a}, {x}) \cup On("ref", {p}, {b}) \cup On("copy", {q}, {p})
    \cup On("store", {q}, {a}) \cup On("load", {e}, {p})
    \cup On("ret", {NoReg}, {b}) \cup On("global", {NoReg}, {e})

\* Immutable addresses that travel the same way.
ImmutableCommands ==
  On("literal", {a, b}, {NoReg}) \cup On("ref", {p}, {b})
    \cup On("store", {p}, {a}) \cup On("load", {e}, {p})
    \cup On("indexload", {a}, {p}) \cup On("indexload", {x}, {a})
    \cup On("indexstore", {a, b, e}, {x})

\* p[0] = v on a pointer to a frame slot.
IndexedStoreCommands ==
  On("ref", {a}, {x}) \cup On("ref", {p}, {b})
    \cup On("indexstore", {p}, {a}) \cup On("ret", {NoReg}, {b})

\* A pointer to a slot that is given a second slot.
RetargetCommands ==
  On("ref", {a}, {x}) \cup On("ref", {p}, {b, e}) \cup On("store", {p}, {a})
    \cup On("ret", {NoReg}, {b, e})

\* A pointer to a slot that is also given the caller's pointer.
MixedCommands ==
  On("ref", {a}, {x}) \cup On("ref", {p}, {b}) \cup On("copy", {p}, {o})
    \cup On("store", {p}, {a}) \cup On("indexstore", {p}, {a})

\* The bits of an address read back as an integer by p[0].
ReadBackCommands ==
  On("ref", {a}, {x}) \cup On("ref", {p}, {a}) \cup On("cast", {g}, {p})
    \cup On("indexload", {x}, {g}) \cup On("ret", {NoReg}, {x})

\* A pointer to a slot that is itself loaded from memory.
LoadedPointerCommands ==
  On("ref", {a}, {x}) \cup On("ref", {p}, {b}) \cup On("ref", {t}, {p})
    \cup On("load", {f}, {t}) \cup On("store", {f}, {a}) \cup On("ret", {NoReg}, {b})

\* Every kind of command, some used badly: e, d and f may be used before the
\* command that declares them, or declared twice.
EveryKind ==
  On("ref", {f, q}, {a}) \cup On("copy", {q, d}, {f}) \cup On("copy", {d}, {q})
    \cup On("ref", {a}, {x}) \cup On("cast", {f}, {a}) \cup On("literal", {a}, {NoReg})
    \cup On("load", {e}, {f, q, d}) \cup On("store", {q, d, o}, {a}) \cup On("store", {q}, {e})
    \cup On("indexload", {e}, {q}) \cup On("indexstore", {q}, {a})
    \cup On("indexstore", {a}, {x})
    \cup On("call", {NoReg}, {a}) \cup On("global", {NoReg}, {e})
    \cup On("ret", {NoReg}, {e})

SoundFragments ==
  {[commands |-> EscapeCommands, length |-> 5],
   [commands |-> ImmutableCommands, length |-> 4],
   [commands |-> EveryKind, length |-> 3]}

\* validateBlock runs on the caller's thread and never waits; nobody is obliged
\* to call the function it accepted.
FairFrameSpec == FrameSpec /\ WF_frameVars(Analyse)

\* Each of them is a gap of the analysis by itself.
GapFragments ==
  {[commands |-> IndexedStoreCommands, length |-> 4],
   [commands |-> RetargetCommands, length |-> 5],
   [commands |-> MixedCommands, length |-> 4],
   [commands |-> ReadBackCommands, length |-> 5],
   [commands |-> LoadedPointerCommands, length |-> 6]}
=============================================================================
