----------------------------- MODULE FrameSafety -----------------------------
(***************************************************************************)
(* A function that validateBlock accepted, run on the code that            *)
(* generateFunctionBody emits for it (src/src/codegen_instructions.cpp).   *)
(* Every local and every argument has a slot in the frame; the slots of    *)
(* the locals start out zero.  Between two commands the program may jump   *)
(* anywhere, which is what labels and cjmp on a value from outside allow.  *)
(*                                                                         *)
(* Memory contents are told apart by where they point:                     *)
(*    Null        zero                                                     *)
(*    External    memory that outlives the frame, or a plain number        *)
(*    Immutable   the backing of a string or of a constant global array    *)
(*    a register  the frame slot of that register                          *)
(*                                                                         *)
(* slot     what each register's slot holds                                *)
(* outside  what memory outliving the frame may hold: what the caller, a   *)
(*          callee, a global or the returned value got from this call      *)
(* control  "idle" before the call, "running", "trapped" after llvm.trap   *)
(*          or a write fault, "returned"                                   *)
(* pc       the command to run next                                        *)
(***************************************************************************)
EXTENDS EscapeAnalysis

CONSTANTS Null, External, Immutable

ASSUME ValueAssumption ==
  /\ Null \notin Reg /\ External \notin Reg /\ Immutable \notin Reg
  /\ Null # External /\ Null # Immutable /\ External # Immutable

VARIABLES slot, outside, control, pc

runtime == <<slot, outside, control, pc>>
frameVars == <<vars, runtime>>

Values == Reg \cup {Null, External, Immutable}

FrameTypeOK ==
  /\ TypeOK
  /\ slot \in [Reg -> Values]
  /\ outside \subseteq Values
  /\ control \in {"idle", "running", "trapped", "returned"}
  /\ pc \in DOMAIN program

FrameInit ==
  /\ Init
  /\ slot = [r \in Reg |-> IF r \in Params THEN External ELSE Null]
  /\ outside = {Null, External}
  /\ control = "idle"
  /\ pc = 1

-----------------------------------------------------------------------------
Analyse == Next /\ UNCHANGED runtime

Enter ==
  /\ phase = "accepted"
  /\ control = "idle"
  /\ control' = "running"
  /\ UNCHANGED <<vars, slot, outside, pc>>

At(ops) ==
  /\ control = "running"
  /\ program[pc].op \in ops

\* Slip: the end of the body has no terminator.
JumpPastEnd == pc' \in 1 .. Len(program) + 1

\* The label the program jumps to after this command.
JumpAnywhere == pc' \in DOMAIN program

\* trapIfNullPointer, and the fault of a write to read-only memory.
Trap == control' = "trapped" /\ UNCHANGED <<vars, slot, outside, pc>>

Assign(r, v) ==
  /\ slot' = [slot EXCEPT ![r] = v]
  /\ JumpAnywhere
  /\ UNCHANGED <<vars, outside, control>>

\* ref: the address of the register's slot.
RunRef == At({"ref"}) /\ Assign(program[pc].dst, program[pc].src)

\* Copies and representation-preserving casts.
RunCopy ==
  At({"copy", "cast"}) /\ Assign(program[pc].dst, slot[program[pc].src])

RunLiteral == At({"literal"}) /\ Assign(program[pc].dst, Immutable)

\* load and p[0]: from a slot of the frame, or from memory outside it.
RunRead ==
  /\ At(ReadThroughOps)
  /\ LET c == program[pc]
         address == slot[c.src]
     IN  \/ address = Null /\ Trap
         \/ address \in Reg /\ Assign(c.dst, slot[address])
         \/ /\ address = External
            /\ \E v \in outside : Assign(c.dst, v)
         \/ address = Immutable /\ Assign(c.dst, External)

\* store and p[0] = v.
RunWrite ==
  /\ At(WriteThroughOps)
  /\ LET c == program[pc]
         address == slot[c.dst]
     IN  \/ address \in {Null, Immutable} /\ Trap
         \/ address \in Reg /\ Assign(address, slot[c.src])
         \/ /\ address = External
            /\ outside' = outside \cup {slot[c.src]}
            /\ JumpAnywhere
            /\ UNCHANGED <<vars, slot, control>>

\* A call's callee and a global keep what they are given.
RunPublish ==
  /\ At({"call", "global"})
  /\ outside' = outside \cup {slot[program[pc].src]}
  /\ JumpAnywhere
  /\ UNCHANGED <<vars, slot, control>>

RunRet ==
  /\ At({"ret"})
  /\ outside' = outside \cup {slot[program[pc].src]}
  /\ control' = "returned"
  /\ UNCHANGED <<vars, slot, pc>>

\* A jump to a return that returns no address.
RunLeave ==
  /\ control = "running"
  /\ control' = "returned"
  /\ UNCHANGED <<vars, slot, outside, pc>>

Run == RunRef \/ RunCopy \/ RunLiteral \/ RunRead \/ RunWrite \/ RunPublish
         \/ RunRet \/ RunLeave

FrameNext == Analyse \/ Enter \/ Run

FrameSpec == FrameInit /\ [][FrameNext]_frameVars

-----------------------------------------------------------------------------
(* What the analysis is for.                                               *)

(***************************************************************************)
(* No address of a slot of this frame is ever in memory that outlives the  *)
(* frame ("cannot return a pointer or address derived from local storage", *)
(* "cannot store ... in memory", "... in a global", "cannot pass ...";     *)
(* validation.cpp:1507 and 1396-1402 want a destination "proven local").   *)
(***************************************************************************)
NoEscape == outside \cap Reg = {}

(***************************************************************************)
(* No command is about to write to the backing of a string literal or of a *)
(* constant global array ("cannot modify immutable global array or string  *)
(* storage").                                                              *)
(***************************************************************************)
NoImmutableWrite ==
  At(WriteThroughOps) => slot[program[pc].dst] # Immutable

-----------------------------------------------------------------------------
(* The programs for which the analysis is exact enough.                    *)

\* Registers the analysis takes for frame addresses, and that are read
\* through, or written through with what may be an address.
DereferencedLocals ==
  {p \in lsa :
     \E i \in DOMAIN program :
       LET c == program[i] IN
       \/ c.op \in ReadThroughOps /\ c.src = p
       \/ c.op \in WriteThroughOps /\ c.dst = p /\ c.src \in lsa \cup imm}

\* Every register of G only ever holds the address of the one slot recorded
\* in lr, is written in no other way than by ref, copies and casts, and
\* never has its own address taken.
Tracked(G) ==
  /\ G \cap Params = {}
  /\ \A g \in G :
       /\ lr[g] # NoSlot
       /\ \A i \in DOMAIN program :
            LET c == program[i] IN
            /\ c.op = "ref" => c.src # g
            /\ c.op \in TargetOps /\ c.dst = g =>
                 \/ c.op = "ref" /\ c.src = lr[g]
                 \/ c.op \in {"copy", "cast"} /\ c.src \in G /\ lr[c.src] = lr[g]

\* No frame pointer through which addresses travel is retargeted to a second
\* slot, mixed with an external pointer, or itself loaded from memory.
OneSlotPerPointer == \E G \in SUBSET Reg : Tracked(G) /\ DereferencedLocals \subseteq G

\* p[0] = v is not used to put a frame address, or an integer made from an
\* immutable address, into a slot; p[0] is not used to read integers back.
NoIndexedAddresses ==
  \A i \in DOMAIN program :
    LET c == program[i] IN
    /\ c.op = "indexstore" => c.src \notin lsa
    /\ c.op = "indexstore" /\ c.src \in imm => Level[c.dst] > 1
    /\ c.op = "indexload" /\ c.src \in lsa => Level[c.src] > 1

\* Immutable addresses are not handed to memory outside the frame.
ImmutableStaysInFrame ==
  \A i \in DOMAIN program :
    LET c == program[i] IN
    /\ c.op \in {"call", "global"} => c.src \notin imm
    /\ c.op = "store" /\ c.src \in imm => c.dst \in lsa

AvoidsGaps == OneSlotPerPointer /\ NoIndexedAddresses

(***************************************************************************)
(* Soundness of the escape analysis, for functions that stay clear of its  *)
(* gaps: whatever path an accepted function takes, no address of its frame *)
(* outlives it.                                                            *)
(***************************************************************************)
EscapeSound == control # "idle" /\ AvoidsGaps => NoEscape

(***************************************************************************)
(* Soundness of the immutable-provenance analysis, for functions that also *)
(* keep immutable addresses in the frame.                                  *)
(***************************************************************************)
ImmutableSound ==
  control # "idle" /\ AvoidsGaps /\ ImmutableStaysInFrame => NoImmutableWrite
=============================================================================
