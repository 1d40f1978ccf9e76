---------------------------- MODULE PsiCommands ----------------------------
(***************************************************************************)
(* The commands of one PSI function body, as src/src/validation.cpp sees   *)
(* them.  Types are reduced to their pointer level (0 is an address-width  *)
(* integer), because that is all the pointer analyses look at.  Only       *)
(* well-typed commands are members of Commands: the type rules are checked *)
(* elsewhere in validateBlock and are not the subject here.                *)
(*                                                                         *)
(* A register is "predeclared" when it is an argument of the function or   *)
(* is declared without a value before the first command.  Every other      *)
(* register is declared by the command that targets it.                    *)
(*                                                                         *)
(*    op            PSI text             dst        src                    *)
(*    "ref"         T* d = ref s         target     referenced register    *)
(*    "copy"        T d = s              target     source                 *)
(*    "cast"        T d = #ptrcast s     target     source                 *)
(*                  (or #ptrtoint, #inttoptr)                              *)
(*    "literal"     T* d = "..."         target     -                      *)
(*    "load"        T d = load p         target     pointer                *)
(*    "store"       store p v            pointer    stored value           *)
(*    "indexload"   T d = p[0]           target     indexed pointer        *)
(*    "indexstore"  p[0] = v             pointer    stored value           *)
(*    "call"        call f v             -          argument               *)
(*    "global"      g = v                -          assigned value         *)
(*    "ret"         ret v                -          returned value         *)
(***************************************************************************)
EXTENDS Naturals, Sequences

CONSTANTS
  Reg,          \* the registers (locals and arguments) of the function
  Params,       \* those that are arguments
  Predeclared,  \* those every command can see
  Level,        \* the pointer level of each register's type
  Fragments,    \* [commands, length]: the commands a program is made of, and
                \* how many it may have
  NoReg         \* the absent operand

Commands == UNION {f.commands : f \in Fragments}

Ops == {"ref", "copy", "cast", "literal", "load", "store",
        "indexload", "indexstore", "call", "global", "ret"}

Command == [op : Ops, dst : Reg \cup {NoReg}, src : Reg \cup {NoReg}]

\* Commands whose target is a register without accessors.
TargetOps == {"ref", "copy", "cast", "literal", "load", "indexload"}

\* Commands that write, or that read, through a pointer register.
WriteThroughOps == {"store", "indexstore"}
ReadThroughOps  == {"load", "indexload"}

PublishOps == {"call", "global", "ret"}

\* What parseCommand and the type rules of validateBlock leave possible.
WellTyped(c) ==
  /\ c \in Command
  /\ c.op \in TargetOps \cup WriteThroughOps <=> c.dst # NoReg
  /\ c.op # "literal" <=> c.src # NoReg
  /\ c.op = "ref" => Level[c.dst] = Level[c.src] + 1
  /\ c.op = "copy" => Level[c.dst] = Level[c.src]
  /\ c.op = "cast" => Level[c.dst] + Level[c.src] > 0
  /\ c.op = "literal" => Level[c.dst] > 0
  /\ c.op \in ReadThroughOps => Level[c.src] = Level[c.dst] + 1
  /\ c.op \in {"load", "cast"} => c.dst \notin Predeclared
  /\ c.op \in WriteThroughOps => Level[c.dst] = Level[c.src] + 1

ASSUME RegAssumption ==
  /\ NoReg \notin Reg
  /\ Params \subseteq Predeclared
  /\ Predeclared \subseteq Reg
  /\ Level \in [Reg -> Nat]

ASSUME CommandAssumption == \A c \in Commands : WellTyped(c)

ASSUME LengthAssumption == \A f \in Fragments : f.length \in Nat

Programs == UNION {UNION {[1 .. n -> f.commands] : n \in 1 .. f.length} : f \in Fragments}

Declares(c) == c.op \in TargetOps /\ c.dst \notin Predeclared

\* visibleLocals[i]: what the i-th command of program P can name.
Visible(P, i) ==
  Predeclared \cup {P[j].dst : j \in {k \in DOMAIN P : k < i /\ Declares(P[k])}}
=============================================================================
