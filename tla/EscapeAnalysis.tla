--------------------------- MODULE EscapeAnalysis ---------------------------
(***************************************************************************)
(* validateBlock of src/src/validation.cpp, for functions whose locals are *)
(* integers and pointers: the closure loop (lines 750-944) that decides    *)
(* which registers may hold an address of the frame or of immutable global *)
(* storage, and the checks (lines 946-1548) that use its result.           *)
(*                                                                         *)
(* phase   "closure"   the do-while loop is running                        *)
(*         "check"     the loop over the commands that throws on an error  *)
(*         "accepted"  validateBlock returned                              *)
(*         "rejected"  a require() threw                                   *)
(* index   the command the current loop is about to visit                  *)
(* added   addedLocalAlias                                                 *)
(* lsa     localStorageAliases: may hold an address of a local's slot      *)
(* lac     localAggregateContents: memory it names may hold such addresses *)
(* lr      localReferences: the one slot a register is known to refer to   *)
(* imm     immutableAliases: may hold an address of immutable storage      *)
(***************************************************************************)
EXTENDS PsiCommands

CONSTANT NoSlot   \* "not in localReferences"

ASSUME SlotAssumption == NoSlot \notin Reg

VARIABLES program, phase, index, added, lsa, lac, lr, imm

results == <<lsa, lac, lr, imm>>
vars == <<program, phase, index, added, lsa, lac, lr, imm>>

Phases == {"closure", "check", "accepted", "rejected"}

TypeOK ==
  /\ program \in Programs
  /\ phase \in Phases
  /\ index \in 1 .. Len(program) + 1
  /\ added \in BOOLEAN
  /\ lsa \subseteq Reg
  /\ lac \subseteq Reg
  /\ imm \subseteq Reg
  /\ lr \in [Reg -> Reg \cup {NoSlot}]

Init ==
  /\ program \in Programs
  /\ phase = "closure"
  /\ index = 1
  /\ added = FALSE
  /\ lsa = {}
  /\ lac = {}
  /\ imm = {}
  /\ lr = [r \in Reg |-> NoSlot]

-----------------------------------------------------------------------------
(* The questions the analysis asks of an operand or of a command.          *)

\* A plain register operand r of command i may hold a local address.
MayPointLocal(r, i) == r \in Visible(program, i) /\ r \in lsa

\* A register operand names, or is tainted by, immutable storage.
MayNameImmutable(r) == r \in imm

\* The value of p[0]: only pointers, and integers out of memory that is
\* known to hold addresses, count.
IndexedMayPointLocal(p, i) ==
  /\ MayPointLocal(p, i)
  /\ Level[p] > 1 \/ p \in lac

\* What a load through p may bring back, for a result of level n.
LoadMayPointLocal(p, n, i) ==
  \/ n > 0 /\ MayPointLocal(p, i)
  \/ lr[p] # NoSlot /\ lr[p] \in lsa

CommandMayPointLocal(c, i) ==
  CASE c.op = "ref"       -> c.src \in Visible(program, i)
    [] c.op = "load"      -> LoadMayPointLocal(c.src, Level[c.dst], i)
    [] c.op = "indexload" -> IndexedMayPointLocal(c.src, i)
    [] c.op = "literal"   -> FALSE
    [] OTHER              -> MayPointLocal(c.src, i)

CommandMayNameImmutable(c) ==
  \/ c.op = "literal"
  \/ c.op \in {"ref", "copy", "cast", "indexload"} /\ MayNameImmutable(c.src)

\* p[0] is in the frame as far as the analysis can tell.
AccessorTargetIsLocal(p, i) == MayPointLocal(p, i)

-----------------------------------------------------------------------------
(* What one visit of the closure loop to command c, at position i, inserts. *)

\* A store through a register whose slot is known reaches that slot.
StoresIntoSlot(c) == c.op = "store" /\ c.dst \in lsa /\ lr[c.dst] # NoSlot

\* Slip: the rule that a store reaches the slot its pointer refers to is lost.
LocalAddedWithoutStores(c, i) ==
  {r \in Reg :
     \/ /\ c.op = "indexstore" /\ r = c.dst
        /\ AccessorTargetIsLocal(c.dst, i) /\ MayPointLocal(c.src, i)
     \/ c.op \in TargetOps /\ r = c.dst /\ CommandMayPointLocal(c, i)}

LocalAdded(c, i) ==
  {r \in Reg :
     \/ StoresIntoSlot(c) /\ r = lr[c.dst] /\ MayPointLocal(c.src, i)
     \/ /\ c.op = "indexstore" /\ r = c.dst
        /\ AccessorTargetIsLocal(c.dst, i) /\ MayPointLocal(c.src, i)
     \/ c.op \in TargetOps /\ r = c.dst /\ CommandMayPointLocal(c, i)}

ContentsAdded(c, i) ==
  {r \in Reg :
     \/ /\ c.op = "indexstore" /\ r = c.dst
        /\ AccessorTargetIsLocal(c.dst, i) /\ MayPointLocal(c.src, i)
     \/ c.op \in TargetOps /\ r = c.dst /\ c.src \in lac}

\* Slip: a load ignores what was stored into the slot it reads.
ImmutableAddedWithoutLoads(c, i) ==
  {r \in Reg :
     \/ StoresIntoSlot(c) /\ r = lr[c.dst] /\ MayNameImmutable(c.src)
     \/ /\ c.op = "indexstore" /\ r = c.dst
        /\ c.dst \in Visible(program, i) /\ Level[c.dst] > 1
        /\ MayNameImmutable(c.src)
     \/ c.op \in TargetOps /\ r = c.dst /\ CommandMayNameImmutable(c)}

\* Slip: the closure leaves the targets of commands to the checking loop.
ImmutableAddedWithoutTargets(c, i) ==
  {r \in Reg :
     \/ StoresIntoSlot(c) /\ r = lr[c.dst] /\ MayNameImmutable(c.src)
     \/ /\ c.op = "load" /\ r = c.dst
        /\ lr[c.src] # NoSlot /\ lr[c.src] \in imm
     \/ /\ c.op = "indexstore" /\ r = c.dst
        /\ c.dst \in Visible(program, i) /\ Level[c.dst] > 1
        /\ MayNameImmutable(c.src)}

ImmutableAdded(c, i) ==
  {r \in Reg :
     \/ StoresIntoSlot(c) /\ r = lr[c.dst] /\ MayNameImmutable(c.src)
     \/ /\ c.op = "load" /\ r = c.dst
        /\ lr[c.src] # NoSlot /\ lr[c.src] \in imm
     \/ /\ c.op = "indexstore" /\ r = c.dst
        /\ c.dst \in Visible(program, i) /\ Level[c.dst] > 1
        /\ MayNameImmutable(c.src)
     \/ c.op \in TargetOps /\ r = c.dst /\ CommandMayNameImmutable(c)}

\* Slip: a command without a source is taken for a copy.
ReferenceFoundOfAny(c, i) ==
  CASE c.op = "ref" /\ c.src \in Visible(program, i) -> c.src
    [] c.op \in {"copy", "cast"}                     -> lr[c.src]
    [] OTHER                                         -> c.src

\* The slot that visiting c would record for its target.
ReferenceFound(c, i) ==
  CASE c.op = "ref" /\ c.src \in Visible(program, i) -> c.src
    [] c.op \in {"copy", "cast"}                     -> lr[c.src]
    [] OTHER                                         -> NoSlot

\* emplace: the first slot recorded for a register stays.
ReferencesAfter(c, i) ==
  [r \in Reg |-> IF c.op \in TargetOps /\ r = c.dst /\ lr[r] = NoSlot
                 THEN ReferenceFound(c, i)
                 ELSE lr[r]]

-----------------------------------------------------------------------------
(* The closure loop.                                                       *)

\* Slips: one insert does not set the flag; one sets it every time.
GrewWithoutReferences == lsa' # lsa \/ lac' # lac \/ imm' # imm
GrewWhenInserting ==
  \/ LocalAdded(program[index], index) # {}
  \/ lsa' # lsa \/ lac' # lac \/ imm' # imm \/ lr' # lr

\* Every insert in the loop reports whether it was new.
Grew == lsa' # lsa \/ lac' # lac \/ imm' # imm \/ lr' # lr

Visit ==
  /\ phase = "closure"
  /\ index <= Len(program)
  /\ LET c == program[index] IN
       /\ lsa' = lsa \cup LocalAdded(c, index)
       /\ lac' = lac \cup ContentsAdded(c, index)
       /\ imm' = imm \cup ImmutableAdded(c, index)
       /\ lr' = ReferencesAfter(c, index)
  /\ added' = (added \/ Grew)
  /\ index' = index + 1
  /\ UNCHANGED <<program, phase>>

\* while (addedLocalAlias)
AnotherPass ==
  /\ phase = "closure"
  /\ index > Len(program)
  /\ added
  /\ index' = 1
  /\ added' = FALSE
  /\ UNCHANGED <<program, phase, results>>

CloseLoop ==
  /\ phase = "closure"
  /\ index > Len(program)
  /\ ~added
  /\ phase' = "check"
  /\ index' = 1
  /\ UNCHANGED <<program, added, results>>

-----------------------------------------------------------------------------
(* The checking loop.                                                      *)

\* Use before declaration, or a second declaration of the same local.
ScopeError(c, i) ==
  \/ c.src # NoReg /\ c.src \notin Visible(program, i)
  \/ c.op \in WriteThroughOps /\ c.dst \notin Visible(program, i)
  \/ Declares(c) /\ c.dst \in Visible(program, i)

\* "cannot modify immutable global array or string storage"
ImmutableError(c) == c.op \in WriteThroughOps /\ MayNameImmutable(c.dst)

\* "cannot return / store / pass / copy a pointer or address derived from
\* local storage"
EscapeError(c, i) ==
  \/ c.op \in PublishOps /\ MayPointLocal(c.src, i)
  \/ /\ c.op = "store" /\ MayPointLocal(c.src, i)
     /\ ~MayPointLocal(c.dst, i)
  \/ /\ c.op = "indexstore" /\ MayPointLocal(c.src, i)
     /\ ~AccessorTargetIsLocal(c.dst, i)

Rejects(c, i) == ScopeError(c, i) \/ ImmutableError(c) \/ EscapeError(c, i)

CheckCommand ==
  /\ phase = "check"
  /\ index <= Len(program)
  /\ ~Rejects(program[index], index)
  /\ LET c == program[index] IN
       imm' = IF c.op \in TargetOps /\ CommandMayNameImmutable(c)
              THEN imm \cup {c.dst} ELSE imm
  /\ index' = index + 1
  /\ UNCHANGED <<program, phase, added, lsa, lac, lr>>

Reject ==
  /\ phase = "check"
  /\ index <= Len(program)
  /\ Rejects(program[index], index)
  /\ phase' = "rejected"
  /\ UNCHANGED <<program, index, added, results>>

Accept ==
  /\ phase = "check"
  /\ index > Len(program)
  /\ phase' = "accepted"
  /\ UNCHANGED <<program, index, added, results>>

Next == Visit \/ AnotherPass \/ CloseLoop \/ CheckCommand \/ Reject \/ Accept

Spec == Init /\ [][Next]_vars

\* validateBlock runs on the caller's thread and never waits.
FairSpec == Spec /\ WF_vars(Next)

-----------------------------------------------------------------------------
(* Properties.                                                             *)

\* Visiting c again would insert nothing.
Closed(c, i) ==
  /\ LocalAdded(c, i) \subseteq lsa
  /\ ContentsAdded(c, i) \subseteq lac
  /\ ImmutableAdded(c, i) \subseteq imm
  /\ ReferencesAfter(c, i) = lr

(***************************************************************************)
(* When the checks start, the alias sets are closed under every command of *)
(* the function, so the order in which commands stand or jump does not     *)
(* matter to them (validation.cpp:750 "a conservative function-wide        *)
(* closure").  It fails if an insert forgets to set addedLocalAlias.       *)
(***************************************************************************)
ClosureComplete ==
  phase # "closure" => \A i \in DOMAIN program : Closed(program[i], i)

(***************************************************************************)
(* The checking loop repeats one rule of the closure for immutable aliases *)
(* (lines 1537-1545).  What it would add is already there, so a command    *)
(* checked early is judged by the same sets as one checked late.           *)
(***************************************************************************)
ChecksUseOneResult == [][phase = "check" => UNCHANGED results]_vars

(***************************************************************************)
(* The do-while loop stops on every function: each further pass needs a    *)
(* register that was in none of the sets before.                           *)
(***************************************************************************)
ValidationEnds == <>(phase \in {"accepted", "rejected"})
=============================================================================
