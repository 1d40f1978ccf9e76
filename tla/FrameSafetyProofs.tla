-------------------------- MODULE FrameSafetyProofs --------------------------
(***************************************************************************)
(* Theorems about the validator's analysis (EscapeAnalysis), and that it   *)
(* is sound for every function that stays clear of the gaps FrameSafety    *)
(* names, along every path the function can take; for every set of         *)
(* registers and commands and every program length.                        *)
(*                                                                         *)
(* The argument: the closure makes localStorageAliases contain every       *)
(* register whose slot holds a frame address, because a dereferenced frame *)
(* pointer of a tracked set G can only hold the address of the one slot    *)
(* that localReferences names for it.                                      *)
(***************************************************************************)
EXTENDS FrameSafety, TLAPS

-----------------------------------------------------------------------------
(* The analysis.                                                           *)

\* A program is a sequence of well-typed commands.
LEMMA ProgramShape ==
  ASSUME NEW P \in Programs
  PROVE  /\ P \in Seq(Commands)
         /\ Len(P) \in Nat
         /\ DOMAIN P = 1 .. Len(P)
         /\ \A i \in DOMAIN P : P[i] \in Commands /\ WellTyped(P[i])
<1>0. PICK f \in Fragments : P \in UNION {[1 .. n -> f.commands] : n \in 1 .. f.length}
  BY DEF Programs
<1>1. PICK n \in 1 .. f.length : P \in [1 .. n -> f.commands]
  BY <1>0
<1>2. f.commands \subseteq Commands
  BY DEF Commands
<1>3. n \in Nat /\ P \in Seq(Commands) /\ Len(P) = n
  BY <1>1, <1>2, LengthAssumption
<1>4. QED
  BY <1>1, <1>2, <1>3, CommandAssumption

\* What one visit inserts are registers.
LEMMA InsertsAreRegisters ==
  ASSUME NEW c \in Commands, NEW i \in Nat, TypeOK
  PROVE  /\ LocalAdded(c, i) \subseteq Reg
         /\ ContentsAdded(c, i) \subseteq Reg
         /\ ImmutableAdded(c, i) \subseteq Reg
         /\ ReferencesAfter(c, i) \in [Reg -> Reg \cup {NoSlot}]
<1>1. WellTyped(c)
  BY CommandAssumption
<1>2. ReferenceFound(c, i) \in Reg \cup {NoSlot} \/ c.op \notin TargetOps \/ c.op \in {"literal"}
  BY <1>1 DEF ReferenceFound, WellTyped, Command, TypeOK, TargetOps
<1>3. c.op = "literal" => ReferenceFound(c, i) = NoSlot
  BY DEF ReferenceFound
<1>4. ReferencesAfter(c, i) \in [Reg -> Reg \cup {NoSlot}]
  BY <1>2, <1>3 DEF ReferencesAfter, TypeOK
<1>5. QED
  BY <1>4 DEF LocalAdded, ContentsAdded, ImmutableAdded

LEMMA TypeInit ==
  ASSUME Init
  PROVE  TypeOK
<1>1. Len(program) \in Nat
  BY ProgramShape DEF Init
<1>2. added \in BOOLEAN
  BY DEF Init
<1>3. QED
  BY <1>1, <1>2 DEF Init, TypeOK, Phases

LEMMA TypeStep ==
  ASSUME TypeOK, [Next]_vars
  PROVE  TypeOK'
<1>0. /\ Len(program) \in Nat
      /\ DOMAIN program = 1 .. Len(program)
      /\ \A i \in DOMAIN program : program[i] \in Commands /\ WellTyped(program[i])
  BY ProgramShape DEF TypeOK
<1>1. CASE Visit
  <2>1. index \in DOMAIN program /\ index \in Nat /\ program[index] \in Commands
    BY <1>0, <1>1 DEF Visit, TypeOK
  <2>2. /\ LocalAdded(program[index], index) \subseteq Reg
        /\ ContentsAdded(program[index], index) \subseteq Reg
        /\ ImmutableAdded(program[index], index) \subseteq Reg
        /\ ReferencesAfter(program[index], index) \in [Reg -> Reg \cup {NoSlot}]
    BY <2>1, InsertsAreRegisters
  <2>3. lsa' \subseteq Reg /\ lac' \subseteq Reg /\ imm' \subseteq Reg
        /\ lr' \in [Reg -> Reg \cup {NoSlot}]
    BY <1>1, <2>2 DEF Visit, TypeOK
  <2>4. added' \in BOOLEAN
    BY <1>1 DEF Visit, Grew, TypeOK
  <2>5. QED
    BY <1>0, <1>1, <2>3, <2>4 DEF Visit, TypeOK
<1>2. CASE CheckCommand
  <2>1. program[index] \in Command /\ (program[index].op \in TargetOps => program[index].dst \in Reg)
    BY <1>0, <1>2 DEF CheckCommand, TypeOK, WellTyped, Command, TargetOps
  <2>2. imm' \subseteq Reg
    BY <1>2, <2>1 DEF CheckCommand, TypeOK
  <2>3. QED
    BY <1>0, <1>2, <2>2 DEF CheckCommand, TypeOK
<1>3. CASE AnotherPass
  <2>1. added' \in BOOLEAN
    BY <1>3 DEF AnotherPass
  <2>2. QED
    BY <1>0, <1>3, <2>1 DEF AnotherPass, TypeOK, results
<1>4. CASE CloseLoop
  BY <1>0, <1>4 DEF CloseLoop, TypeOK, results, Phases
<1>5. CASE Reject
  BY <1>5 DEF Reject, TypeOK, results, Phases
<1>6. CASE Accept
  BY <1>6 DEF Accept, TypeOK, results, Phases
<1>7. CASE UNCHANGED vars
  BY <1>7 DEF vars, TypeOK
<1>8. QED
  BY <1>1, <1>2, <1>3, <1>4, <1>5, <1>6, <1>7 DEF Next

(***************************************************************************)
(* The variables of the analysis keep their types.                         *)
(***************************************************************************)
THEOREM TypeCorrect == Spec => []TypeOK
<1>1. Init => TypeOK
  BY TypeInit
<1>2. TypeOK /\ [Next]_vars => TypeOK'
  BY TypeStep
<1>3. QED
  BY <1>1, <1>2, PTL DEF Spec

-----------------------------------------------------------------------------
\* While a pass has inserted nothing, every command it has visited is closed;
\* after the loop all of them are.
PassInv ==
  /\ phase = "closure" /\ ~added =>
       \A j \in DOMAIN program : j < index => Closed(program[j], j)
  /\ phase # "closure" => \A j \in DOMAIN program : Closed(program[j], j)

\* The commands the checking loop is past were not rejected.
CheckInv ==
  /\ phase = "check" =>
       \A j \in DOMAIN program : j < index => ~Rejects(program[j], j)
  /\ phase = "accepted" => \A j \in DOMAIN program : ~Rejects(program[j], j)

AnalysisInv == TypeOK /\ PassInv /\ CheckInv

\* Closed and Rejects depend on the program and the results alone.
LEMMA ResultsDecide ==
  ASSUME UNCHANGED <<program, results>>
  PROVE  \A j : /\ Closed(program[j], j)' <=> Closed(program[j], j)
                /\ Rejects(program[j], j)' <=> Rejects(program[j], j)
BY DEF results, Closed, Rejects, ScopeError, ImmutableError, EscapeError,
       LocalAdded, ContentsAdded, ImmutableAdded, ReferencesAfter,
       ReferenceFound, StoresIntoSlot, CommandMayPointLocal,
       CommandMayNameImmutable, AccessorTargetIsLocal, LoadMayPointLocal,
       IndexedMayPointLocal, MayPointLocal, MayNameImmutable

\* The rule the checking loop repeats is one of the closure's.
LEMMA CheckInsertsNothing ==
  ASSUME AnalysisInv, CheckCommand
  PROVE  UNCHANGED results
<1>1. index \in DOMAIN program /\ WellTyped(program[index])
  BY ProgramShape DEF AnalysisInv, TypeOK, CheckCommand
<1>2. Closed(program[index], index)
  BY <1>1 DEF AnalysisInv, PassInv, CheckCommand
<1>3. ASSUME program[index].op \in TargetOps,
             CommandMayNameImmutable(program[index])
      PROVE  program[index].dst \in imm
  <2>1. program[index].dst \in Reg
    BY <1>1, <1>3 DEF WellTyped, Command, TargetOps
  <2>2. program[index].dst \in ImmutableAdded(program[index], index)
    BY <1>3, <2>1 DEF ImmutableAdded
  <2>3. QED
    BY <1>2, <2>2 DEF Closed
<1>4. imm' = imm
  BY <1>3 DEF CheckCommand
<1>5. QED
  BY <1>4 DEF CheckCommand, results

LEMMA AnalysisInvInit == Init => AnalysisInv
<1> SUFFICES ASSUME Init PROVE AnalysisInv
  OBVIOUS
<1>1. TypeOK
  BY TypeInit
<1>2. DOMAIN program \subseteq Nat \ {0}
  BY ProgramShape DEF Init
<1>3. QED
  BY <1>1, <1>2 DEF Init, AnalysisInv, PassInv, CheckInv

LEMMA AnalysisInvStep ==
  ASSUME AnalysisInv, TypeOK', [Next]_vars
  PROVE  AnalysisInv'
<1>0. /\ Len(program) \in Nat
      /\ DOMAIN program = 1 .. Len(program)
      /\ index \in Nat
  BY ProgramShape DEF AnalysisInv, TypeOK
<1>1. CASE Visit
  <2>1. CheckInv'
    BY <1>1 DEF Visit, CheckInv
  <2>2. ASSUME ~added', NEW j \in DOMAIN program, j < index + 1
        PROVE  Closed(program[j], j)'
    <3>1. ~added /\ UNCHANGED <<program, results>>
      BY <1>1, <2>2 DEF Visit, Grew, results
    <3>2. Closed(program[j], j)
      <4>1. CASE j = index
        BY <1>1, <2>2, <3>1, <4>1 DEF Visit, Closed, results
      <4>2. CASE j < index
        BY <1>1, <3>1, <4>2 DEF Visit, AnalysisInv, PassInv
      <4>3. QED
        BY <1>0, <2>2, <4>1, <4>2
    <3>3. QED
      BY <3>1, <3>2, ResultsDecide
  <2>3. PassInv'
    BY <1>1, <2>2 DEF Visit, PassInv
  <2>4. QED
    BY <2>1, <2>3 DEF AnalysisInv
<1>2. CASE AnotherPass
  BY <1>0, <1>2 DEF AnotherPass, AnalysisInv, PassInv, CheckInv
<1>3. CASE CloseLoop
  <2>1. UNCHANGED <<program, results>>
    BY <1>3 DEF CloseLoop
  <2>2. \A j \in DOMAIN program : Closed(program[j], j)
    BY <1>0, <1>3 DEF CloseLoop, AnalysisInv, PassInv
  <2>3. \A j \in DOMAIN program : Closed(program[j], j)'
    BY <2>1, <2>2, ResultsDecide
  <2>4. PassInv'
    BY <1>3, <2>3 DEF CloseLoop, PassInv
  <2>5. CheckInv'
    BY <1>0, <1>3 DEF CloseLoop, CheckInv
  <2>6. QED
    BY <2>4, <2>5 DEF AnalysisInv
<1>4. CASE CheckCommand
  <2>1. UNCHANGED <<program, results>>
    BY <1>4, CheckInsertsNothing DEF CheckCommand
  <2>2. \A j \in DOMAIN program : Closed(program[j], j)'
    BY <1>4, <2>1, ResultsDecide DEF CheckCommand, AnalysisInv, PassInv
  <2>3. PassInv'
    BY <1>4, <2>2 DEF CheckCommand, PassInv
  <2>4. \A j \in DOMAIN program : j < index + 1 => ~Rejects(program[j], j)
    BY <1>0, <1>4 DEF CheckCommand, AnalysisInv, CheckInv
  <2>5. \A j \in DOMAIN program : j < index + 1 => ~Rejects(program[j], j)'
    BY <2>1, <2>4, ResultsDecide
  <2>6. CheckInv'
    BY <1>4, <2>5 DEF CheckCommand, CheckInv
  <2>7. QED
    BY <2>3, <2>6 DEF AnalysisInv
<1>5. CASE Reject \/ Accept
  <2>1. UNCHANGED <<program, index, results>> /\ phase = "check"
    BY <1>5 DEF Reject, Accept
  <2>2. \A j \in DOMAIN program : Closed(program[j], j)'
    BY <2>1, ResultsDecide DEF AnalysisInv, PassInv
  <2>3. PassInv'
    BY <1>5, <2>1, <2>2 DEF Reject, Accept, PassInv
  <2>4. CASE Reject
    BY <2>3, <2>4 DEF Reject, AnalysisInv, CheckInv
  <2>5. CASE Accept
    <3>1. \A j \in DOMAIN program : ~Rejects(program[j], j)
      BY <1>0, <2>5 DEF Accept, AnalysisInv, CheckInv
    <3>2. \A j \in DOMAIN program : ~Rejects(program[j], j)'
      BY <2>1, <3>1, ResultsDecide
    <3>3. QED
      BY <2>3, <2>5, <3>2 DEF Accept, AnalysisInv, CheckInv
  <2>6. QED
    BY <1>5, <2>4, <2>5
<1>6. CASE UNCHANGED vars
  <2>1. UNCHANGED <<program, index, phase, added, results>>
    BY <1>6 DEF vars, results
  <2>2. QED
    BY <2>1, ResultsDecide DEF AnalysisInv, PassInv, CheckInv
<1>7. QED
  BY <1>1, <1>2, <1>3, <1>4, <1>5, <1>6 DEF Next

THEOREM AnalysisInvariant == Spec => []AnalysisInv
<1>1. Init => AnalysisInv
  BY AnalysisInvInit
<1>2. AnalysisInv /\ TypeOK' /\ [Next]_vars => AnalysisInv'
  BY AnalysisInvStep
<1>3. QED
  BY <1>1, <1>2, TypeCorrect, PTL DEF Spec

(***************************************************************************)
(* When the checks run, the alias sets are closed under every command.     *)
(***************************************************************************)
THEOREM ClosureCompleteHolds == Spec => []ClosureComplete
<1>1. AnalysisInv => ClosureComplete
  BY DEF AnalysisInv, PassInv, ClosureComplete
<1>2. QED
  BY <1>1, AnalysisInvariant, PTL

(***************************************************************************)
(* The checking loop inserts nothing: every check reads the same sets.     *)
(***************************************************************************)
THEOREM OneResult == Spec => ChecksUseOneResult
<1>1. AnalysisInv /\ [Next]_vars => [phase = "check" => UNCHANGED results]_vars
  <2> SUFFICES ASSUME AnalysisInv, Next, phase = "check"
               PROVE  UNCHANGED results
    OBVIOUS
  <2>1. CASE CheckCommand
    BY <2>1, CheckInsertsNothing
  <2>2. CASE Reject \/ Accept
    BY <2>2 DEF Reject, Accept
  <2>3. QED
    BY <2>1, <2>2 DEF Next, Visit, AnotherPass, CloseLoop
<1>2. QED
  BY <1>1, AnalysisInvariant, PTL DEF Spec, ChecksUseOneResult

-----------------------------------------------------------------------------
(* The function that it accepted.                                          *)

LEMMA AnalyseKeeps ==
  ASSUME FrameTypeOK, Analyse
  PROVE  program' = program
BY DEF Analyse, Next, Visit, AnotherPass, CloseLoop, CheckCommand, Reject, Accept

\* The run only reads what the analysis left.
LEMMA RunKeepsAnalysis ==
  ASSUME Run \/ Enter
  PROVE  UNCHANGED vars
BY DEF Run, Enter, RunRef, RunCopy, RunLiteral, RunRead, RunWrite, RunPublish,
       RunRet, RunLeave, Assign, Trap

\* A command a running function is at, with its operands.
LEMMA CurrentCommand ==
  ASSUME FrameTypeOK
  PROVE  /\ pc \in DOMAIN program
         /\ WellTyped(program[pc])
         /\ program[pc].op \in TargetOps \cup WriteThroughOps => program[pc].dst \in Reg
         /\ program[pc].op # "literal" => program[pc].src \in Reg
<1>1. pc \in DOMAIN program /\ WellTyped(program[pc])
  BY ProgramShape DEF FrameTypeOK, TypeOK
<1>2. QED
  BY <1>1 DEF WellTyped, Command

(***************************************************************************)
(* The variables keep their types.                                         *)
(***************************************************************************)
THEOREM FrameTypeCorrect == FrameSpec => []FrameTypeOK
<1>1. FrameInit => FrameTypeOK
  <2> SUFFICES ASSUME FrameInit PROVE FrameTypeOK
    OBVIOUS
  <2>1. TypeOK
    BY TypeInit DEF FrameInit
  <2>2. 1 \in DOMAIN program
    <3>1. PICK f \in Fragments :
            program \in UNION {[1 .. n -> f.commands] : n \in 1 .. f.length}
      BY <2>1 DEF TypeOK, Programs
    <3>2. PICK n \in 1 .. f.length : program \in [1 .. n -> f.commands]
      BY <3>1
    <3>3. QED
      BY <3>2, LengthAssumption
  <2>3. QED
    BY <2>1, <2>2 DEF FrameInit, FrameTypeOK, Values
<1>2. FrameTypeOK /\ [FrameNext]_frameVars => FrameTypeOK'
  <2> SUFFICES ASSUME FrameTypeOK, [FrameNext]_frameVars PROVE FrameTypeOK'
    OBVIOUS
  <2>1. TypeOK'
    <3>1. [Next]_vars
      BY RunKeepsAnalysis DEF FrameNext, Analyse, frameVars
    <3>2. TypeOK
      BY DEF FrameTypeOK
    <3>3. QED
      BY <3>1, <3>2, TypeStep
  <2>2. program' = program
    BY AnalyseKeeps, RunKeepsAnalysis DEF FrameNext, frameVars, vars
  <2>3. ASSUME Analyse \/ UNCHANGED frameVars
        PROVE  UNCHANGED <<slot, outside, control, pc>>
    BY <2>3 DEF Analyse, frameVars, runtime
  <2>4. CASE Enter
    BY <2>1, <2>2, <2>4 DEF Enter, FrameTypeOK
  <2>5. CASE Run
    <3> DEFINE r == program[pc].dst
               v == program[pc].src
    <3>1. /\ program[pc].op \in TargetOps \cup WriteThroughOps => r \in Reg
          /\ program[pc].op # "literal" => v \in Reg
      BY CurrentCommand
    <3>2. ASSUME NEW d \in Reg, NEW u \in Values, Assign(d, u)
          PROVE  FrameTypeOK'
      BY <2>1, <2>2, <3>2 DEF Assign, JumpAnywhere, FrameTypeOK
    <3>3. ASSUME Trap PROVE FrameTypeOK'
      BY <2>1, <2>2, <3>3 DEF Trap, FrameTypeOK
    <3>4. ASSUME NEW u \in Reg, outside' = outside \cup {slot[u]},
                 UNCHANGED slot, pc' \in DOMAIN program,
                 control' \in {"running", "returned"}
          PROVE  FrameTypeOK'
      <4>1. slot[u] \in Values
        BY DEF FrameTypeOK
      <4>2. QED
        BY <2>1, <2>2, <3>4, <4>1 DEF FrameTypeOK
    <3>5. CASE RunRef \/ RunCopy \/ RunLiteral
      BY <3>1, <3>2, <3>5 DEF RunRef, RunCopy, RunLiteral, At, TargetOps, Values, FrameTypeOK
    <3>6. CASE RunRead
      <4>1. r \in Reg /\ v \in Reg
        BY <3>1, <3>6 DEF RunRead, At, ReadThroughOps, TargetOps
      <4>2. \A u \in outside : u \in Values
        BY DEF FrameTypeOK
      <4>3. \A u \in Reg : slot[u] \in Values
        BY DEF FrameTypeOK
      <4>4. QED
        BY <3>2, <3>3, <3>6, <4>1, <4>2, <4>3 DEF RunRead, Values
    <3>7. CASE RunWrite
      <4>1. r \in Reg /\ v \in Reg
        BY <3>1, <3>7 DEF RunWrite, At, WriteThroughOps
      <4>2. slot[v] \in Values
        BY <4>1 DEF FrameTypeOK
      <4>3. QED
        BY <3>2, <3>3, <3>4, <3>7, <4>1, <4>2 DEF RunWrite, At, JumpAnywhere
    <3>8. CASE RunPublish
      BY <3>1, <3>4, <3>8 DEF RunPublish, At, JumpAnywhere
    <3>9. CASE RunRet
      BY <3>1, <3>4, <3>9 DEF RunRet, At, FrameTypeOK
    <3>10. CASE RunLeave
      BY <2>1, <2>2, <3>10 DEF RunLeave, FrameTypeOK
    <3>11. QED
      BY <2>5, <3>5, <3>6, <3>7, <3>8, <3>9, <3>10 DEF Run
  <2>6. QED
    BY <2>1, <2>2, <2>3, <2>4, <2>5 DEF FrameNext, FrameTypeOK
<1>3. QED
  BY <1>1, <1>2, PTL DEF FrameSpec

-----------------------------------------------------------------------------
\* Before the call the frame is untouched.
IdleInv ==
  control = "idle" =>
    /\ slot = [r \in Reg |-> IF r \in Params THEN External ELSE Null]
    /\ outside = {Null, External}

\* Only accepted functions run.
RunsAccepted == control # "idle" => phase = "accepted"

\* G names a slot for every frame pointer the program dereferences.
Covers(G) ==
  /\ G \subseteq Reg
  /\ Tracked(G)
  /\ DereferencedLocals \subseteq G
  /\ NoIndexedAddresses

\* The sets of the analysis describe what the slots hold.
LocalsDescribed(G) ==
  /\ \A r \in Reg : slot[r] \in Reg => r \in lsa
  /\ \A g \in G : slot[g] \in {Null, lr[g]}
  /\ \A r \in Reg : slot[r] \notin G
  /\ outside \cap Reg = {}

ImmutablesDescribed(G) ==
  /\ \A r \in Reg : slot[r] = Immutable => r \in imm
  /\ \A g \in G : slot[g] \in Reg /\ lr[g] \in imm => g \in imm
  /\ control = "running" => Immutable \notin outside

SoundInv ==
  /\ FrameTypeOK
  /\ AnalysisInv
  /\ IdleInv
  /\ RunsAccepted
  /\ control # "idle" =>
       \A G \in SUBSET Reg :
         /\ Covers(G) => LocalsDescribed(G)
         /\ Covers(G) /\ ImmutableStaysInFrame => ImmutablesDescribed(G)

\* What acceptance says of the command about to run.
LEMMA AcceptedCommand ==
  ASSUME SoundInv, control = "running"
  PROVE  /\ Closed(program[pc], pc)
         /\ ~Rejects(program[pc], pc)
         /\ program[pc].src # NoReg => program[pc].src \in Visible(program, pc)
         /\ program[pc].op \in WriteThroughOps => program[pc].dst \in Visible(program, pc)
         /\ program[pc].op \in WriteThroughOps => program[pc].dst \notin imm
<1>1. phase = "accepted" /\ pc \in DOMAIN program
  BY CurrentCommand DEF SoundInv, RunsAccepted
<1>2. Closed(program[pc], pc) /\ ~Rejects(program[pc], pc)
  BY <1>1 DEF SoundInv, AnalysisInv, PassInv, CheckInv
<1>3. QED
  BY <1>2 DEF Rejects, ScopeError, ImmutableError, MayNameImmutable

\* A dereferenced register that holds a frame address holds that of its slot.
LEMMA DereferenceIsExact ==
  ASSUME SoundInv, control = "running",
         NEW G \in SUBSET Reg, Covers(G), LocalsDescribed(G),
         NEW u \in Reg, u \in lsa,
         \/ /\ program[pc].op \in WriteThroughOps /\ u = program[pc].dst
            /\ program[pc].src \in lsa \cup imm
         \/ program[pc].op \in ReadThroughOps /\ u = program[pc].src
  PROVE  u \in G /\ slot[u] \in {Null, lr[u]} /\ lr[u] \in Reg
<1>1. pc \in DOMAIN program
  BY CurrentCommand DEF SoundInv
<1>2. u \in DereferencedLocals
  BY <1>1 DEF DereferencedLocals
<1>3. u \in G
  BY <1>2 DEF Covers
<1>4. QED
  BY <1>3 DEF LocalsDescribed, Covers, Tracked, SoundInv, FrameTypeOK, TypeOK

\* A running function changes nothing the conditions of the theorems read.
LEMMA AnalysisDecides ==
  ASSUME UNCHANGED vars, NEW G
  PROVE  /\ Covers(G)' <=> Covers(G)
         /\ ImmutableStaysInFrame' <=> ImmutableStaysInFrame
BY DEF vars, Covers, Tracked, DereferencedLocals, NoIndexedAddresses,
       ImmutableStaysInFrame

\* Writing v to the slot of r keeps the frame described.
LEMMA LocalsAssign ==
  ASSUME FrameTypeOK, NEW G \in SUBSET Reg, LocalsDescribed(G),
         NEW r \in Reg, NEW v, Assign(r, v),
         v \in Reg => r \in lsa,
         v \notin G,
         r \in G => v \in {Null, lr[r]}
  PROVE  LocalsDescribed(G)'
BY DEF LocalsDescribed, Assign, FrameTypeOK, TypeOK, vars

\* A target of G is written by ref, copies and casts of its slot's address.
LEMMA TrackedTarget ==
  ASSUME SoundInv, NEW G \in SUBSET Reg, Covers(G),
         program[pc].op \in TargetOps, program[pc].dst \in G
  PROVE  \/ program[pc].op = "ref" /\ program[pc].src = lr[program[pc].dst]
         \/ /\ program[pc].op \in {"copy", "cast"}
            /\ program[pc].src \in G
            /\ lr[program[pc].src] = lr[program[pc].dst]
<1>1. pc \in DOMAIN program
  BY CurrentCommand DEF SoundInv
<1>2. QED
  BY <1>1 DEF Covers, Tracked

(***************************************************************************)
(* No step of a running function puts a frame address where the analysis   *)
(* does not expect one.                                                    *)
(***************************************************************************)
LEMMA LocalsStep ==
  ASSUME SoundInv, Run, NEW G \in SUBSET Reg, Covers(G), LocalsDescribed(G)
  PROVE  LocalsDescribed(G)'
<1> DEFINE d == program[pc].dst
           s == program[pc].src
<1>1. control = "running" /\ FrameTypeOK
  BY DEF SoundInv, Run, RunRef, RunCopy, RunLiteral, RunRead, RunWrite,
         RunPublish, RunRet, RunLeave, At
<1>2. /\ program[pc].op \in TargetOps \cup WriteThroughOps => d \in Reg
      /\ program[pc].op # "literal" => s \in Reg /\ s \in Visible(program, pc)
      /\ program[pc].op \in WriteThroughOps => d \in Visible(program, pc)
  BY <1>1, CurrentCommand, AcceptedCommand, RegAssumption
<1>3. LocalAdded(program[pc], pc) \subseteq lsa /\ ~Rejects(program[pc], pc)
  BY <1>1, AcceptedCommand DEF Closed
<1>4. \A r \in Reg : /\ slot[r] \in Reg => r \in lsa
                     /\ slot[r] \notin G
  BY DEF LocalsDescribed
<1>5. pc \in DOMAIN program
  BY <1>1 DEF FrameTypeOK
<1>6. ASSUME Trap \/ RunLeave
      PROVE  LocalsDescribed(G)'
  BY <1>6 DEF Trap, RunLeave, LocalsDescribed, vars
<1>7. ASSUME UNCHANGED <<vars, slot>>,
             outside' = outside \cup {slot[s]}, slot[s] \notin Reg
      PROVE  LocalsDescribed(G)'
  BY <1>7 DEF LocalsDescribed, vars
<1>8. CASE RunRef
  <2>1. program[pc].op = "ref" /\ program[pc].op \in TargetOps
    BY <1>8 DEF RunRef, At, TargetOps
  <2>2. d \in lsa
    BY <1>2, <1>3, <2>1 DEF LocalAdded, CommandMayPointLocal
  <2>3. d \in G => s = lr[d]
    BY <2>1, TrackedTarget
  <2>4. s \notin G
    BY <1>5, <2>1 DEF Covers, Tracked
  <2>5. QED
    BY <1>1, <1>2, <1>8, <2>1, <2>2, <2>3, <2>4, LocalsAssign DEF RunRef
<1>9. CASE RunCopy
  <2>1. program[pc].op \in {"copy", "cast"} /\ program[pc].op \in TargetOps
    BY <1>9 DEF RunCopy, At, TargetOps
  <2>2. s \in lsa => d \in lsa
    BY <1>2, <1>3, <2>1 DEF LocalAdded, CommandMayPointLocal, MayPointLocal
  <2>3. d \in G => s \in G /\ lr[s] = lr[d]
    BY <2>1, TrackedTarget
  <2>4. d \in G => slot[s] \in {Null, lr[d]}
    BY <2>3 DEF LocalsDescribed
  <2>5. slot[s] \in Reg => d \in lsa
    BY <1>2, <1>4, <2>1, <2>2
  <2>6. QED
    BY <1>1, <1>2, <1>4, <1>9, <2>1, <2>4, <2>5, LocalsAssign DEF RunCopy
<1>10. CASE RunLiteral
  <2>1. program[pc].op = "literal" /\ program[pc].op \in TargetOps
    BY <1>10 DEF RunLiteral, At, TargetOps
  <2>2. d \notin G
    BY <2>1, TrackedTarget
  <2>3. QED
    BY <1>1, <1>2, <1>10, <2>1, <2>2, LocalsAssign, ValueAssumption DEF RunLiteral
<1>11. CASE RunRead
  <2>1. program[pc].op \in ReadThroughOps /\ program[pc].op \in TargetOps
    BY <1>11 DEF RunRead, At, TargetOps, ReadThroughOps
  <2>2. d \notin G
    BY <2>1, TrackedTarget DEF ReadThroughOps
  <2>3. s \in Reg /\ d \in Reg /\ s \in Visible(program, pc)
    BY <1>2, <2>1 DEF ReadThroughOps
  <2>4. ASSUME slot[s] \in Reg, slot[slot[s]] \in Reg
        PROVE  d \in lsa
    <3>1. s \in lsa
      BY <1>4, <2>3, <2>4
    <3>2. slot[s] = lr[s] /\ lr[s] \in Reg /\ lr[s] # NoSlot
      BY <1>1, <2>1, <2>3, <2>4, <3>1, DereferenceIsExact, ValueAssumption, SlotAssumption
    <3>3. lr[s] \in lsa
      BY <1>4, <2>4, <3>2
    <3>4. CASE program[pc].op = "load"
      BY <1>3, <2>1, <2>3, <3>2, <3>3, <3>4
      DEF LocalAdded, CommandMayPointLocal, LoadMayPointLocal
    <3>5. CASE program[pc].op = "indexload"
      <4>1. Level[s] > 1
        BY <1>5, <3>1, <3>5 DEF Covers, NoIndexedAddresses
      <4>2. QED
        BY <1>3, <2>1, <2>3, <3>1, <3>5, <4>1
        DEF LocalAdded, CommandMayPointLocal, IndexedMayPointLocal, MayPointLocal
    <3>6. QED
      BY <2>1, <3>4, <3>5 DEF ReadThroughOps
  <2>5. \A v \in outside : v \notin Reg
    BY DEF LocalsDescribed
  <2>6. QED
    BY <1>1, <1>4, <1>6, <1>11, <2>2, <2>3, <2>4, <2>5, LocalsAssign, ValueAssumption
    DEF RunRead
<1>12. CASE RunWrite
  <2>1. program[pc].op \in WriteThroughOps
    BY <1>12 DEF RunWrite, At
  <2>2. s \in Reg /\ d \in Reg /\ s \in Visible(program, pc) /\ d \in Visible(program, pc)
    BY <1>2, <2>1 DEF WriteThroughOps
  <2>3. slot[s] \in Reg => s \in lsa /\ program[pc].op = "store"
    BY <1>4, <1>5, <2>1, <2>2 DEF Covers, NoIndexedAddresses, WriteThroughOps
  <2>4. ASSUME slot[d] \in Reg, slot[s] \in Reg
        PROVE  slot[d] \in lsa
    <3>1. d \in lsa /\ s \in lsa
      BY <1>4, <2>2, <2>4
    <3>2. slot[d] = lr[d] /\ lr[d] \in Reg /\ lr[d] # NoSlot
      BY <1>1, <2>1, <2>2, <2>4, <3>1, DereferenceIsExact, ValueAssumption, SlotAssumption
    <3>3. QED
      BY <1>3, <2>2, <2>3, <2>4, <3>1, <3>2 DEF LocalAdded, StoresIntoSlot, MayPointLocal
  <2>5. ASSUME slot[d] = External
        PROVE  slot[s] \notin Reg
    <3> SUFFICES ASSUME slot[s] \in Reg PROVE FALSE
      OBVIOUS
    <3>1. d \in lsa
      BY <1>3, <2>2, <2>3 DEF Rejects, EscapeError, MayPointLocal
    <3>2. slot[d] \in {Null, lr[d]} /\ lr[d] \in Reg
      BY <1>1, <2>1, <2>2, <2>3, <3>1, DereferenceIsExact
    <3>3. QED
      BY <2>5, <3>2, ValueAssumption
  <2>6. QED
    BY <1>1, <1>4, <1>6, <1>7, <1>12, <2>2, <2>4, <2>5, LocalsAssign DEF RunWrite
<1>13. CASE RunPublish \/ RunRet
  <2>1. program[pc].op \in PublishOps /\ program[pc].op # "literal"
    BY <1>13 DEF RunPublish, RunRet, At, PublishOps
  <2>2. slot[s] \notin Reg
    BY <1>2, <1>3, <1>4, <2>1 DEF Rejects, EscapeError, MayPointLocal
  <2>3. QED
    BY <1>7, <1>13, <2>2 DEF RunPublish, RunRet
<1>14. QED
  BY <1>6, <1>8, <1>9, <1>10, <1>11, <1>12, <1>13 DEF Run

\* Writing v to the slot of r keeps the immutable addresses described.
LEMMA ImmutablesAssign ==
  ASSUME FrameTypeOK, NEW G \in SUBSET Reg, ImmutablesDescribed(G),
         NEW r \in Reg, NEW v, Assign(r, v),
         v = Immutable => r \in imm,
         r \in G /\ v \in Reg /\ lr[r] \in imm => r \in imm
  PROVE  ImmutablesDescribed(G)'
BY DEF ImmutablesDescribed, Assign, FrameTypeOK, TypeOK, vars

(***************************************************************************)
(* No step of a running function puts an immutable address where the       *)
(* analysis does not expect one.                                           *)
(***************************************************************************)
LEMMA ImmutablesStep ==
  ASSUME SoundInv, Run, NEW G \in SUBSET Reg, Covers(G), LocalsDescribed(G),
         ImmutableStaysInFrame, ImmutablesDescribed(G)
  PROVE  ImmutablesDescribed(G)'
<1> DEFINE d == program[pc].dst
           s == program[pc].src
<1>1. control = "running" /\ FrameTypeOK
  BY DEF SoundInv, Run, RunRef, RunCopy, RunLiteral, RunRead, RunWrite,
         RunPublish, RunRet, RunLeave, At
<1>2. /\ program[pc].op \in TargetOps \cup WriteThroughOps => d \in Reg
      /\ program[pc].op # "literal" => s \in Reg
      /\ program[pc].op \in WriteThroughOps => d \in Visible(program, pc) /\ d \notin imm
  BY <1>1, CurrentCommand, AcceptedCommand
<1>3. ImmutableAdded(program[pc], pc) \subseteq imm
  BY <1>1, AcceptedCommand DEF Closed
<1>4. \A r \in Reg : /\ slot[r] = Immutable => r \in imm
                     /\ slot[r] \in Reg => r \in lsa
                     /\ slot[r] \notin G
  BY DEF ImmutablesDescribed, LocalsDescribed
<1>5. pc \in DOMAIN program
  BY <1>1 DEF FrameTypeOK
<1>6. ASSUME Trap \/ RunLeave \/ RunRet
      PROVE  ImmutablesDescribed(G)'
  BY <1>6 DEF Trap, RunLeave, RunRet, ImmutablesDescribed, vars
<1>7. ASSUME UNCHANGED <<vars, slot, control>>,
             outside' = outside \cup {slot[s]}, slot[s] # Immutable
      PROVE  ImmutablesDescribed(G)'
  BY <1>7 DEF ImmutablesDescribed, vars
<1>8. CASE RunRef
  <2>1. program[pc].op = "ref" /\ program[pc].op \in TargetOps
    BY <1>8 DEF RunRef, At, TargetOps
  <2>2. s \in imm => d \in imm
    BY <1>2, <1>3, <2>1 DEF ImmutableAdded, CommandMayNameImmutable, MayNameImmutable
  <2>3. d \in G => s = lr[d]
    BY <2>1, TrackedTarget
  <2>4. QED
    BY <1>1, <1>2, <1>8, <2>1, <2>2, <2>3, ImmutablesAssign, ValueAssumption DEF RunRef
<1>9. CASE RunCopy
  <2>1. program[pc].op \in {"copy", "cast"} /\ program[pc].op \in TargetOps
    BY <1>9 DEF RunCopy, At, TargetOps
  <2>2. s \in imm => d \in imm
    BY <1>2, <1>3, <2>1 DEF ImmutableAdded, CommandMayNameImmutable, MayNameImmutable
  <2>3. d \in G => s \in G /\ lr[s] = lr[d]
    BY <2>1, TrackedTarget
  <2>4. d \in G /\ slot[s] \in Reg /\ lr[d] \in imm => d \in imm
    BY <2>2, <2>3 DEF ImmutablesDescribed
  <2>5. slot[s] = Immutable => d \in imm
    BY <1>2, <1>4, <2>1, <2>2
  <2>6. QED
    BY <1>1, <1>2, <1>9, <2>1, <2>4, <2>5, ImmutablesAssign DEF RunCopy
<1>10. CASE RunLiteral
  <2>1. program[pc].op = "literal" /\ program[pc].op \in TargetOps
    BY <1>10 DEF RunLiteral, At, TargetOps
  <2>2. d \in imm
    BY <1>2, <1>3, <2>1 DEF ImmutableAdded, CommandMayNameImmutable
  <2>3. QED
    BY <1>1, <1>2, <1>10, <2>1, <2>2, ImmutablesAssign DEF RunLiteral
<1>11. CASE RunRead
  <2>1. program[pc].op \in ReadThroughOps /\ program[pc].op \in TargetOps
    BY <1>11 DEF RunRead, At, TargetOps, ReadThroughOps
  <2>2. d \notin G
    BY <2>1, TrackedTarget DEF ReadThroughOps
  <2>3. s \in Reg /\ d \in Reg
    BY <1>2, <2>1 DEF ReadThroughOps
  <2>4. ASSUME slot[s] \in Reg, slot[slot[s]] = Immutable
        PROVE  d \in imm
    <3>1. s \in lsa
      BY <1>4, <2>3, <2>4
    <3>2. s \in G /\ slot[s] = lr[s] /\ lr[s] \in Reg /\ lr[s] # NoSlot
      BY <1>1, <2>1, <2>3, <2>4, <3>1, DereferenceIsExact, ValueAssumption, SlotAssumption
    <3>3. lr[s] \in imm
      BY <1>4, <2>4, <3>2
    <3>4. CASE program[pc].op = "load"
      BY <1>3, <2>3, <3>2, <3>3, <3>4 DEF ImmutableAdded
    <3>5. CASE program[pc].op = "indexload"
      <4>1. s \in imm
        BY <2>4, <3>2, <3>3 DEF ImmutablesDescribed
      <4>2. QED
        BY <1>3, <2>1, <2>3, <3>5, <4>1
        DEF ImmutableAdded, CommandMayNameImmutable, MayNameImmutable
    <3>6. QED
      BY <2>1, <3>4, <3>5 DEF ReadThroughOps
  <2>5. Immutable \notin outside
    BY <1>1 DEF ImmutablesDescribed
  <2>6. QED
    BY <1>1, <1>6, <1>11, <2>2, <2>3, <2>4, <2>5, ImmutablesAssign, ValueAssumption
    DEF RunRead
<1>12. CASE RunWrite
  <2>1. program[pc].op \in WriteThroughOps
    BY <1>12 DEF RunWrite, At
  <2>2. s \in Reg /\ d \in Reg /\ d \in Visible(program, pc) /\ d \notin imm
    BY <1>2, <2>1 DEF WriteThroughOps
  <2>3. slot[s] = Immutable => s \in imm /\ program[pc].op = "store"
    <3> SUFFICES ASSUME slot[s] = Immutable, program[pc].op = "indexstore" PROVE FALSE
      BY <1>4, <2>1, <2>2 DEF WriteThroughOps
    <3>1. s \in imm
      BY <1>4, <2>2
    <3>2. Level[d] > 1
      BY <1>5, <3>1 DEF Covers, NoIndexedAddresses
    <3>3. d \in imm
      BY <1>3, <2>2, <3>1, <3>2 DEF ImmutableAdded, MayNameImmutable
    <3>4. QED
      BY <2>2, <3>3
  <2>4. ASSUME slot[d] \in Reg, slot[s] = Immutable
        PROVE  slot[d] \in imm
    <3>1. d \in lsa /\ s \in imm
      BY <1>4, <2>2, <2>3, <2>4
    <3>2. slot[d] = lr[d] /\ lr[d] \in Reg /\ lr[d] # NoSlot
      BY <1>1, <2>1, <2>2, <2>4, <3>1, DereferenceIsExact, ValueAssumption, SlotAssumption
    <3>3. QED
      BY <1>3, <2>2, <2>3, <2>4, <3>1, <3>2 DEF ImmutableAdded, StoresIntoSlot, MayNameImmutable
  <2>5. ASSUME slot[d] = External
        PROVE  slot[s] # Immutable
    <3> SUFFICES ASSUME slot[s] = Immutable PROVE FALSE
      OBVIOUS
    <3>1. d \in lsa
      BY <1>5, <2>3 DEF ImmutableStaysInFrame
    <3>2. slot[d] \in {Null, lr[d]} /\ lr[d] \in Reg
      BY <1>1, <2>1, <2>2, <2>3, <3>1, DereferenceIsExact
    <3>3. QED
      BY <2>5, <3>2, ValueAssumption
  <2>6. QED
    BY <1>1, <1>4, <1>6, <1>7, <1>12, <2>2, <2>4, <2>5, ImmutablesAssign DEF RunWrite
<1>13. CASE RunPublish
  <2>1. program[pc].op \in {"call", "global"}
    BY <1>13 DEF RunPublish, At
  <2>2. s \notin imm
    BY <1>5, <2>1 DEF ImmutableStaysInFrame
  <2>3. slot[s] # Immutable
    BY <1>2, <1>4, <2>1, <2>2
  <2>4. QED
    BY <1>7, <1>13, <2>3 DEF RunPublish
<1>14. QED
  BY <1>6, <1>8, <1>9, <1>10, <1>11, <1>12, <1>13 DEF Run

-----------------------------------------------------------------------------
LEMMA SoundInvInit ==
  ASSUME FrameInit, FrameTypeOK
  PROVE  SoundInv
<1>1. AnalysisInv
  BY AnalysisInvInit DEF FrameInit
<1>2. QED
  BY <1>1 DEF FrameInit, SoundInv, IdleInv, RunsAccepted

LEMMA SoundInvStep ==
  ASSUME SoundInv, FrameTypeOK', [FrameNext]_frameVars
  PROVE  SoundInv'
<1>1. AnalysisInv'
  <2>1. [Next]_vars
    BY RunKeepsAnalysis DEF FrameNext, Analyse, frameVars
  <2>2. AnalysisInv /\ TypeOK'
    BY DEF SoundInv, FrameTypeOK
  <2>3. QED
    BY <2>1, <2>2, AnalysisInvStep
<1>2. CASE Analyse
  <2>1. control = "idle"
    BY <1>2 DEF Analyse, Next, Visit, AnotherPass, CloseLoop, CheckCommand,
                Reject, Accept, SoundInv, RunsAccepted
  <2>2. UNCHANGED <<slot, outside, control>>
    BY <1>2 DEF Analyse, runtime
  <2>3. QED
    BY <1>1, <2>1, <2>2 DEF SoundInv, IdleInv, RunsAccepted
<1>3. CASE Enter
  <2>1. /\ control = "idle" /\ control' = "running" /\ phase' = "accepted"
        /\ UNCHANGED <<vars, slot, outside>>
    BY <1>3 DEF Enter, vars
  <2>2. /\ slot' = [r \in Reg |-> IF r \in Params THEN External ELSE Null]
        /\ outside' = {Null, External}
    BY <2>1 DEF SoundInv, IdleInv
  <2>3. ASSUME NEW G \in SUBSET Reg, Covers(G)'
        PROVE  LocalsDescribed(G)' /\ ImmutablesDescribed(G)'
    <3>1. G \cap Params = {}
      BY <2>1, <2>3, AnalysisDecides DEF Covers, Tracked
    <3>2. \A r \in Reg : slot'[r] \notin Reg \cup {Immutable}
      BY <2>2, ValueAssumption
    <3>3. \A g \in G : slot'[g] = Null
      BY <2>2, <3>1
    <3>4. QED
      BY <2>2, <3>2, <3>3, ValueAssumption DEF LocalsDescribed, ImmutablesDescribed
  <2>4. QED
    BY <1>1, <2>1, <2>3 DEF SoundInv, IdleInv, RunsAccepted
<1>4. CASE Run
  <2>1. control = "running" /\ control' # "idle" /\ UNCHANGED vars
    BY <1>4, RunKeepsAnalysis
    DEF Run, RunRef, RunCopy, RunLiteral, RunRead, RunWrite, RunPublish, RunRet,
        RunLeave, At, Assign, Trap
  <2>2. RunsAccepted' /\ IdleInv'
    BY <2>1 DEF SoundInv, RunsAccepted, IdleInv, vars
  <2>3. ASSUME NEW G \in SUBSET Reg
        PROVE  /\ Covers(G)' => LocalsDescribed(G)'
               /\ Covers(G)' /\ ImmutableStaysInFrame' => ImmutablesDescribed(G)'
    <3>1. /\ Covers(G)' <=> Covers(G)
          /\ ImmutableStaysInFrame' <=> ImmutableStaysInFrame
      BY <2>1, AnalysisDecides
    <3>2. /\ Covers(G) => LocalsDescribed(G)
          /\ Covers(G) /\ ImmutableStaysInFrame => ImmutablesDescribed(G)
      BY <2>1 DEF SoundInv
    <3>3. Covers(G)' => LocalsDescribed(G)'
      BY <1>4, <3>1, <3>2, LocalsStep
    <3>4. Covers(G)' /\ ImmutableStaysInFrame' => ImmutablesDescribed(G)'
      BY <1>4, <3>1, <3>2, ImmutablesStep
    <3>5. QED
      BY <3>3, <3>4
  <2>4. QED
    BY <1>1, <2>2, <2>3 DEF SoundInv
<1>5. CASE UNCHANGED frameVars
  <2>1. UNCHANGED <<vars, slot, outside, control, phase>>
    BY <1>5 DEF frameVars, runtime, vars
  <2>2. ASSUME NEW G \in SUBSET Reg
        PROVE  /\ Covers(G)' <=> Covers(G)
               /\ ImmutableStaysInFrame' <=> ImmutableStaysInFrame
               /\ LocalsDescribed(G)' <=> LocalsDescribed(G)
               /\ ImmutablesDescribed(G)' <=> ImmutablesDescribed(G)
    BY <2>1, AnalysisDecides DEF LocalsDescribed, ImmutablesDescribed, vars
  <2>3. QED
    BY <1>1, <2>1, <2>2 DEF SoundInv, IdleInv, RunsAccepted
<1>6. QED
  BY <1>2, <1>3, <1>4, <1>5 DEF FrameNext

LEMMA SoundInvariant == FrameSpec => []SoundInv
<1>1. FrameInit /\ FrameTypeOK => SoundInv
  BY SoundInvInit
<1>2. SoundInv /\ FrameTypeOK' /\ [FrameNext]_frameVars => SoundInv'
  BY SoundInvStep
<1>3. QED
  BY <1>1, <1>2, FrameTypeCorrect, PTL DEF FrameSpec

\* A function clear of the gaps has a tracked set that covers it.
LEMMA GapsAvoided ==
  ASSUME FrameTypeOK, AvoidsGaps
  PROVE  \E G \in SUBSET Reg : Covers(G)
BY DEF AvoidsGaps, OneSlotPerPointer, Covers

(***************************************************************************)
(* An accepted function that stays clear of the gaps never lets an address *)
(* of its frame outlive it.                                                *)
(***************************************************************************)
THEOREM EscapeAnalysisSound == FrameSpec => []EscapeSound
<1>1. SoundInv => EscapeSound
  <2> SUFFICES ASSUME SoundInv, control # "idle", AvoidsGaps PROVE NoEscape
    BY DEF EscapeSound
  <2>1. PICK G \in SUBSET Reg : Covers(G)
    BY GapsAvoided DEF SoundInv
  <2>2. QED
    BY <2>1 DEF SoundInv, LocalsDescribed, NoEscape
<1>2. QED
  BY <1>1, SoundInvariant, PTL

(***************************************************************************)
(* An accepted function that stays clear of the gaps, and hands no         *)
(* immutable address to memory outside its frame, never writes to a string *)
(* literal or a constant global array.                                     *)
(***************************************************************************)
THEOREM ImmutableAnalysisSound == FrameSpec => []ImmutableSound
<1>1. SoundInv => ImmutableSound
  <2> SUFFICES ASSUME SoundInv, AvoidsGaps, ImmutableStaysInFrame, At(WriteThroughOps)
               PROVE  slot[program[pc].dst] # Immutable
    BY DEF ImmutableSound, NoImmutableWrite
  <2>1. PICK G \in SUBSET Reg : Covers(G)
    BY GapsAvoided DEF SoundInv
  <2>2. control = "running" /\ program[pc].op \in WriteThroughOps
    BY DEF At
  <2>3. program[pc].dst \in Reg /\ program[pc].dst \notin imm
    BY <2>2, CurrentCommand, AcceptedCommand DEF SoundInv
  <2>4. QED
    BY <2>1, <2>2, <2>3 DEF SoundInv, ImmutablesDescribed
<1>2. QED
  BY <1>1, SoundInvariant, PTL
=============================================================================
