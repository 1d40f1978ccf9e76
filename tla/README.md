# Verification of psic

psic compiles PSI, a small assembly-like language with typed registers, to LLVM
IR, object code, or native code that it runs in-process. It is a command-line
driver and a library with a C++ and a C interface. This directory holds TLA+
models of the parts of it where a mistake is hard to see in a test, the TLC
configurations that check them, and TLAPS proofs.

Line numbers refer to the files under `src/` of the repository.

## The system

| Component | Source | State it keeps | Operations | Correct when |
|---|---|---|---|---|
| Lexer | `lexer.cpp` | position, line, column | `tokenize` | every token is located where it begins; every loop consumes input |
| Source lines of diagnostics | `compiler.cpp:19-39`, `main.cpp:425-575` | none | `sourceLineAt`, `printDiagnostics` | both show the line and the column that the lexer counted |
| Parser | `parser.cpp` | token index, value arena | `parseProgram` | accepts exactly the language; ends on every token list; an error is where the text goes wrong |
| Validator, pointer analyses | `validation.cpp:143-343, 718-1549` | four alias sets of one function | closure loop, checks | an accepted function leaks no frame address and writes no immutable storage |
| Validator, types and symbols | `validation.cpp` (rest) | symbol tables | `validateProgram` | no ill-typed command reaches code generation; no struct contains itself |
| Code generation, declarations | `codegen_module.cpp` | `State`: maps of one module | `compileProgram` | layout, initial values, traps |
| Code generation, memory access | `codegen_module.cpp:116-233` | none | loads and stores byte by byte | a racing load sees bytes of the two values only |
| Code generation, commands | `codegen_instructions.cpp` | frame slots, labels | `generateFunctionBody`, `processCommand` | every block has one terminator; every local is initialised on every path; checked accesses trap |
| Special registers | `codegen_registers.cpp` | none | reads and writes as inline assembly | - |
| Pipeline | `compiler.cpp` | none of its own | `compile`, `buildJit` | a result is a success exactly when nothing failed |
| Back end and JIT | `codegen.cpp` | target `once_flag`, `jitMutex` (process-wide) | `optimizeIR`, `compileToObjectMemory`, `executeJit` | calls from any thread, nested ones too, return |
| Diagnostics | `logging.cpp` | sink, error count, line, verbose (thread-local) | `logError`, `DiagnosticCaptureScope` | each message ends up with the call it belongs to |
| C API | `c_api.cpp` | last error text (thread-local) | compile, execute, prepare | no exception crosses; null result if and only if the last error says why |
| Target selection | `target.cpp`, `compiler.cpp:54-102` | none | `resolveTarget` | every triple maps to a profile the generator supports, and the triple of a result selects the same one |
| Driver | `main.cpp` | options, output files | `main` | exit status, messages and files agree |

How they interact: `main.cpp` and `c_api.cpp` call `compile`/`buildJit`, which
run lexer, parser, validator, generator and back end in order on the caller's
thread. The stages talk through return values, exceptions and the thread-local
diagnostic state: a stage that calls `logError` makes `hadErrors()` true, and
`compile` turns that into a failed result. The JIT shares two process-wide
objects among threads, and its compiled code may call host functions, which may
call the library again on the same thread, inside the first call.

The behaviours that are hard to test:

* a program's control flow is arbitrary (labels and `cjmp`), while the
  validator judges commands in source order;
* calls nest and run concurrently, over thread-local and process-wide state;
* any step may fail by an error return, an exception, or exhausted memory;
* code in other threads runs between the bytes of an access and between the
  steps of a compare-exchange loop.

`PROJECT.json` lists the hazards at their lines.

## Modules

    PsiCommands  <-  EscapeAnalysis  <-  FrameSafety         Embedding -> CallContract
                                           FrameSafetyProofs   EmbeddingProofs
                                           MCFrameSafety       MCEmbedding

    MemoryCopy              BoundedView -> ViewContract   AtomicFloat -> AtomicCell
      MemoryCopyProofs        BoundedViewProofs             AtomicFloatProofs
      MCMemoryCopy            MCBoundedView                 MCAtomicFloat

    Arithmetic  <-  BytewiseAccess          TargetSelection  <-  Driver
                      BytewiseAccessProofs                         DriverProofs
                      MCBytewiseAccess                             MCDriver

    SourceText  <-  Lexer  <-  MCLexer

    Parser, StructCycles  <-  FrontEnd  <-  PsiGrammar  <-  MCFrontEnd

    Lexer, StructCycles  <-  FrontEndProofs

An arrow to the right is INSTANCE with a refinement mapping; a module EXTENDS the
one that an arrow to the left points at, or that it stands under.

**PsiCommands** is the language: the commands of a function body, with types
reduced to pointer levels, the type rules that the validator enforces on one
command (`WellTyped`), and `Visible`, which is `visibleLocals`. `Fragments` says
which programs there are: in each fragment, those of some commands up to some
length.

**EscapeAnalysis** is `validateBlock`. `lsa`, `lac`, `lr` and `imm` are
`localStorageAliases`, `localAggregateContents`, `localReferences` and
`immutableAliases`; `added` is `addedLocalAlias`. `Visit` is one iteration of
the loop over the commands with all inserts it makes; `AnotherPass` and
`CloseLoop` are the `while`; `CheckCommand` and `Reject` are one iteration of the
second loop, which either goes through every `require` or throws. The operators
named after the questions (`MayPointLocal`, `CommandMayPointLocal`, ...) are the
functions at lines 143-343, restricted to the modelled commands. A comparison of
the acceptance predicate of this module with the compiled validator over 208,225
generated programs showed no difference.

**FrameSafety** runs an accepted function. A slot holds a value told apart only
by where it points: nowhere, into the frame (to which slot), to immutable
storage, or outside. `outside` collects what memory outliving the frame may
hold, so a value read from outside is any member of it: a callee or another
thread may have put it back. After each command control may go anywhere, which
covers every use of `jmp` and `cjmp` on unknown data. All locals are zero at
entry, as the generator makes them (`codegen_instructions.cpp:2254-2258`).

**Embedding** is the library as a host sees it: threads that make calls, the
stages of a call (`compiler.cpp`, `codegen.cpp`), the capture scope
(`logging.cpp`), the C wrapper with its last error. Each stage may succeed or
fail in each way the code distinguishes. A frame of `stack[t]` is the C++ stack
frame of one call: its result, and what its capture scope saved. Variables of a
frame marked "history" only record what happened, for the properties.

**CallContract** is the abstract specification of the calls of a thread: they
nest, each has one verdict, and host code runs only inside a call that will
succeed. `Embedding` implements it under the mapping `Visible`.

The next seven modules are about code that the generator writes into the program,
and so what one or several threads do when they run it.

**MemoryCopy** is `processMemoryIntrinsicInstruction`: one behaviour runs one
`#memcpy` or `#memset` on one memory. `pc` names the basic block; `count`,
`backward` and `index` are the values `length` (after conversion),
`copyBackward` and `memory.byte.index`. Addresses wrap at `AddressSpace`; the
type of the length and of the fill value may be wider than an address and a
byte. When the length's type is not wider, the narrowing of the model is the
identity, like the code's zero extension.

**BoundedView** is the four view instructions of `processInstruction`, the copy
of a view, and `buildLocalArrayLiteral`. A view register is the pair of address
and 64-bit length that the generator stores; `stack` is what `CreateAlloca` has
handed out, at addresses the allocator chooses. An operand is a bit pattern with
the width and sign of its type, and `Converted` is what `convertViewInteger`
makes of it. `request` records the command for the abstract specification only.

**ViewContract** is the specification a PSI programmer has in mind: a view is a
sequence of cells, a slice a part of it, literals have fresh cells, and a
command traps if and only if its numbers do not fit. `BoundedView` implements it
with `Elements(v)` as the sequence.

**AtomicFloat** is `processCanonicalAtomicFloatRmw`, run by several threads on
one cell beside `#atomicstore`. `pc[t] = "seed"` is the end of the preheader and
`"retry"` the block `atomic.float.retry`; `expected` is its phi. The seed load
is monotonic and the model lets it return any bits the cell has ever held, more
than an architecture would. Arithmetic and flushing are constants: any functions
on the patterns.

**AtomicCell** is a cell whose updates happen in one step. `AtomicFloat`
implements it; an update takes effect at the exchange that succeeds.

**BytewiseAccess** is an ordinary load beside an ordinary store
(`loadValueBytewiseAtomic`, `storeValueBytewiseAtomic`,
`storeValueWithZeroedPadding`). `StoreByte` and `LoadByte` are one byte of the
loop that the generator unrolls; a volatile access, which LLVM does not split and
does not make atomic, has its bytes in any order. The temporaries are only seen
by their own thread: what goes through them is the sequence of bytes. `Execute`
computes with what was loaded, so that every operand that a race can make is one
that the arithmetic meets.

**Arithmetic** is that arithmetic, as operators on words of n bits: the checks
that the generator emits (`DivisionInvalid`, `ShiftTooLarge`, `LaneInvalid`,
`InRange`), LLVM's instruction, which yields `Poison` where LLVM leaves the result
undefined, and the corrections behind it (`StableZero`, `NaNResult`). Floats are a
format with a few bits of exponent and fraction, in which all bit patterns of the
code's masks occur. `Exact...` in `BytewiseAccess` say what the results should
be, on unbounded integers and without LLVM's special cases.

**SourceText** is a text as bytes, each byte the name of a class that the code
treats alike (leading bytes of UTF-8 by what may follow them, continuation bytes
by the ranges that matter). It has the three walks over the text that the code
does separately: `utf8SequenceLength` (twice in the source, `lexer.cpp:25-44` and
`main.cpp:425-444`, which differ in the end they are given), `sourceLineAt` of
the library, and `ShownLine` and `Caret`, the parts of the driver's
`printDiagnostics`. `LineOf`, `ColumnOf` and `TerminalColumnOf` define what they
should find, without walking.

**Lexer** is `tokenize`, with one action for each kind of token, comment and
blank; `readChar` is the function of that name on the cursor. A token is its
type and its location, and where it really begins (`at`, history).

**Parser** is `parser.cpp` on a list of tokens. The recursion is a stack of goals:
what the functions that have been called have still to read. `Expand` replaces a
function by the alternative that it takes on the tokens ahead, `Read` is
`expectTokenType` or `consumeToken`, and an error stops everything, like the
exception in the code. A loop is a goal that comes back (`fields`, `commands`,
`operands`). A token is of one of 23 kinds, those the parser distinguishes.

**StructCycles** is `visitStructByValue` and `validateStructCycles`; `calls` is
the C++ stack, and a frame's `field` the position of its loop. The order of
starts, which in the code is that of a hash table, is any.

**FrontEnd** runs the parser, then the declarations of structs in
`validateProgram` on what it has read (`tree`), then the search.

**PsiGrammar** is the reference for the parser: a context-free grammar of PSI, and
the set of sentential forms that a text can leave open. It knows no look-ahead;
`Offence` is the first token with which no program can continue.

**TargetSelection** has the tables of names and the functions that select a
profile (`pickArchitecture`, `pickOperatingSystem`, `resolveTarget`), and
`defaultTriple`. A pick is the set of its results, empty where the code throws. How
LLVM reads a triple is external: `LLVMSpellings` and `LLVMSystems` have the
spellings that the library writes, and some that it does not know.

**Driver** is `main`: the arguments one by one, reading, compilation, the choice of
`buildJit`, and the output file. Every library call that may fail may do so, and
`Kill` ends the process at any point. `disk` tells, of every name a path can have,
whether this run changed its content and whether what it wrote is complete.

Each module whose name ends in **Proofs** holds the theorems about the module it
is named after; **FrontEndProofs** is about `Lexer` with `SourceText`, and about
`StructCycles`.

## Runs

| Run | What it shows |
|---|---|
| `sound` | the closure loop of the validator ends, its result is complete and unchanged by the checks, and it is sound: no frame address leaks and no immutable storage is written, in programs that stay clear of the analyses' gaps |
| `leak` | the gaps: accepted programs that leak (counterexample) |
| `embedding` | diagnostics, lock and verdict of nested and concurrent calls; LLVM's targets are registered before a call uses them; every call returns; the calls implement `CallContract` |
| `lasterror`, `setup` | two promises of the headers that the code does not keep (counterexamples) |
| `memorycopy` | `#memcpy` and `#memset` act as if through a buffer, or trap before the first write, and end |
| `views` | a view stays in the storage of a literal; views implement `ViewContract` |
| `atomics` | float updates implement `AtomicCell`, and return |
| `lexer` | the lexer ends on every text, its locations are exact, and the library's line and the driver's line and caret are the ones of the token |
| `driver` | status, messages and files of the driver agree on every path; the triple of a result selects the same target; the documented profiles are those accepted |
| `frontend` | the parser accepts the language of the grammar, errors are located at the first token that is wrong, recursive structs and no others are refused, and all of it ends |
| `generated` | racing loads see a mixture of two values and nothing else; arithmetic on any such value is exact or traps |

All runs but `lexer` allow deadlock, since the system may really stop: validation
ends, a function returns or traps, a copy is done, a program has trapped, threads
have used up their commands, a host may make no more calls, the driver exits, a
text has been judged. In `lexer` a finished
`tokenize` is a state of its own (`Stopped`), so that the absence of deadlock says
that one of the branches takes every byte; with `ReadsOn`, `tokenize` ends.

Bounds. `sound` has three fragments. `EveryKind`: all programs of up to 3
commands out of 21, of every kind and used badly too; three commands are enough
for a fact to travel against the source order through two others, so that the
loop needs several passes. `EscapeCommands`: up to 5 out of 7 over 6 registers,
since the shortest leak through a store and a load takes 5. `ImmutableCommands`:
up to 4 out of 10. `leak` takes the commands of one gap at a time, up to 4, 5
or 6, as many as its shortest leak takes.
`Embedding`: two threads, one making two calls (in sequence or nested),
the other one call; a third thread or level would meet the same mutex and the
same saved state, which is a stack. `MaxDepth` and `MaxCalls` bound the model,
not the code.

`MemoryCopy`: eight addresses, lengths 0 to 9, two byte values and every initial
memory, so that all positions of two ranges, all overlaps and both ends of the
address space occur, and the two lengths that an address cannot hold.
`BoundedView`: two view registers and literals of up to two elements of two bytes
in eight addresses, so that a slice of a slice, an aliased store and a second
execution of a literal occur; the six operands are a positive, a negative, a
zero, a large unsigned and two wide ones. TLC tells its states apart without `request`
(`VIEW WithoutRequest`), which no action reads; the contract is checked on
every step. `AtomicFloat`: two threads with two commands each, so that an
exchange can fail more than once; one bit pattern of each kind that the code
distinguishes (zero, number, subnormal, canonical NaN, NaN with a payload).

`Lexer`: every text of up to 4 to 6 bytes over each of eight alphabets, and some
of them inside a string or a comment: line breaks and tabs; valid, broken and cut
off sequences of two, three and four bytes; quotes and backslashes; stars and
slashes; prefixes, points and signs of numbers; markers of special tokens. A
sequence has at most four bytes and a line break two, so that whole ones, ones
cut off at each byte, and others in front of them or behind them occur.

`Driver`: every line of up to 4 arguments out of 15 that contradict each other or
take a value, so that every pair of options with their values occurs in each
order; and one line for every name of an architecture with every name of a
system, and with every triple of two components out of the tables.

`FrontEnd`: ten programs that between them use every form of the language, each of
them with one token removed, replaced, inserted, or cut off behind it; every
command of up to 3 tokens; and every way in which up to three structs contain or
point to each other. A decision of the parser looks at most at three tokens, so
that every outcome of each occurs in the first two sets.

`BytewiseAccess`: words of two bytes of two bits and a float format of six bits,
whose smallest number is an eighth.
Every operation meets every pair of operands of its width, narrower and wider
right operands included; the races have a structure with padding, a word, and a
load that overlaps each of them or not.

Two properties need a precondition that the code does not check. `EscapeSound`
and `ImmutableSound` assume `AvoidsGaps`:

* every register through which addresses are read or written holds the address
  of one slot only, assigned by `ref`, copies and casts (`OneSlotPerPointer`);
* `p[0] = v` is not used to put an address into a slot, and `p[0]` is not used
  to read addresses back as integers (`NoIndexedAddresses`).

Soundness of the analysis for all accepted programs is false; each of the five
fragments of `leak` breaks one part of the two conditions and nothing else, so
that no part can be left out.

## What the counterexamples say

* `leak`: an accepted function lets an address of its frame out. TLC stops at one
  of five ways, each of which is a fragment of `MCFrameSafety`:
  `i32* a = ref x; i32** p = ref b; p[0] = a; ret b;` taints `p` and not `b`;
  `localReferences` keeps the first slot of a register that is given a second
  one; a pointer that holds either a local or the caller's address is taken for
  "proven local"; with `p = ref a` and `i64* g = #ptrcast p`, `x = g[0]; ret x`
  returns the bits of the address as a number that is not tainted; a pointer that
  was loaded has no recorded slot, so that `f = load t; store f a; ret b`, where
  `t` leads to the slot of `b`, returns what was stored.
* `lasterror`: the last error of a failing call nested in `psic_execute_source`
  is still set when the outer call has returned a result.
* `setup`: an error that LLVM reports while the JIT generates native code is
  printed, not returned, and the call succeeds.

A program of each of the five ways was given to the compiled validator, which
accepts it.

### Known divergences

Other places where the code does less than one could expect, without a text of the
repository that says otherwise. The properties leave them out.

* `writeIR` asks the stream before it is written out (`main.cpp:394-400`): a file
  of IR that could not be flushed is cut off, and the driver exits with 0.
  `writeObject` closes first. IR on standard output that fails ends in status 1
  without a message (`main.cpp:385`).
* `readSource` does not notice an error in the middle of the input, and compiles
  what it has read (`main.cpp:376-378`).
* The default output path of `x.o` or, with `--emit-llvm`, of `x.ll` is the input.
* `expectIndexNumber` has consumed a bad number when it reports it, and so names
  the token behind it (`parser.cpp:150-174`); `ErrorAtFirstOffence` excepts it.
* The right operand of a binary command is extended by the sign of the left one's
  type, and cut to its width before a divisor or a shift count is checked
  (`codegen_instructions.cpp:2010-2011`). `ResultsExact` speaks of the operand
  after that.
* `#fptosi` and `#fptoui` trap for numbers between the limit and the next integer
  outside, such as -0.5 to an unsigned type, although their integral part would
  fit.

## Fairness

`MCFrameSafety!FairFrameSpec` has weak fairness of `Analyse`: the validator runs
on the caller's thread and waits for nothing. Nobody is obliged to call the
function that it accepted. `Embedding!FairSpec` has weak
fairness of `Step(t)` for each thread: the operating system runs every thread,
entries and target registration return. `Step` leaves out what nobody is
obliged to do: to make calls, to refuse arguments, to run out of memory, and to
report more from LLVM. `std::mutex` is not fair; weak fairness is still enough
for `CallsReturn` because the number of calls is finite, so that a thread is
overtaken finitely often.

`MemoryCopy!FairSpec` and the `Spec` of `FrontEnd` have weak fairness of `Next`:
one thread that waits for nothing. `Driver` and `BytewiseAccess` state no
liveness and assume no fairness. `AtomicFloat!FairSpec` has it of `Step(t)`, the loop of a thread once it
has begun. The loop is lock-free and not wait-free: `UpdatesReturn` holds because
each thread executes finitely many commands (`MaxCalls`), and shows that a loop
that is left alone ends, whatever the bits.

## Proofs

Eight modules hold theorems; `PROJECT.json` lists those that state a property of a
run. `FrameSafetyProofs` is for every set of registers and every set of
fragments of well-typed commands, of any length. It assumes what `PsiCommands`, `EscapeAnalysis` and
`FrameSafety` assume of their constants (`RegAssumption`, `CommandAssumption`,
`LengthAssumption`, `SlotAssumption`, `ValueAssumption`): absent operands and
abstract values are not registers, levels are numbers, commands are well typed.

The first part of `FrameSafetyProofs` is about the analysis alone.
`ClosureComplete` is not inductive, since the checks
may insert into `imm` and since it says nothing of a loop that is still
running. `AnalysisInv` adds `PassInv`: as long as a pass has inserted nothing,
every command already visited is closed; and that the closedness the last
pass established lasts through the checks, because what they would insert is
an element of `ImmutableAdded`. `TypeCorrect`, `ClosureCompleteHolds` and
`OneResult` follow.

The second part is about the function that runs. `EscapeSound` says nothing of
what slots hold. `SoundInv`
adds `LocalsDescribed(G)`, for every `G` that witnesses `OneSlotPerPointer`:
a slot that holds a frame address belongs to a register in `lsa`, a register of
`G` holds null or the address of the slot recorded in `lr`, no slot holds the
address of a register of `G`, and `outside` has no frame address. Because every
command of an accepted program passed the checks with the final sets
(`RunsAccepted`, from `OneResult`) and the sets are closed (from
`ClosureCompleteHolds`), each action of the running function keeps it. With
`ImmutableStaysInFrame` the same is done for `imm` (`ImmutablesDescribed`).
`FrameTypeCorrect`, `EscapeAnalysisSound` and `ImmutableAnalysisSound` follow.

`EmbeddingProofs` is for any threads, any number of calls and any depth of
nesting (`ThreadAssumption`: two values are not threads, and differ; `BoundAssumption`:
the bounds are numbers). `SinkIsLive` and the others speak of the innermost call; when
it returns, what is below it becomes innermost, so `EmbeddingInv` speaks of every
frame of every stack. All calls but the innermost run their entry (`OthersRun`);
each frame has diagnostics of its own, no verdict before it ends and the right one
then, and its capture scope was opened when no other was (`FrameOK`); the sink is
that of the innermost frame exactly while it captures (`SinkOfTop`); a compilation
that generates code has met no error (`NoErrorYet`); a last error that is set
belongs to every call on the stack (`NullNoted`). With `LockedOnlyInSetup` for the
mutex that is inductive: an action pushes a frame, replaces the innermost one,
sets a stage, or pops, and one lemma about each of these four serves all actions.
The refinement of `CallContract` (`CallsKeepContract`) maps each step to one of the
contract or a stutter; the stages between the opening of a call and its verdict
are invisible in it (`Seen`, the frame as `Visible` shows it). `TargetsRegistered`
rests on an invariant of its own, `RegistryInv`: registration is done, or no open
call has used the targets. Until it is done no entry runs, so that calls do not
nest, and a call is at most at a stage from which it compiles or fails.

`DriverProofs` is for every set of command lines, file names and extensions
(`FilesAssumption`: an argument is empty, `-`, an option or a name, and a name with
an extension is a name; `StatusAssumption` keeps the status of an executed program
apart from the driver's; `TripleAssumption`: a triple is never mistaken for an
option that was not given). `DriverInv` says what each check of `main` has made
sure of for the phases behind it (`PhaseOK`), where names of files come from
(`OptionsOK`), and that the target is what the options resolve to (`TargetOK`).
The tables of names are taken apart row by row, and with them `ReadBack` shows that
a triple made of the names that `defaultTriple` chooses is read back as the same
architecture and system; `ResolvedHasTriple`, that the exceptions at the end of
`defaultTriple` are unreachable from `compile`.

`BytewiseAccessProofs` is for any store of a word or a structure of two fields and
any load of one to three bytes, whatever the bits in a byte, the addresses, sizes,
values and volatility, and for any command and floating-point format
(`CaseAssumption`: fields do not overlap and are inside the structure, both
accesses are inside the memory, no structure is volatile, and operands are words
of their widths; an element is no larger than the address space, and the limits of
an integer type are numbers of the format). With one byte of 64 bits, or two of 16,
these are the words of the program. The second half shows of the writes of a store that
the last one to an address writes the final byte there (`WritesOfStore`).
`StoreWrites` keeps this for the writes still pending,
whether they go in order or, for a volatile word, in any; `ByteInv` adds what
memory holds where no write is pending, and that a load which met no store has
read everything before it or everything behind it. `LoadsMixStoresHolds` follows.

With `ByteInv` the loaded bytes are digits of a word (`LoadedWord`), and
`ResultsExactHolds` follows from one lemma for each kind of command, which is about
operators and not about states: `BinaryIsExact`, `PointersAreExact`,
`VectorsAreExact`, `MinMaxIsExact` and `ConversionsAreExact`. Their core is that
sums and products of words and of the numbers they stand for differ by multiples
of 2^n (`RingOfWords`); that of all quotients of numbers of one type only that of
the least number and -1 is too large (`QuotientOfSigned`); that the order
of `minnum` is that of `Rank`, but for the zeros (`RankOfFloats`), which the sign
bits decide (`StableZeroIsExtreme`); and that a number is within the limits exactly
when the integers on both its sides are (`ConversionsAreExact`). The provers know 2^n
only as the number of subsets of a set of n elements, from which the first lemmas
take what they need, and reason badly about `%`, which `DivMod` and `DivModUnique`
replace by a quotient and a remainder. The invariant adds to `ResultsExact` that a
value is used when it is whole (`ResultInv`).

`MemoryCopyProofs` is for every number of addresses, lengths, byte and fill
values (`SpaceAssumption`: they are positive). `CopiesAsThroughBuffer` speaks of
the end only. `CopyInv` says what holds in the loop (`PartlyMoved`): the bytes
moved so far are what a buffer would have given them and all others are as
before. The direction matters in the lemma `SourceIntact`: the byte that an
iteration reads has not been overwritten by an earlier one.
`CopyTrapsCleanly` follows from the ranges that `CopyInv` records.
Its type invariant is part of `CopyInv` and proved, and no run repeats it.

`BoundedViewProofs` is for every width of lengths and addresses, element size,
set of operands and literal length (`ViewSpaceAssumption`, `OperandAssumption`,
`NoValueAssumption`). One assumption there is about programs: twice the longest
literal is less than 2^64, as a literal is written out in the text. It is needed because a
negative operand becomes a number of at least half that, which must not be a
length. `ViewInv` adds to the type invariant that each view lies in storage, one past
its end included in the address space, and that no element in storage is at
null or wraps; `ViewsStayInStorage` is a part of it, and `ViewsKeepContract` maps every step to one of `ViewContract`: the
traps of the two agree, because the unsigned comparisons decide `PartOf` and
`IndexOf` of the numbers, and the later null and wrap checks never fire.

`AtomicFloatProofs` is for any number of threads, any patterns, arithmetic and
flushing (`BitsAssumption`, `CallsAssumption`). The seed and a failed exchange
are stutters of `AtomicCell`; a successful one is its `Update`, since the bits
it expected are those in the cell. `TypeOK`, which says that an operand and
expected bits exist where they are used, is the invariant it needs.

`FrontEndProofs` is about two parts that share no state. Its first half is about
the lexer and the walks that locate a diagnostic, for every text: every sequence
of the bytes that the code tells apart, with no assumption. The properties say what the
last token's location is worth; `LexerInvariant` says what the cursor's is. Its
line and column are those of its place, except between CR and LF, where the line is
one ahead; its `utf8ContinuationBytes` are the bytes left of the character
(`CursorExact`); and each iteration ends where a character begins
(`BeginsCharacter`), without which the next token could begin inside one. The
lemma of each scanning loop (`readIdentifierReads`, ..., `IterationReads`) says that
it reads a byte or more and stops at such a place, and `ReadUpToExact` that
`readChar`, byte by byte, keeps the counters exact; `PositionsExactHolds` and
`ReadsOnHolds` follow. `LinesAgreeHolds` needs that the line begins found by
`sourceLineAt` and `printDiagnostics` are the `LineBegins` in their order
(`SourceLines`, `ShownLines`, `LinesFound`). `CaretBelowTokenHolds` needs more:
the driver does not know how many bytes a character has and takes the end of the
line for that of the text, so `CaretWalk` compares it with the lexer character by
character (`ColumnsOfCharacter`: each character of the line is passed in one
step of the driver's walk, and by as many columns of the terminal).

`LineOf`, `ColumnOf` and the walks are recursive functions. That such a function
exists (`RecursionExists`) and what it computes is shown by induction without a
theorem that takes an operator: if a claim about the numbers of an interval fails
somewhere, the set of those where it fails has a least element (`Least`, from
the well-foundedness of `Nat`), and the step refutes it (`IntervalInduction`).

The second half is for any set of structs and fields, and any order of the
starts. `SearchInvariant` says why the search is right: the structs being visited
are the calls on the stack, each a part of the one below (`Chain`), so that a
struct met again closes an endless set; what has been visited is closed under
parts and has no endless set (`VisitedFinite`), and a struct whose parts have all
been visited can join it (`FiniteGrows`). `RecursionRejected` follows. The
theorems are about the search by itself, `SearchSpec`; `FrontEnd` begins it in a
state of `SearchInit`. Recursion is defined without paths, by a set of structs in
which each contains another of the set, which needs no induction.

Model-checked only:

* liveness: `ValidationEnds`, `CallsReturn`, `Ends`, `UpdatesReturn` and
  `FrontEndEnds`;
* `AcceptsLanguage` and `ErrorAtFirstOffence`: the reference grammar is a recursive
  operator, and a module that reaches one cannot be proved about.

## Not modelled, and simplifications

* EscapeAnalysis has no structs, array literals, `memcpy`, address arithmetic,
  or accessors with more than one step, and so no `localAggregateReferences`.
  Globals only appear as what a program assigns to.
* FrameSafety does not tell frame addresses from numbers derived from them, and
  abstracts calls to what a callee can do with its argument.
* Embedding models calls through the C API; a C++ host differs in that
  exceptions reach it. Exceptions thrown by a host function through compiled
  code are left out, as is reading a finished result. LLVM is external: it may
  report anything at the points where it is called.
* MemoryCopy has one thread: other threads that write the ranges meanwhile may
  see and leave any mixture, which the source promises nothing about.
* BoundedView has the views of a function's own literals, and no host that calls
  a PSI function with a view of its own. A stack that is exhausted by literals
  in a loop is outside the source. Padding inside an element is not modelled.
* AtomicFloat has commands whose pointer passed its checks and one cell, accessed
  as a whole. Bytewise accesses of the same cell are left out.
* Lexer leaves out the text of a token and the wording of errors; a form feed is
  like a space. Lines and columns do not overflow. Of the driver's two formats
  for diagnostics the JSON one is left out.
* Parser leaves out the values of literals (ranges, escapes), the positions and
  the ownership of nodes. An index that does not fit an `int` is left out.
* FrontEnd takes functions, globals and constants to be valid, and names not to
  clash with them.
* TargetSelection has the architecture and the operating system of a triple;
  vendor and environment, and LLVM's other spellings, are left out.
* Driver leaves out `-v`, `-O`, `--cpu`, `--features` and `--diagnostic-format`,
  which do not change what it does with files.
* BytewiseAccess has one load and one store, structures of two fields that are
  not structures, and no volatile store of a structure, whose padding LLVM leaves
  open. Arithmetic leaves out operations that are one LLVM instruction defined on
  all operands (bitwise, logical, most vector operations), `#vfma`, and the
  rounding of floats, which LLVM does.
* The components marked `not_modelled` in `PROJECT.json`.

## Plan

1. `FunctionBody`: labels, terminators and initialisation during lowering.
2. Structs and `memcpy` in EscapeAnalysis; the JSON format of diagnostics.
