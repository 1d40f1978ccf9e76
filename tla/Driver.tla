------------------------------- MODULE Driver -------------------------------
(***************************************************************************)
(* The command line driver: parseArguments and main of src/src/main.cpp,   *)
(* around compile and buildJit of compiler.cpp, whose selection of a       *)
(* target is the one of TargetSelection.                                   *)
(*                                                                         *)
(* An argument is <<text, Absent>>, or <<name, value>> for --name=value.   *)
(*                                                                         *)
(* line     the arguments          next     the one to be looked at        *)
(* ended    -- was among them      options  what they have set             *)
(* phase    what main is doing, or "exited", or "killed" at any point      *)
(* source   what was read of the input: "none", "whole", or "part"         *)
(* target   [architecture, system] resolved by compile, in a set           *)
(* triple   the target triple of the result                                *)
(* disk     the content of every file: what was there before ("old"), if   *)
(*          only that there is none, or what this run has put there        *)
(*          ("empty", "cut" off, or "whole")                               *)
(* errors   a message of an error was printed                              *)
(* status   the exit status, Absent before                                 *)
(***************************************************************************)
EXTENDS Naturals, Sequences, TargetSelection

CONSTANTS
  Empty,          \* the empty text
  CommandLines,   \* the sequences of arguments
  Files,          \* the names a path can have
  WithExtension,  \* [name, ".o" or ".ll"] -> the name with that extension
  ProgramStatus,  \* the exit status of a program that ran
  NativeTriple    \* of the machine the driver runs on

VARIABLES line, next, ended, options, phase, source, target, triple,
          disk, errors, status

parsing == <<line, next, ended, options>>
result == <<source, target, triple>>
vars == <<parsing, phase, result, disk, errors, status>>

\* optionSpecs: the field of the options that an option sets, and to what; an
\* option that takes a value has Absent there.
OptionNames ==
  {"-h", "--help", "--version", "--jit", "-c", "--compile", "--emit-llvm", "-o", "--output",
   "--entry", "-target", "--target", "-march", "--arch", "-mos", "--os"}

OptionSpecs ==
  [name \in OptionNames |->
     CASE name \in {"-h", "--help"} -> <<"help", "yes">>
       [] name = "--version" -> <<"version", "yes">>
       [] name = "--jit" -> <<"jit", "yes">>
       [] name \in {"-c", "--compile"} -> <<"mode", "object">>
       [] name = "--emit-llvm" -> <<"mode", "ir">>
       [] name \in {"-o", "--output"} -> <<"output", Absent>>
       [] name = "--entry" -> <<"entry", Absent>>
       [] name \in {"-target", "--target"} -> <<"triple", Absent>>
       [] name \in {"-march", "--arch"} -> <<"arch", Absent>>
       [] name \in {"-mos", "--os"} -> <<"os", Absent>>]

IsName(text) == text \in DOMAIN OptionSpecs
TakesValue(text) == IsName(text) /\ OptionSpecs[text][2] = Absent

\* Other arguments that begin with a dash; "-" alone is not one of them.
Dashed == {"--", "-x"}

IsOption(text) == IsName(text) \/ text \in Dashed

Fields ==
  {"help", "version", "jit", "mode", "input", "output", "entry", "triple", "arch", "os"}

NoOptions == [field \in Fields |-> IF field = "input" THEN Empty ELSE Absent]

\* Files has every path that an argument can stand for: as the value of an
\* option, as the value of --output, and as the input of a default output.
ASSUME FilesAssumption ==
  \A arguments \in CommandLines :
    /\ Len(arguments) \in Nat
    /\ \A i \in 1 .. Len(arguments) :
         LET text == arguments[i][1]
             value == arguments[i][2] IN
         /\ text \in {Empty, "-"} \/ IsOption(text) \/ text \in Files
         /\ text \in {"-o", "--output"} => value \in {Absent, Empty, "-"} \cup Files
         /\ text # Empty => \A extension \in {".o", ".ll"} : WithExtension[<<text, extension>>] \in Files

\* The status of a program stands for all that a program may end with, and is
\* told apart from the driver's own.
ASSUME StatusAssumption == ProgramStatus \notin {0, 1, 2}

\* A triple is never taken for an option that was not given.
ASSUME TripleAssumption ==
  \A architecture \in Architectures, system \in OperatingSystems :
    DefaultTriple(architecture, system) # Absent

Init ==
  /\ line \in CommandLines
  /\ next = 1
  /\ ended = FALSE
  /\ options = NoOptions
  /\ phase = "arguments"
  /\ source = "none"
  /\ target = {}
  /\ triple = Absent
  /\ disk = [f \in Files |-> "old"]
  /\ errors = FALSE
  /\ status = Absent

-----------------------------------------------------------------------------
(* parseArguments.                                                         *)

Exit(code) == phase' = "exited" /\ status' = code

Fail(code) ==
  /\ errors' = TRUE
  /\ Exit(code)

RefuseArguments == Fail(2) /\ UNCHANGED <<parsing, result, disk>>

Advance(by, newOptions) ==
  /\ next' = next + by
  /\ options' = newOptions
  /\ UNCHANGED <<line, ended, phase, result, disk, errors, status>>

\* setConsistent, and what the other options do instead: a second value must be
\* the first one again.
Apply(name, value, by) ==
  LET field == OptionSpecs[name][1] IN
  IF options[field] \in {Absent, value}
  THEN Advance(by, [options EXCEPT ![field] = value])
  ELSE RefuseArguments

AtArgument == phase = "arguments" /\ next <= Len(line)
AtOption == AtArgument /\ ~ended /\ IsOption(line[next][1])

EndOptions ==
  /\ AtOption
  /\ line[next] = <<"--", Absent>>
  /\ ended' = TRUE
  /\ next' = next + 1
  /\ UNCHANGED <<line, options, phase, result, disk, errors, status>>

TakeFlag ==
  /\ AtOption
  /\ IsName(line[next][1]) /\ ~TakesValue(line[next][1])
  /\ line[next][2] = Absent
  /\ Apply(line[next][1], OptionSpecs[line[next][1]][2], 1)

\* requireValue: a value may not be empty or look like an option.
TakeValue ==
  /\ AtOption
  /\ TakesValue(line[next][1])
  /\ line[next][2] = Absent
  /\ IF next = Len(line) \/ line[next + 1][1] = Empty \/ IsOption(line[next + 1][1])
     THEN RefuseArguments
     ELSE Apply(line[next][1], line[next + 1][1], 2)

\* --name=value: only an empty value is refused.
TakeInline ==
  /\ AtOption
  /\ TakesValue(line[next][1])
  /\ line[next][2] # Absent
  /\ IF line[next][2] = Empty THEN RefuseArguments
     ELSE Apply(line[next][1], line[next][2], 1)

\* An unknown option, or a value for an option that takes none.
TakeUnknown ==
  /\ AtOption
  /\ ~TakesValue(line[next][1])
  /\ IsName(line[next][1]) <=> line[next][2] # Absent
  /\ line[next] # <<"--", Absent>>
  /\ RefuseArguments

TakeInput ==
  /\ AtArgument
  /\ ended \/ ~IsOption(line[next][1])
  /\ IF options.input # Empty THEN RefuseArguments
     ELSE Advance(1, [options EXCEPT !.input = line[next][1]])

\* The checks behind the loop, and those of main up to the missing input.  main
\* repeats the first two and never finds them true.
FinishArguments ==
  /\ phase = "arguments" /\ next > Len(line)
  /\ IF \/ options.jit # Absent /\ (options.mode # Absent \/ options.output # Absent)
        \/ options.entry # Absent /\ options.jit = Absent
     THEN RefuseArguments
     ELSE IF options.version # Absent \/ options.help # Absent
     THEN Exit(0) /\ UNCHANGED <<parsing, result, disk, errors>>
     ELSE IF options.input = Empty THEN RefuseArguments
     ELSE /\ phase' = "reading"
          /\ UNCHANGED <<parsing, result, disk, errors, status>>

-----------------------------------------------------------------------------
(* readSource, compile and buildJit.                                       *)

\* The source as it ends up in memory: an input that cannot be opened is an
\* error, one that cannot be read to its end is not noticed.
ReadSource ==
  /\ phase = "reading"
  /\ \/ /\ source' \in {"whole", "part"}
        /\ phase' = IF options.jit = Absent THEN "compiling" ELSE "jit"
        /\ UNCHANGED <<parsing, target, triple, disk, errors, status>>
     \/ /\ options.input # "-"
        /\ Fail(1)
        /\ UNCHANGED <<parsing, result, disk>>

\* buildJit picks a triple before compile does: the one of this machine, or
\* the default of the architecture and system asked for, or none if that fails.
JitTriples ==
  IF options.triple # Absent THEN {options.triple}
  ELSE IF options.arch = Absent /\ options.os = Absent THEN {NativeTriple}
  ELSE {DefaultTriple(t.architecture, t.system) :
          t \in {t \in Resolve(options) : HasDefaultTriple(t.architecture, t.system)}}

\* validateJitSubtarget refuses a triple of another machine; otherwise compile
\* gets the triple together with the names.
ChooseJitTarget ==
  /\ phase = "jit"
  /\ IF JitTriples \subseteq {NativeTriple}
     THEN /\ options' = [options EXCEPT !.triple =
                           IF JitTriples = {} THEN Absent ELSE NativeTriple]
          /\ phase' = "compiling"
          /\ UNCHANGED <<line, next, ended, result, disk, errors, status>>
     ELSE Fail(1) /\ UNCHANGED <<parsing, result, disk>>

\* defaultTriple is asked, and may throw, only if no triple is given.
HasTriple(t) == options.triple # Absent \/ HasDefaultTriple(t.architecture, t.system)

TripleFor(t) == IF options.triple # Absent THEN options.triple
                ELSE DefaultTriple(t.architecture, t.system)

\* Slip: the output is opened before the compilation.
CompileIntoOutput ==
  /\ phase = "compiling"
  /\ target' = Resolve(options)
  /\ disk' = [disk EXCEPT ![IF options.output \in Files THEN options.output ELSE "a.o"] = "empty"]
  /\ \/ /\ \A t \in target' : ~HasTriple(t)
        /\ Fail(1)
        /\ UNCHANGED <<parsing, source, triple>>
     \/ \E t \in target' :
          /\ HasTriple(t)
          /\ triple' = TripleFor(t)
          /\ Fail(1)
          /\ UNCHANGED <<parsing, source>>

\* compile; everything behind the selection of the target may fail too.
Compile ==
  /\ phase = "compiling"
  /\ target' = Resolve(options)
  /\ \/ /\ \A t \in target' : ~HasTriple(t)
        /\ Fail(1)
        /\ UNCHANGED <<parsing, source, triple, disk>>
     \/ \E t \in target' :
          /\ HasTriple(t)
          /\ triple' = TripleFor(t)
          /\ \/ Fail(1)
             \/ /\ phase' = IF options.jit = Absent THEN "open" ELSE "running"
                /\ UNCHANGED <<errors, status>>
          /\ UNCHANGED <<parsing, source, disk>>

\* The entry signature, symbols and the set-up of the JIT may fail; the status
\* of a program that ran is its own.
RunProgram ==
  /\ phase = "running"
  /\ Fail(1) \/ (Exit(ProgramStatus) /\ UNCHANGED errors)
  /\ UNCHANGED <<parsing, result, disk>>

-----------------------------------------------------------------------------
(* writeObject and writeIR.                                                *)

Mode == IF options.mode = "ir" THEN "ir" ELSE "object"

Output == IF options.output # Absent THEN options.output
          ELSE WithExtension[<<options.input, IF Mode = "ir" THEN ".ll" ELSE ".o">>]

ToStdout == options.output = "-"

Put(content) == disk' = [disk EXCEPT ![Output] = content]

\* IR on standard output: a failure ends in status 1 without a message.
WriteStdout ==
  /\ phase = "open" /\ ToStdout /\ Mode = "ir"
  /\ Exit(0) \/ Exit(1)
  /\ UNCHANGED <<parsing, result, disk, errors>>

\* An object cannot go to standard output; a file that opens is empty now.
OpenOutput ==
  /\ phase = "open"
  /\ \/ /\ ~ToStdout
        /\ phase' = "write"
        /\ Put("empty")
        /\ UNCHANGED <<errors, status>>
     \/ /\ ~ToStdout \/ Mode = "object"
        /\ Fail(1)
        /\ UNCHANGED disk
  /\ UNCHANGED <<parsing, result>>

\* Slip: an object file is left to the stream's destructor, like a file of IR.
WriteObjectUnclosed ==
  /\ phase = "write" /\ Mode = "object"
  /\ \/ Put("whole") /\ Exit(0) /\ UNCHANGED errors
     \/ Put("cut") /\ Exit(0) /\ UNCHANGED errors
     \/ Put("cut") /\ Fail(1)
  /\ UNCHANGED <<parsing, result>>

\* The stream is closed before it is asked whether all went well.
WriteObject ==
  /\ phase = "write" /\ Mode = "object"
  /\ \/ Put("whole") /\ Exit(0) /\ UNCHANGED errors
     \/ Put("cut") /\ Fail(1)
  /\ UNCHANGED <<parsing, result>>

\* The stream is asked first, and written out when it is destroyed.
WriteIR ==
  /\ phase = "write" /\ Mode = "ir"
  /\ \/ Put("whole") /\ Exit(0) /\ UNCHANGED errors
     \/ Put("cut") /\ Fail(1)
     \/ Put("cut") /\ Exit(0) /\ UNCHANGED errors
  /\ UNCHANGED <<parsing, result>>

\* The process may be killed at any point.
Kill ==
  /\ phase \notin {"exited", "killed"}
  /\ phase' = "killed"
  /\ UNCHANGED <<parsing, result, disk, errors, status>>

Next ==
  \/ EndOptions \/ TakeFlag \/ TakeValue \/ TakeInline \/ TakeUnknown \/ TakeInput
  \/ FinishArguments \/ ReadSource \/ ChooseJitTarget \/ Compile \/ RunProgram
  \/ WriteStdout \/ OpenOutput \/ WriteObject \/ WriteIR \/ Kill

Spec == Init /\ [][Next]_vars

-----------------------------------------------------------------------------
(* Properties.                                                             *)

(***************************************************************************)
(* Exit status, messages and the object file agree: a run that exits with  *)
(* 0 has printed no error, and if it compiled an object (writeObject asks  *)
(* after the stream is closed) the file has all of it; a run that exits    *)
(* with 1 or 2 has said why.  Two paths of writeIR are left out, see the   *)
(* README: a message is missing on standard output, and a file of IR is    *)
(* not written out when it is asked about.                                 *)
(***************************************************************************)
StatusTellsOutcome ==
  phase = "exited" =>
    /\ status = 0 => ~errors
    /\ status \in {1, 2} /\ ~(ToStdout /\ Mode = "ir") => errors
    /\ status = 0 /\ target # {} /\ Mode = "object" => disk[Output] = "whole"

(***************************************************************************)
(* "failed compilation overwrote an existing output" (tests/cli.py:69): a  *)
(* file that is not as it was before is the output of a run that went on   *)
(* to write all of it, or failed or was killed while it wrote it.  Runs    *)
(* that are refused, that fail to compile, that execute the program or     *)
(* that print to standard output leave every file alone.                   *)
(***************************************************************************)
FilesKept ==
  \A f \in Files :
    disk[f] # "old" =>
      /\ options.jit = Absent /\ ~ToStdout /\ f = Output
      /\ \/ phase \in {"write", "killed"}
         \/ phase = "exited" /\ (status = 0 \/ disk[f] = "cut")

(***************************************************************************)
(* The triple that a compilation reports selects the target again, alone   *)
(* and together with the names that were given (buildJit relies on it, and *)
(* tests/architectures.py:219-224 tries some): no triple of defaultTriple  *)
(* is read back as another profile.                                        *)
(***************************************************************************)
SelectionStable ==
  target # {} =>
    /\ Resolve([arch |-> Absent, os |-> Absent, triple |-> triple]) = target
    /\ Resolve([options EXCEPT !.triple = triple]) = target

\* The profile groups that the usage text lists (main.cpp:169-172).
DocumentedSystems(architecture) ==
  CASE architecture \in {"X86", "X86_64", "ARM", "AArch64"} ->
         {"Linux", "Darwin", "Windows", "FreeStanding"}
    [] architecture \in {"WASM32", "WASM64"} -> {"FreeStanding", "WASI"}
    [] OTHER -> {"Linux", "FreeStanding"}

(***************************************************************************)
(* Without --target, a compilation gets exactly the profiles that the      *)
(* usage text promises: a name of every architecture works with each       *)
(* system of its group, and with no other.                                 *)
(***************************************************************************)
ProfilesDocumented ==
  /\ source # "none" /\ options.jit = Absent /\ options.triple = Absent
  /\ phase \in {"open", "write", "exited"}
  => target = {t \in [architecture : DOMAIN ArchitectureNames,
                      system : DOMAIN OperatingSystemNames] :
                /\ IF options.arch = Absent THEN t.architecture = "X86_64"
                   ELSE options.arch \in ArchitectureNames[t.architecture]
                /\ IF options.os # Absent
                   THEN options.os \in OperatingSystemNames[t.system]
                   ELSE t.system = IF t.architecture \in WebAssembly THEN "FreeStanding"
                                   ELSE "Linux"
                /\ t.system \in DocumentedSystems(t.architecture)}
=============================================================================
