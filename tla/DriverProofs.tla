---------------------------- MODULE DriverProofs ----------------------------
(***************************************************************************)
(* What the driver does to files, what its exit status says, and which     *)
(* target a compilation gets, for every command line and every set of      *)
(* files.                                                                  *)
(*                                                                         *)
(* The argument has two parts.  The tables of TargetSelection are taken    *)
(* apart by their rows: no name and no spelling stands in two of them, and *)
(* what defaultTriple writes is read back as the row it was written for.   *)
(* The steps of main then keep DriverInv: the options are complete when    *)
(* the source is read and do not change behind the choice of the JIT's     *)
(* triple, the target is what they resolve to, and only an output that was *)
(* opened is not as it was.                                                *)
(***************************************************************************)
EXTENDS Driver, TLAPS

-----------------------------------------------------------------------------
(* The tables.                                                             *)

LEMMA ArchitectureNamesRows ==
  /\ DOMAIN ArchitectureNames =
    {"X86", "X86_64", "AArch64", "ARM", "WASM32", "WASM64", "RISCV32", "RISCV64",
     "PPC32", "PPC64", "PPC64LE", "MIPS", "MIPSEL", "MIPS64", "MIPS64EL",
     "LoongArch64", "SystemZ"}
  /\ ArchitectureNames.X86 = {"x86", "i386", "i486", "i586", "i686"}
  /\ ArchitectureNames.X86_64 = {"x86_64", "x86-64", "amd64"}
  /\ ArchitectureNames.AArch64 = {"aarch64", "arm64"}
  /\ ArchitectureNames.ARM = {"arm", "armv7", "armv7a", "thumbv7", "thumbv7a"}
  /\ ArchitectureNames.WASM32 = {"wasm32", "wasm"}
  /\ ArchitectureNames.WASM64 = {"wasm64"}
  /\ ArchitectureNames.RISCV32 = {"riscv32"}
  /\ ArchitectureNames.RISCV64 = {"riscv64"}
  /\ ArchitectureNames.PPC32 = {"ppc", "powerpc"}
  /\ ArchitectureNames.PPC64 = {"ppc64", "powerpc64"}
  /\ ArchitectureNames.PPC64LE = {"ppc64le", "powerpc64le"}
  /\ ArchitectureNames.MIPS = {"mips"}
  /\ ArchitectureNames.MIPSEL = {"mipsel"}
  /\ ArchitectureNames.MIPS64 = {"mips64"}
  /\ ArchitectureNames.MIPS64EL = {"mips64el"}
  /\ ArchitectureNames.LoongArch64 = {"loongarch64"}
  /\ ArchitectureNames.SystemZ = {"s390x", "systemz"}
BY DEF ArchitectureNames

LEMMA ArchitectureOfName ==
  ASSUME NEW a \in DOMAIN ArchitectureNames, NEW b \in DOMAIN ArchitectureNames,
         NEW x \in ArchitectureNames[a], x \in ArchitectureNames[b]
  PROVE  a = b
<1> DEFINE Row(row) ==
      \/ row = "X86" /\ x \in {"x86", "i386", "i486", "i586", "i686"}
      \/ row = "X86_64" /\ x \in {"x86_64", "x86-64", "amd64"}
      \/ row = "AArch64" /\ x \in {"aarch64", "arm64"}
      \/ row = "ARM" /\ x \in {"arm", "armv7", "armv7a", "thumbv7", "thumbv7a"}
      \/ row = "WASM32" /\ x \in {"wasm32", "wasm"}
      \/ row = "WASM64" /\ x \in {"wasm64"}
      \/ row = "RISCV32" /\ x \in {"riscv32"}
      \/ row = "RISCV64" /\ x \in {"riscv64"}
      \/ row = "PPC32" /\ x \in {"ppc", "powerpc"}
      \/ row = "PPC64" /\ x \in {"ppc64", "powerpc64"}
      \/ row = "PPC64LE" /\ x \in {"ppc64le", "powerpc64le"}
      \/ row = "MIPS" /\ x \in {"mips"}
      \/ row = "MIPSEL" /\ x \in {"mipsel"}
      \/ row = "MIPS64" /\ x \in {"mips64"}
      \/ row = "MIPS64EL" /\ x \in {"mips64el"}
      \/ row = "LoongArch64" /\ x \in {"loongarch64"}
      \/ row = "SystemZ" /\ x \in {"s390x", "systemz"}
<1>1. \A row \in DOMAIN ArchitectureNames : x \in ArchitectureNames[row] => Row(row)
  BY ArchitectureNamesRows
<1>2. Row(a) /\ Row(b)
  BY <1>1
<1> QED
  BY <1>2

LEMMA OperatingSystemNamesRows ==
  /\ DOMAIN OperatingSystemNames =
    {"Linux", "Darwin", "Windows", "WASI", "FreeStanding"}
  /\ OperatingSystemNames.Linux = {"linux"}
  /\ OperatingSystemNames.Darwin = {"darwin", "macos", "macosx"}
  /\ OperatingSystemNames.Windows = {"windows", "win32"}
  /\ OperatingSystemNames.WASI = {"wasi"}
  /\ OperatingSystemNames.FreeStanding = {"none", "freestanding", "bare-metal"}
BY DEF OperatingSystemNames

LEMMA SystemOfName ==
  ASSUME NEW a \in DOMAIN OperatingSystemNames, NEW b \in DOMAIN OperatingSystemNames,
         NEW x \in OperatingSystemNames[a], x \in OperatingSystemNames[b]
  PROVE  a = b
<1> DEFINE Row(row) ==
      \/ row = "Linux" /\ x \in {"linux"}
      \/ row = "Darwin" /\ x \in {"darwin", "macos", "macosx"}
      \/ row = "Windows" /\ x \in {"windows", "win32"}
      \/ row = "WASI" /\ x \in {"wasi"}
      \/ row = "FreeStanding" /\ x \in {"none", "freestanding", "bare-metal"}
<1>1. \A row \in DOMAIN OperatingSystemNames : x \in OperatingSystemNames[row] => Row(row)
  BY OperatingSystemNamesRows
<1>2. Row(a) /\ Row(b)
  BY <1>1
<1> QED
  BY <1>2

LEMMA LLVMSpellingsRows ==
  /\ DOMAIN LLVMSpellings =
    {"X86", "X86_64", "AArch64", "ARM", "WASM32", "WASM64", "RISCV32", "RISCV64",
     "PPC32", "PPC64", "PPC64LE", "MIPS", "MIPSEL", "MIPS64", "MIPS64EL",
     "LoongArch64", "SystemZ", "LLVMGeneric"}
  /\ LLVMSpellings.X86 = {"i386", "i686"}
  /\ LLVMSpellings.X86_64 = {"x86_64"}
  /\ LLVMSpellings.AArch64 = {"aarch64", "arm64"}
  /\ LLVMSpellings.ARM = {"armv7", "thumbv7"}
  /\ LLVMSpellings.WASM32 = {"wasm32"}
  /\ LLVMSpellings.WASM64 = {"wasm64"}
  /\ LLVMSpellings.RISCV32 = {"riscv32"}
  /\ LLVMSpellings.RISCV64 = {"riscv64"}
  /\ LLVMSpellings.PPC32 = {"powerpc"}
  /\ LLVMSpellings.PPC64 = {"powerpc64"}
  /\ LLVMSpellings.PPC64LE = {"powerpc64le"}
  /\ LLVMSpellings.MIPS = {"mips"}
  /\ LLVMSpellings.MIPSEL = {"mipsel"}
  /\ LLVMSpellings.MIPS64 = {"mips64"}
  /\ LLVMSpellings.MIPS64EL = {"mips64el"}
  /\ LLVMSpellings.LoongArch64 = {"loongarch64"}
  /\ LLVMSpellings.SystemZ = {"s390x"}
  /\ LLVMSpellings.LLVMGeneric = {"sparc"}
BY DEF LLVMSpellings

LEMMA ArchitectureOfSpelling ==
  ASSUME NEW a \in DOMAIN LLVMSpellings, NEW b \in DOMAIN LLVMSpellings,
         NEW x \in LLVMSpellings[a], x \in LLVMSpellings[b]
  PROVE  a = b
<1> DEFINE Row(row) ==
      \/ row = "X86" /\ x \in {"i386", "i686"}
      \/ row = "X86_64" /\ x \in {"x86_64"}
      \/ row = "AArch64" /\ x \in {"aarch64", "arm64"}
      \/ row = "ARM" /\ x \in {"armv7", "thumbv7"}
      \/ row = "WASM32" /\ x \in {"wasm32"}
      \/ row = "WASM64" /\ x \in {"wasm64"}
      \/ row = "RISCV32" /\ x \in {"riscv32"}
      \/ row = "RISCV64" /\ x \in {"riscv64"}
      \/ row = "PPC32" /\ x \in {"powerpc"}
      \/ row = "PPC64" /\ x \in {"powerpc64"}
      \/ row = "PPC64LE" /\ x \in {"powerpc64le"}
      \/ row = "MIPS" /\ x \in {"mips"}
      \/ row = "MIPSEL" /\ x \in {"mipsel"}
      \/ row = "MIPS64" /\ x \in {"mips64"}
      \/ row = "MIPS64EL" /\ x \in {"mips64el"}
      \/ row = "LoongArch64" /\ x \in {"loongarch64"}
      \/ row = "SystemZ" /\ x \in {"s390x"}
      \/ row = "LLVMGeneric" /\ x \in {"sparc"}
<1>1. \A row \in DOMAIN LLVMSpellings : x \in LLVMSpellings[row] => Row(row)
  BY LLVMSpellingsRows
<1>2. Row(a) /\ Row(b)
  BY <1>1
<1> QED
  BY <1>2

LEMMA LLVMSystemsRows ==
  /\ DOMAIN LLVMSystems =
    {"Linux", "Darwin", "Windows", "WASI", "FreeStanding", "TargetSpecific"}
  /\ LLVMSystems.Linux = {"linux"}
  /\ LLVMSystems.Darwin = {"macosx", "ios"}
  /\ LLVMSystems.Windows = {"windows"}
  /\ LLVMSystems.WASI = {"wasi"}
  /\ LLVMSystems.FreeStanding = {"none", "unknown"}
  /\ LLVMSystems.TargetSpecific = {"freebsd"}
BY DEF LLVMSystems

LEMMA SystemOfSpelling ==
  ASSUME NEW a \in DOMAIN LLVMSystems, NEW b \in DOMAIN LLVMSystems,
         NEW x \in LLVMSystems[a], x \in LLVMSystems[b]
  PROVE  a = b
<1> DEFINE Row(row) ==
      \/ row = "Linux" /\ x \in {"linux"}
      \/ row = "Darwin" /\ x \in {"macosx", "ios"}
      \/ row = "Windows" /\ x \in {"windows"}
      \/ row = "WASI" /\ x \in {"wasi"}
      \/ row = "FreeStanding" /\ x \in {"none", "unknown"}
      \/ row = "TargetSpecific" /\ x \in {"freebsd"}
<1>1. \A row \in DOMAIN LLVMSystems : x \in LLVMSystems[row] => Row(row)
  BY LLVMSystemsRows
<1>2. Row(a) /\ Row(b)
  BY <1>1
<1> QED
  BY <1>2

-----------------------------------------------------------------------------
(* Target triples and the selection.                                       *)

\* Every architecture that has names has a spelling of its own.
LEMMA SpelledAsItself ==
  ASSUME NEW a \in DOMAIN ArchitectureNames, NEW s \in OperatingSystems,
         HasDefaultTriple(a, s)
  PROVE  DefaultSpelling(a, s) \in LLVMSpellings[a]
<1>1. a \in DOMAIN LLVMSpellings /\ LLVMSpellings[a] # {}
  BY ArchitectureNamesRows, LLVMSpellingsRows
<1>2. CASE a = "X86"
  BY <1>2, LLVMSpellingsRows DEF DefaultSpelling
<1>3. CASE a = "ARM"
  BY <1>3, LLVMSpellingsRows DEF DefaultSpelling
<1>4. CASE a = "AArch64"
  BY <1>4, LLVMSpellingsRows DEF DefaultSpelling
<1>5. CASE a \notin {"X86", "ARM", "AArch64"}
  <2>1. DefaultSpelling(a, s) = CHOOSE spelling \in LLVMSpellings[a] : TRUE
    BY <1>5 DEF DefaultSpelling
  <2> QED
    BY <1>1, <2>1
<1> QED
  BY <1>2, <1>3, <1>4, <1>5

LEMMA SystemWrittenAsItself ==
  ASSUME NEW a, NEW s \in OperatingSystems, HasDefaultTriple(a, s)
  PROVE  DefaultSystem(a, s) \in LLVMSystems[s]
<1>1. s \in {"Linux", "Darwin", "Windows", "WASI", "FreeStanding"}
  BY OperatingSystemNamesRows DEF HasDefaultTriple, OperatingSystems
<1> QED
  BY <1>1, LLVMSystemsRows DEF DefaultSystem

\* What defaultTriple writes is read as the pair it was written for.
LEMMA ReadBack ==
  ASSUME NEW a \in DOMAIN ArchitectureNames, NEW s \in OperatingSystems,
         HasDefaultTriple(a, s)
  PROVE  a \in TripleArchitecture(DefaultTriple(a, s)) /\ s \in TripleSystem(DefaultTriple(a, s))
BY SpelledAsItself, SystemWrittenAsItself
   DEF DefaultTriple, TripleArchitecture, TripleSystem, Architectures

\* A triple names one architecture and one system at most.
LEMMA OneArchitecture ==
  ASSUME NEW t, NEW a \in TripleArchitecture(t), NEW b \in TripleArchitecture(t)
  PROVE  a = b
<1>1. Architectures = DOMAIN LLVMSpellings
  BY ArchitectureNamesRows, LLVMSpellingsRows DEF Architectures
<1> QED
  BY <1>1, ArchitectureOfSpelling DEF TripleArchitecture

LEMMA OneSystem ==
  ASSUME NEW t, NEW s \in TripleSystem(t), NEW u \in TripleSystem(t)
  PROVE  s = u
<1>1. OperatingSystems = DOMAIN LLVMSystems
  BY OperatingSystemNamesRows, LLVMSystemsRows DEF OperatingSystems
<1> QED
  BY <1>1, SystemOfSpelling DEF TripleSystem

\* A request selects one target at most.
LEMMA OneTarget ==
  ASSUME NEW request, NEW t \in Resolve(request), NEW u \in Resolve(request)
  PROVE  t = u
<1>1. /\ t \in [architecture : PickArchitecture(request), system : OperatingSystems]
      /\ u \in [architecture : PickArchitecture(request), system : OperatingSystems]
      /\ t.system \in PickOperatingSystem(request, t.architecture)
      /\ u.system \in PickOperatingSystem(request, u.architecture)
  BY DEF Resolve
<1>2. t.architecture \in PickArchitecture(request) /\ u.architecture \in PickArchitecture(request)
  BY <1>1
<1>3. t.architecture = u.architecture
  BY <1>2, OneArchitecture, ArchitectureOfName DEF PickArchitecture
<1>4. t.system = u.system
  BY <1>1, <1>3, OneSystem, SystemOfName DEF PickOperatingSystem
<1> QED
  BY <1>1, <1>3, <1>4

\* Without a triple nothing is resolved that has no default triple: the
\* exceptions of defaultTriple are out of reach of a compilation.
LEMMA ResolvedHasTriple ==
  ASSUME NEW request, request.triple = Absent, NEW t \in Resolve(request)
  PROVE  /\ t.architecture \in DOMAIN ArchitectureNames
         /\ t.system \in DOMAIN OperatingSystemNames
         /\ HasDefaultTriple(t.architecture, t.system)
<1>1. /\ t.architecture \in Architectures
      /\ t.system \in OperatingSystems
      /\ ValidPair(t.architecture, t.system, FALSE)
  BY DEF Resolve, PickArchitecture
<1>2. t.architecture \in DOMAIN ArchitectureNames \cup {"LLVMGeneric"}
  BY <1>1 DEF Architectures
<1>3. t.system \in {"Linux", "Darwin", "Windows", "WASI", "FreeStanding", "TargetSpecific"}
  BY <1>1, OperatingSystemNamesRows DEF OperatingSystems
<1>4. CASE t.architecture \in WebAssembly
  <2>1. t.architecture \notin LinuxOrFreestanding /\ t.architecture \in DOMAIN ArchitectureNames
    BY <1>4, ArchitectureNamesRows DEF LinuxOrFreestanding, WebAssembly
  <2> QED
    BY <1>1, <1>4, <2>1, OperatingSystemNamesRows DEF ValidPair, HasDefaultTriple
<1>5. CASE t.architecture \in LinuxOrFreestanding
  <2>1. t.architecture \notin WebAssembly /\ t.architecture \in DOMAIN ArchitectureNames
    BY <1>5 DEF LinuxOrFreestanding
  <2>2. t.system \in {"Linux", "FreeStanding"}
    BY <1>1, <1>5, <2>1 DEF ValidPair
  <2> QED
    BY <1>5, <2>1, <2>2, OperatingSystemNamesRows DEF HasDefaultTriple
<1>6. CASE t.architecture \notin WebAssembly \cup LinuxOrFreestanding
  <2>1. /\ t.architecture # "LLVMGeneric"
        /\ t.system \in {"Linux", "Darwin", "Windows", "FreeStanding"}
    BY <1>1, <1>3, <1>6 DEF ValidPair
  <2>2. t.architecture \in GeneralPurpose
    BY <1>2, <1>6, <2>1 DEF LinuxOrFreestanding
  <2> QED
    BY <1>2, <1>6, <2>1, <2>2, OperatingSystemNamesRows DEF HasDefaultTriple
<1> QED
  BY <1>4, <1>5, <1>6

\* A triple that names a resolved pair selects it again, with the names that
\* were given or without any.
LEMMA SelectedAgain ==
  ASSUME NEW request, NEW t \in Resolve(request), NEW again,
         again.triple # Absent,
         again.arch \in {Absent, request.arch}, again.os \in {Absent, request.os},
         t.architecture \in TripleArchitecture(again.triple),
         t.system \in TripleSystem(again.triple)
  PROVE  Resolve(again) = {t}
<1>1. /\ t \in [architecture : PickArchitecture(request), system : OperatingSystems]
      /\ t.architecture \in PickArchitecture(request)
      /\ t.system \in PickOperatingSystem(request, t.architecture)
      /\ ValidPair(t.architecture, t.system, request.triple # Absent)
  BY DEF Resolve
<1>2. t.architecture \in PickArchitecture(again)
  BY <1>1 DEF PickArchitecture
<1>3. t.system \in PickOperatingSystem(again, t.architecture)
  BY <1>1 DEF PickOperatingSystem
<1>4. ValidPair(t.architecture, t.system, again.triple # Absent)
  BY <1>1 DEF ValidPair
<1>5. t \in [architecture : PickArchitecture(again), system : OperatingSystems]
  BY <1>1, <1>2
<1>6. t \in Resolve(again)
  BY <1>3, <1>4, <1>5 DEF Resolve
<1> QED
  BY <1>6, OneTarget

-----------------------------------------------------------------------------
(* The inductive invariant.                                                *)

Phases ==
  {"arguments", "reading", "jit", "compiling", "running", "open", "write", "exited", "killed"}

ArgumentsOK ==
  /\ line \in CommandLines
  /\ next \in Nat \ {0}

\* What the options name as a path is one of Files.
OptionsOK ==
  /\ DOMAIN options = Fields
  /\ options.output \in {Absent, "-"} \cup Files
  /\ options.input # Empty =>
       \A extension \in {".o", ".ll"} : WithExtension[<<options.input, extension>>] \in Files

\* What the checks before a phase have made sure of.
PhaseOK ==
  /\ phase \in Phases
  /\ phase \in {"arguments", "reading"} => source = "none"
  /\ phase \notin {"arguments", "exited", "killed"} => options.input # Empty
  /\ phase = "jit" => options.jit # Absent
  /\ phase \in {"open", "write"} => options.jit = Absent
  /\ phase = "write" => ~ToStdout
  /\ phase \notin {"exited", "killed"} => ~errors

\* The target is what the options resolve to, once it is anything.
TargetOK ==
  /\ phase \in {"arguments", "reading", "jit", "compiling"} => target = {}
  /\ target # {} => /\ target = Resolve(options)
                    /\ \E t \in target : HasTriple(t) /\ triple = TripleFor(t)
  /\ \/ phase \in {"running", "open", "write"}
     \/ phase = "exited" /\ source # "none" /\ options.jit = Absent
     => target = Resolve(options)

DriverInv ==
  /\ ArgumentsOK
  /\ OptionsOK
  /\ PhaseOK
  /\ TargetOK
  /\ DOMAIN disk = Files
  /\ FilesKept
  /\ StatusTellsOutcome

LEMMA TableOfOptions ==
  /\ DOMAIN OptionSpecs = OptionNames
  /\ \A name \in OptionNames :
       /\ OptionSpecs[name][1] \in Fields \ {"input"}
       /\ OptionSpecs[name][1] = "output" =>
            name \in {"-o", "--output"} /\ OptionSpecs[name][2] = Absent
BY DEF OptionSpecs, OptionNames, Fields

\* No file is touched before the output is opened.
LEMMA Untouched ==
  ASSUME FilesKept, phase \notin {"write", "exited", "killed"}
  PROVE  \A f \in Files : disk[f] = "old"
BY DEF FilesKept

\* The output is one of Files, or standard output.
LEMMA OutputIsFile ==
  ASSUME OptionsOK, options.input # Empty, ~ToStdout
  PROVE  Output \in Files
BY DEF OptionsOK, Output, ToStdout

-----------------------------------------------------------------------------
(* The arguments.                                                          *)

\* An argument leaves everything else alone, or ends the run.
ArgumentStep ==
  /\ phase = "arguments"
  /\ UNCHANGED <<line, result, disk>>
  /\ next' \in Nat \ {0}
  /\ \/ UNCHANGED <<phase, errors, status>>
     \/ phase' = "exited" /\ errors' /\ status' = 2 /\ UNCHANGED options

LEMMA RefusedStep ==
  ASSUME ArgumentsOK, OptionsOK, phase = "arguments", RefuseArguments
  PROVE  ArgumentStep /\ OptionsOK'
<1>1. ArgumentStep
  BY DEF ArgumentStep, ArgumentsOK, RefuseArguments, Fail, Exit, parsing
<1>2. OptionsOK'
  BY DEF OptionsOK, RefuseArguments, parsing
<1> QED
  BY <1>1, <1>2

LEMMA AppliedStep ==
  ASSUME ArgumentsOK, OptionsOK, phase = "arguments",
         NEW name \in OptionNames, NEW value, NEW by \in {1, 2}, Apply(name, value, by),
         OptionSpecs[name][1] = "output" => value \in {Absent, "-"} \cup Files
  PROVE  ArgumentStep /\ OptionsOK'
<1> DEFINE field == OptionSpecs[name][1]
<1>1. field \in Fields \ {"input"}
  BY TableOfOptions
<1>2. CASE options[field] \in {Absent, value}
  <2>1. Advance(by, [options EXCEPT ![field] = value])
    BY <1>2 DEF Apply
  <2>2. options' = [options EXCEPT ![field] = value] /\ next' = next + by
    BY <2>1 DEF Advance
  <2>3. ArgumentStep
    BY <2>1, <2>2 DEF Advance, ArgumentStep, ArgumentsOK
  <2>4. /\ DOMAIN options' = Fields
        /\ options'.input = options.input
        /\ options'.output \in {Absent, "-"} \cup Files
    BY <1>1, <2>2 DEF OptionsOK, Fields
  <2>5. OptionsOK'
    BY <2>4 DEF OptionsOK
  <2> QED
    BY <2>3, <2>5
<1>3. CASE options[field] \notin {Absent, value}
  BY <1>3, RefusedStep DEF Apply
<1> QED
  BY <1>2, <1>3

\* The assumption on the arguments, for the one that is looked at.
LEMMA ArgumentsAt ==
  ASSUME ArgumentsOK, NEW i \in 1 .. Len(line)
  PROVE  /\ line[i][1] \in {Empty, "-"} \/ IsOption(line[i][1]) \/ line[i][1] \in Files
         /\ line[i][1] \in {"-o", "--output"} =>
              line[i][2] \in {Absent, Empty, "-"} \cup Files
         /\ line[i][1] # Empty =>
              \A extension \in {".o", ".ll"} : WithExtension[<<line[i][1], extension>>] \in Files
BY FilesAssumption DEF ArgumentsOK

LEMMA AtArgumentIndex ==
  ASSUME ArgumentsOK, AtArgument
  PROVE  /\ phase = "arguments"
         /\ Len(line) \in Nat /\ next \in 1 .. Len(line)
         /\ next # Len(line) => next + 1 \in 1 .. Len(line)
<1>1. Len(line) \in Nat
  BY FilesAssumption, Zenon DEF ArgumentsOK
<1> QED
  BY <1>1 DEF ArgumentsOK, AtArgument

ReadArgument ==
  EndOptions \/ TakeFlag \/ TakeValue \/ TakeInline \/ TakeUnknown \/ TakeInput

LEMMA ReadArgumentStep ==
  ASSUME ArgumentsOK, OptionsOK, ReadArgument
  PROVE  ArgumentStep /\ OptionsOK'
<1>1. AtArgument
  BY DEF ReadArgument, EndOptions, TakeFlag, TakeValue, TakeInline, TakeUnknown, TakeInput,
         AtOption
<1>2. phase = "arguments" /\ next \in 1 .. Len(line)
  BY <1>1, AtArgumentIndex
<1>3. CASE EndOptions
  <2>1. ArgumentStep
    BY <1>2, <1>3 DEF EndOptions, ArgumentStep, ArgumentsOK
  <2>2. OptionsOK'
    BY <1>3 DEF EndOptions, OptionsOK
  <2> QED
    BY <2>1, <2>2
<1>4. CASE TakeFlag
  <2>1. /\ line[next][1] \in OptionNames
        /\ OptionSpecs[line[next][1]][1] # "output"
        /\ Apply(line[next][1], OptionSpecs[line[next][1]][2], 1)
    BY <1>4, TableOfOptions DEF TakeFlag, IsName, TakesValue
  <2> QED
    BY <1>2, <2>1, AppliedStep
<1>5. CASE TakeValue
  <2>1. line[next][1] \in OptionNames
    BY <1>5, TableOfOptions DEF TakeValue, IsName, TakesValue
  <2>2. CASE next = Len(line) \/ line[next + 1][1] = Empty \/ IsOption(line[next + 1][1])
    BY <1>2, <1>5, <2>2, RefusedStep DEF TakeValue
  <2>3. CASE ~(next = Len(line) \/ line[next + 1][1] = Empty \/ IsOption(line[next + 1][1]))
    <3>1. Apply(line[next][1], line[next + 1][1], 2)
      BY <1>5, <2>3 DEF TakeValue
    <3>2. next + 1 \in 1 .. Len(line)
      BY <1>1, <2>3, AtArgumentIndex
    <3>3. line[next + 1][1] \in {"-"} \cup Files
      BY <2>3, <3>2, ArgumentsAt
    <3> QED
      BY <1>2, <2>1, <3>1, <3>3, AppliedStep
  <2> QED
    BY <2>2, <2>3
<1>6. CASE TakeInline
  <2>1. line[next][1] \in OptionNames
    BY <1>6, TableOfOptions DEF TakeInline, IsName, TakesValue
  <2>2. CASE line[next][2] = Empty
    BY <1>2, <1>6, <2>2, RefusedStep DEF TakeInline
  <2>3. CASE line[next][2] # Empty
    <3>1. Apply(line[next][1], line[next][2], 1)
      BY <1>6, <2>3 DEF TakeInline
    <3>2. OptionSpecs[line[next][1]][1] = "output" => line[next][2] \in {Absent, "-"} \cup Files
      BY <1>2, <2>1, <2>3, ArgumentsAt, TableOfOptions
    <3> QED
      BY <1>2, <2>1, <3>1, <3>2, AppliedStep
  <2> QED
    BY <2>2, <2>3
<1>7. CASE TakeUnknown
  BY <1>2, <1>7, RefusedStep DEF TakeUnknown
<1>8. CASE TakeInput
  <2>1. CASE options.input # Empty
    BY <1>2, <1>8, <2>1, RefusedStep DEF TakeInput
  <2>2. CASE options.input = Empty
    <3>1. Advance(1, [options EXCEPT !.input = line[next][1]])
      BY <1>8, <2>2 DEF TakeInput
    <3>2. options' = [options EXCEPT !.input = line[next][1]] /\ next' = next + 1
      BY <3>1 DEF Advance
    <3>3. ArgumentStep
      BY <1>2, <3>1, <3>2 DEF Advance, ArgumentStep, ArgumentsOK
    <3>4. /\ DOMAIN options' = Fields
          /\ options'.input = line[next][1]
          /\ options'.output = options.output
      BY <3>2 DEF OptionsOK, Fields
    <3>5. OptionsOK'
      BY <1>2, <3>4, ArgumentsAt DEF OptionsOK
    <3> QED
      BY <3>3, <3>5
  <2> QED
    BY <2>1, <2>2
<1> QED
  BY <1>3, <1>4, <1>5, <1>6, <1>7, <1>8 DEF ReadArgument

-----------------------------------------------------------------------------
(* The steps.                                                              *)

LEMMA InitInv == Init => DriverInv
<1> SUFFICES ASSUME Init PROVE DriverInv
  OBVIOUS
<1>1. ArgumentsOK
  BY DEF Init, ArgumentsOK
<1>2. OptionsOK
  BY DEF Init, OptionsOK, NoOptions, Fields
<1>3. PhaseOK /\ TargetOK
  BY DEF Init, PhaseOK, TargetOK, Phases
<1>4. DOMAIN disk = Files /\ FilesKept /\ StatusTellsOutcome
  BY DEF Init, FilesKept, StatusTellsOutcome
<1> QED
  BY <1>1, <1>2, <1>3, <1>4 DEF DriverInv

LEMMA ArgumentsInv ==
  ASSUME DriverInv, ReadArgument
  PROVE  DriverInv'
<1>1. ArgumentStep /\ OptionsOK'
  BY ReadArgumentStep DEF DriverInv
<1>2. ArgumentsOK'
  BY <1>1 DEF DriverInv, ArgumentStep, ArgumentsOK
<1>3. source = "none" /\ target = {} /\ \A f \in Files : disk[f] = "old"
  BY <1>1, Untouched DEF DriverInv, ArgumentStep, PhaseOK, TargetOK
<1>4. UNCHANGED <<source, target, triple, disk>> /\ phase' \in {"arguments", "exited"}
  BY <1>1 DEF ArgumentStep, result
<1>5. PhaseOK'
  BY <1>1, <1>3, <1>4 DEF DriverInv, ArgumentStep, PhaseOK, Phases
<1>6. TargetOK'
  BY <1>3, <1>4 DEF TargetOK
<1>7. DOMAIN disk' = Files /\ FilesKept'
  BY <1>3, <1>4 DEF DriverInv, FilesKept
<1>8. StatusTellsOutcome'
  BY <1>1, <1>3, <1>4 DEF ArgumentStep, StatusTellsOutcome
<1> QED
  BY <1>1, <1>2, <1>5, <1>6, <1>7, <1>8 DEF DriverInv

\* From here on the options stand, but for the triple of a JIT.
LEMMA SameOptions ==
  ASSUME UNCHANGED options
  PROVE  UNCHANGED <<ToStdout, Mode, Output>>
BY DEF ToStdout, Mode, Output

LEMMA FinishInv ==
  ASSUME DriverInv, FinishArguments
  PROVE  DriverInv'
<1>1. /\ phase = "arguments" /\ source = "none" /\ target = {} /\ ~errors
      /\ \A f \in Files : disk[f] = "old"
  BY Untouched DEF DriverInv, FinishArguments, PhaseOK, TargetOK
<1>2. UNCHANGED <<line, next, options, source, target, triple, disk>>
  BY DEF FinishArguments, RefuseArguments, Fail, Exit, parsing, result
<1>3. \/ phase' = "exited" /\ status' = 2 /\ errors'
      \/ phase' = "exited" /\ status' = 0 /\ ~errors'
      \/ phase' = "reading" /\ options.input # Empty /\ ~errors'
  BY <1>1 DEF FinishArguments, RefuseArguments, Fail, Exit
<1>4. ArgumentsOK' /\ OptionsOK'
  BY <1>2 DEF DriverInv, ArgumentsOK, OptionsOK
<1>5. PhaseOK' /\ TargetOK'
  BY <1>1, <1>2, <1>3 DEF PhaseOK, TargetOK, Phases
<1>6. DOMAIN disk' = Files /\ FilesKept'
  BY <1>1, <1>2 DEF DriverInv, FilesKept
<1>7. StatusTellsOutcome'
  BY <1>1, <1>2, <1>3 DEF StatusTellsOutcome
<1> QED
  BY <1>4, <1>5, <1>6, <1>7 DEF DriverInv

LEMMA ReadSourceInv ==
  ASSUME DriverInv, ReadSource
  PROVE  DriverInv'
<1>1. /\ phase = "reading" /\ source = "none" /\ target = {} /\ ~errors
      /\ options.input # Empty
      /\ \A f \in Files : disk[f] = "old"
  BY Untouched DEF DriverInv, ReadSource, PhaseOK, TargetOK
<1>2. UNCHANGED <<line, next, options, target, triple, disk>>
  BY DEF ReadSource, Fail, Exit, parsing, result
<1>3. \/ phase' = "compiling" /\ ~errors'
      \/ phase' = "jit" /\ options.jit # Absent /\ ~errors'
      \/ phase' = "exited" /\ status' = 1 /\ errors' /\ source' = "none"
  BY <1>1 DEF ReadSource, Fail, Exit, result
<1>4. ArgumentsOK' /\ OptionsOK'
  BY <1>2 DEF DriverInv, ArgumentsOK, OptionsOK
<1>5. PhaseOK' /\ TargetOK'
  BY <1>1, <1>2, <1>3 DEF PhaseOK, TargetOK, Phases
<1>6. DOMAIN disk' = Files /\ FilesKept'
  BY <1>1, <1>2 DEF DriverInv, FilesKept
<1>7. StatusTellsOutcome'
  BY <1>3 DEF StatusTellsOutcome
<1> QED
  BY <1>4, <1>5, <1>6, <1>7 DEF DriverInv

LEMMA ChooseInv ==
  ASSUME DriverInv, ChooseJitTarget
  PROVE  DriverInv'
<1>1. /\ phase = "jit" /\ target = {} /\ ~errors
      /\ options.input # Empty /\ options.jit # Absent
      /\ \A f \in Files : disk[f] = "old"
  BY Untouched DEF DriverInv, ChooseJitTarget, PhaseOK, TargetOK
<1>2. UNCHANGED <<line, next, source, target, triple, disk>>
  BY DEF ChooseJitTarget, Fail, Exit, parsing, result
<1>3. \/ phase' = "compiling" /\ ~errors'
      \/ phase' = "exited" /\ status' = 1 /\ errors'
  BY <1>1 DEF ChooseJitTarget, Fail, Exit
<1>4. /\ DOMAIN options' = Fields
      /\ options'.input = options.input /\ options'.output = options.output
      /\ options'.jit = options.jit
  BY DEF DriverInv, OptionsOK, ChooseJitTarget, Fields, parsing
<1>5. ArgumentsOK' /\ OptionsOK'
  BY <1>2, <1>4 DEF DriverInv, ArgumentsOK, OptionsOK
<1>6. PhaseOK' /\ TargetOK'
  BY <1>1, <1>2, <1>3, <1>4 DEF PhaseOK, TargetOK, Phases
<1>7. DOMAIN disk' = Files /\ FilesKept'
  BY <1>1, <1>2 DEF DriverInv, FilesKept
<1>8. StatusTellsOutcome'
  BY <1>3 DEF StatusTellsOutcome
<1> QED
  BY <1>5, <1>6, <1>7, <1>8 DEF DriverInv

\* compile throws for want of a triple only if it has no target.
LEMMA CompileInv ==
  ASSUME DriverInv, Compile
  PROVE  DriverInv'
<1>1. /\ phase = "compiling" /\ ~errors /\ options.input # Empty
      /\ \A f \in Files : disk[f] = "old"
  BY Untouched DEF DriverInv, Compile, PhaseOK
<1>2. UNCHANGED <<line, next, options, source, disk>> /\ target' = Resolve(options)
  BY DEF Compile, Fail, parsing
<1>3. \/ phase' = "open" /\ options.jit = Absent /\ ~errors'
      \/ phase' = "running" /\ ~errors'
      \/ phase' = "exited" /\ status' = 1 /\ errors'
  BY <1>1 DEF Compile, Fail, Exit
<1>4. target' # {} => \E t \in target' : HasTriple(t) /\ triple' = TripleFor(t)
  <2>1. \A t \in target' : HasTriple(t)
    BY <1>2, ResolvedHasTriple DEF HasTriple
  <2> QED
    BY <2>1 DEF Compile
<1>5. ArgumentsOK' /\ OptionsOK'
  BY <1>2 DEF DriverInv, ArgumentsOK, OptionsOK
<1>6. PhaseOK'
  BY <1>1, <1>2, <1>3 DEF PhaseOK, Phases
<1>7. TargetOK'
  BY <1>2, <1>3, <1>4 DEF TargetOK, HasTriple, TripleFor
<1>8. DOMAIN disk' = Files /\ FilesKept'
  BY <1>1, <1>2 DEF DriverInv, FilesKept
<1>9. StatusTellsOutcome'
  BY <1>3 DEF StatusTellsOutcome
<1> QED
  BY <1>5, <1>6, <1>7, <1>8, <1>9 DEF DriverInv

\* The steps behind the compilation leave the options and the target alone.
LEMMA LateStep ==
  ASSUME DriverInv, phase \in {"running", "open", "write"}, UNCHANGED <<parsing, result>>
  PROVE  ArgumentsOK' /\ OptionsOK' /\ (phase' \notin {"arguments", "reading", "jit", "compiling"} => TargetOK')
<1>1. UNCHANGED <<line, next, options, source, target, triple>>
  BY DEF parsing, result
<1>2. ArgumentsOK' /\ OptionsOK'
  BY <1>1 DEF DriverInv, ArgumentsOK, OptionsOK
<1>3. target' = Resolve(options')
  BY <1>1 DEF DriverInv, TargetOK
<1>4. target' # {} => \E t \in target' : HasTriple(t)' /\ triple' = TripleFor(t)'
  BY <1>1 DEF DriverInv, TargetOK, HasTriple, TripleFor
<1> QED
  BY <1>2, <1>3, <1>4 DEF TargetOK

LEMMA RunProgramInv ==
  ASSUME DriverInv, RunProgram
  PROVE  DriverInv'
<1>1. phase = "running" /\ ~errors /\ \A f \in Files : disk[f] = "old"
  BY Untouched DEF DriverInv, RunProgram, PhaseOK
<1>2. UNCHANGED <<parsing, result, disk>> /\ UNCHANGED <<options, source>>
  BY DEF RunProgram, parsing, result
<1>3. \/ phase' = "exited" /\ status' = 1 /\ errors'
      \/ phase' = "exited" /\ status' \notin {0, 1, 2} /\ ~errors'
  BY <1>1, StatusAssumption DEF RunProgram, Fail, Exit
<1>4. ArgumentsOK' /\ OptionsOK' /\ TargetOK'
  BY <1>1, <1>2, <1>3, LateStep
<1>5. PhaseOK'
  BY <1>3 DEF PhaseOK, Phases
<1>6. DOMAIN disk' = Files /\ FilesKept'
  BY <1>1, <1>2 DEF DriverInv, FilesKept
<1>7. StatusTellsOutcome'
  BY <1>3 DEF StatusTellsOutcome
<1> QED
  BY <1>4, <1>5, <1>6, <1>7 DEF DriverInv

LEMMA WriteStdoutInv ==
  ASSUME DriverInv, WriteStdout
  PROVE  DriverInv'
<1>1. phase = "open" /\ ~errors /\ ToStdout /\ Mode = "ir" /\ \A f \in Files : disk[f] = "old"
  BY Untouched DEF DriverInv, WriteStdout, PhaseOK
<1>2. UNCHANGED <<parsing, result, disk>> /\ UNCHANGED <<options, source, errors>>
  BY DEF WriteStdout, parsing, result
<1>3. phase' = "exited" /\ status' \in {0, 1}
  BY DEF WriteStdout, Exit
<1>4. ArgumentsOK' /\ OptionsOK' /\ TargetOK'
  BY <1>1, <1>2, <1>3, LateStep
<1>5. PhaseOK'
  BY <1>3 DEF PhaseOK, Phases
<1>6. DOMAIN disk' = Files /\ FilesKept'
  BY <1>1, <1>2 DEF DriverInv, FilesKept
<1>7. StatusTellsOutcome'
  BY <1>1, <1>2, <1>3, SameOptions DEF StatusTellsOutcome
<1> QED
  BY <1>4, <1>5, <1>6, <1>7 DEF DriverInv

LEMMA OpenOutputInv ==
  ASSUME DriverInv, OpenOutput
  PROVE  DriverInv'
<1>1. /\ phase = "open" /\ ~errors /\ options.input # Empty /\ options.jit = Absent
      /\ \A f \in Files : disk[f] = "old"
  BY Untouched DEF DriverInv, OpenOutput, PhaseOK
<1>2. UNCHANGED <<parsing, result>> /\ UNCHANGED <<options, source>>
  BY DEF OpenOutput, parsing, result
<1>3. UNCHANGED <<ToStdout, Mode, Output>>
  BY <1>2, SameOptions
<1>4. CASE ~ToStdout /\ phase' = "write" /\ Put("empty") /\ UNCHANGED <<errors, status>>
  <2>1. ArgumentsOK' /\ OptionsOK' /\ TargetOK'
    BY <1>1, <1>2, <1>4, LateStep
  <2>2. PhaseOK'
    BY <1>1, <1>2, <1>3, <1>4 DEF PhaseOK, Phases
  <2>3. DOMAIN disk' = Files /\ FilesKept'
    BY <1>1, <1>2, <1>3, <1>4 DEF DriverInv, FilesKept, Put
  <2>4. StatusTellsOutcome'
    BY <1>4 DEF StatusTellsOutcome
  <2> QED
    BY <2>1, <2>2, <2>3, <2>4 DEF DriverInv
<1>5. CASE Fail(1) /\ UNCHANGED disk
  <2>1. phase' = "exited" /\ status' = 1 /\ errors'
    BY <1>5 DEF Fail, Exit
  <2>2. ArgumentsOK' /\ OptionsOK' /\ TargetOK'
    BY <1>1, <1>2, <2>1, LateStep
  <2>3. PhaseOK'
    BY <2>1 DEF PhaseOK, Phases
  <2>4. DOMAIN disk' = Files /\ FilesKept'
    BY <1>1, <1>5 DEF DriverInv, FilesKept
  <2>5. StatusTellsOutcome'
    BY <2>1 DEF StatusTellsOutcome
  <2> QED
    BY <2>2, <2>3, <2>4, <2>5 DEF DriverInv
<1> QED
  BY <1>4, <1>5 DEF OpenOutput

WriteOutput == WriteObject \/ WriteIR

\* Either writer ends the run with a content of the output; an object that is
\* not whole is an error.
LEMMA WriteInv ==
  ASSUME DriverInv, WriteOutput
  PROVE  DriverInv'
<1>1. /\ phase = "write" /\ ~errors /\ options.input # Empty /\ options.jit = Absent /\ ~ToStdout
      /\ \A f \in Files : disk[f] # "old" => f = Output
  BY DEF DriverInv, WriteOutput, WriteObject, WriteIR, PhaseOK, FilesKept
<1>2. UNCHANGED <<parsing, result>> /\ UNCHANGED <<options, source>>
  BY DEF WriteOutput, WriteObject, WriteIR, parsing, result
<1>3. UNCHANGED <<ToStdout, Mode, Output>>
  BY <1>2, SameOptions
<1>4. PICK content \in {"whole", "cut"} :
        /\ Put(content)
        /\ phase' = "exited"
        /\ status' = 0 => ~errors' /\ (Mode = "object" => content = "whole")
        /\ status' # 0 => errors' /\ content = "cut"
  <2>1. CASE Put("whole") /\ Exit(0) /\ UNCHANGED errors
    BY <1>1, <2>1 DEF Exit
  <2>2. CASE Put("cut") /\ Fail(1)
    BY <2>2 DEF Fail, Exit
  <2>3. CASE Put("cut") /\ Exit(0) /\ UNCHANGED errors /\ Mode = "ir"
    BY <1>1, <2>3 DEF Exit
  <2> QED
    BY <2>1, <2>2, <2>3 DEF WriteOutput, WriteObject, WriteIR
<1>5. disk' = [disk EXCEPT ![Output] = content] /\ DOMAIN disk = Files /\ Output \in Files
  BY <1>1, <1>4, OutputIsFile DEF DriverInv, Put
<1>6. ArgumentsOK' /\ OptionsOK' /\ TargetOK'
  BY <1>1, <1>2, <1>4, LateStep
<1>7. PhaseOK'
  BY <1>4 DEF PhaseOK, Phases
<1>8. DOMAIN disk' = Files
  BY <1>5
<1>9. FilesKept'
  BY <1>1, <1>2, <1>3, <1>4, <1>5 DEF FilesKept
<1>10. StatusTellsOutcome'
  <2>1. disk'[Output'] = content
    BY <1>3, <1>5
  <2>2. UNCHANGED Mode /\ UNCHANGED Output
    BY <1>3
  <2>3. status' = 0 => ~errors' /\ (Mode' = "object" => disk'[Output'] = "whole")
    BY <1>4, <2>1, <2>2
  <2>4. status' \in {1, 2} => status' # 0
    OBVIOUS
  <2> QED
    BY <1>4, <2>3, <2>4 DEF StatusTellsOutcome
<1> QED
  BY <1>6, <1>7, <1>8, <1>9, <1>10 DEF DriverInv

LEMMA KillInv ==
  ASSUME DriverInv, Kill
  PROVE  DriverInv'
<1>1. phase \notin {"exited", "killed"} /\ phase' = "killed"
  BY DEF Kill
<1>2. UNCHANGED <<line, next, options, source, target, triple, disk, errors, status>>
  BY DEF Kill, parsing, result
<1>3. ArgumentsOK' /\ OptionsOK' /\ PhaseOK'
  BY <1>1, <1>2 DEF DriverInv, ArgumentsOK, OptionsOK, PhaseOK, Phases
<1>4. target' # {} => /\ target' = Resolve(options')
                      /\ \E t \in target' : HasTriple(t)' /\ triple' = TripleFor(t)'
  BY <1>2 DEF DriverInv, TargetOK, HasTriple, TripleFor
<1>5. TargetOK'
  BY <1>1, <1>4 DEF TargetOK
<1>6. DOMAIN disk' = Files /\ FilesKept'
  <2>1. UNCHANGED <<ToStdout, Output>>
    BY <1>2, SameOptions
  <2> QED
    BY <1>1, <1>2, <2>1 DEF DriverInv, FilesKept
<1>7. StatusTellsOutcome'
  BY <1>1 DEF StatusTellsOutcome
<1> QED
  BY <1>3, <1>5, <1>6, <1>7 DEF DriverInv

LEMMA StutterInv ==
  ASSUME DriverInv, UNCHANGED vars
  PROVE  DriverInv'
<1>1. UNCHANGED <<line, next, options, phase, source, target, triple, disk, errors, status>>
  BY DEF vars, parsing, result
<1>2. ArgumentsOK' /\ OptionsOK' /\ PhaseOK'
  BY <1>1, SameOptions DEF DriverInv, ArgumentsOK, OptionsOK, PhaseOK
<1>3. TargetOK'
  BY <1>1 DEF DriverInv, TargetOK, HasTriple, TripleFor
<1>4. DOMAIN disk' = Files /\ FilesKept' /\ StatusTellsOutcome'
  <2>1. UNCHANGED <<ToStdout, Mode, Output>>
    BY <1>1, SameOptions
  <2>2. DOMAIN disk' = Files /\ FilesKept'
    BY <1>1, <2>1 DEF DriverInv, FilesKept
  <2>3. StatusTellsOutcome'
    BY <1>1, <2>1 DEF DriverInv, StatusTellsOutcome
  <2> QED
    BY <2>2, <2>3
<1> QED
  BY <1>2, <1>3, <1>4 DEF DriverInv

(***************************************************************************)
(* DriverInv holds throughout every run of the driver.                     *)
(***************************************************************************)
THEOREM DriverInvariant == Spec => []DriverInv
<1>1. Init => DriverInv
  BY InitInv
<1>2. DriverInv /\ [Next]_vars => DriverInv'
  <2> SUFFICES ASSUME DriverInv, [Next]_vars PROVE DriverInv'
    OBVIOUS
  <2>1. CASE ReadArgument
    BY <2>1, ArgumentsInv
  <2>2. CASE FinishArguments
    BY <2>2, FinishInv
  <2>3. CASE ReadSource
    BY <2>3, ReadSourceInv
  <2>4. CASE ChooseJitTarget
    BY <2>4, ChooseInv
  <2>5. CASE Compile
    BY <2>5, CompileInv
  <2>6. CASE RunProgram
    BY <2>6, RunProgramInv
  <2>7. CASE WriteStdout
    BY <2>7, WriteStdoutInv
  <2>8. CASE OpenOutput
    BY <2>8, OpenOutputInv
  <2>9. CASE WriteOutput
    BY <2>9, WriteInv
  <2>10. CASE Kill
    BY <2>10, KillInv
  <2>11. CASE UNCHANGED vars
    BY <2>11, StutterInv
  <2> QED
    BY <2>1, <2>2, <2>3, <2>4, <2>5, <2>6, <2>7, <2>8, <2>9, <2>10, <2>11
       DEF Next, ReadArgument, WriteOutput
<1> QED
  BY <1>1, <1>2, PTL DEF Spec

(***************************************************************************)
(* Whatever the arguments and the file names are, the exit status, the     *)
(* messages and the object file of a run that exits agree                  *)
(* (StatusTellsOutcome).                                                   *)
(***************************************************************************)
THEOREM StatusIsHonest == Spec => []StatusTellsOutcome
<1>1. DriverInv => StatusTellsOutcome
  BY DEF DriverInv
<1> QED
  BY <1>1, DriverInvariant, PTL

(***************************************************************************)
(* No run touches a file but the output it was asked for, and that only    *)
(* after the compilation succeeded (FilesKept).                            *)
(***************************************************************************)
THEOREM FilesAreKept == Spec => []FilesKept
<1>1. DriverInv => FilesKept
  BY DEF DriverInv
<1> QED
  BY <1>1, DriverInvariant, PTL

\* What a compilation reports selects its target again.
LEMMA ReportSelectsAgain ==
  ASSUME OptionsOK, TargetOK
  PROVE  SelectionStable
<1> SUFFICES ASSUME target # {}
             PROVE  /\ Resolve([arch |-> Absent, os |-> Absent, triple |-> triple]) = target
                    /\ Resolve([options EXCEPT !.triple = triple]) = target
  BY DEF SelectionStable
<1>1. target = Resolve(options)
  BY DEF TargetOK
<1>2. PICK t \in target : HasTriple(t) /\ triple = TripleFor(t)
  BY DEF TargetOK
<1>3. t \in Resolve(options)
  BY <1>1, <1>2
<1>4. target = {t}
  BY <1>1, <1>2, OneTarget
<1>5. /\ triple # Absent
      /\ t.architecture \in TripleArchitecture(triple)
      /\ t.system \in TripleSystem(triple)
  <2>1. CASE options.triple # Absent
    <3>1. triple = options.triple
      BY <1>2, <2>1 DEF TripleFor
    <3>2. /\ t.architecture \in PickArchitecture(options)
          /\ t.system \in PickOperatingSystem(options, t.architecture)
      BY <1>3 DEF Resolve
    <3> QED
      BY <2>1, <3>1, <3>2 DEF PickArchitecture, PickOperatingSystem
  <2>2. CASE options.triple = Absent
    <3>1. triple = DefaultTriple(t.architecture, t.system)
      BY <1>2, <2>2 DEF TripleFor
    <3>2. /\ t.architecture \in DOMAIN ArchitectureNames
          /\ t.system \in DOMAIN OperatingSystemNames
          /\ HasDefaultTriple(t.architecture, t.system)
      BY <1>3, <2>2, ResolvedHasTriple
    <3>3. t.architecture \in Architectures /\ t.system \in OperatingSystems
      BY <3>2 DEF Architectures, OperatingSystems
    <3> QED
      BY <3>1, <3>2, <3>3, ReadBack, TripleAssumption
  <2> QED
    BY <2>1, <2>2
<1>6. Resolve([arch |-> Absent, os |-> Absent, triple |-> triple]) = {t}
  <2> DEFINE again == [arch |-> Absent, os |-> Absent, triple |-> triple]
  <2>1. again.triple = triple /\ again.arch = Absent /\ again.os = Absent
    OBVIOUS
  <2> QED
    BY <1>3, <1>5, <2>1, SelectedAgain
<1>7. Resolve([options EXCEPT !.triple = triple]) = {t}
  <2> DEFINE again == [options EXCEPT !.triple = triple]
  <2>1. again.triple = triple /\ again.arch = options.arch /\ again.os = options.os
    BY DEF OptionsOK, Fields
  <2> QED
    BY <1>3, <1>5, <2>1, SelectedAgain
<1> QED
  BY <1>4, <1>6, <1>7

(***************************************************************************)
(* Whatever is asked for, the triple that a compilation reports selects    *)
(* the same target again, alone and with the names that were given         *)
(* (SelectionStable).                                                      *)
(***************************************************************************)
THEOREM ReportedTripleSelectsAgain == Spec => []SelectionStable
<1>1. DriverInv => SelectionStable
  BY ReportSelectsAgain DEF DriverInv
<1> QED
  BY <1>1, DriverInvariant, PTL

-----------------------------------------------------------------------------
(* The profiles.                                                           *)

\* Without a triple a valid pair is one that the usage text lists.
LEMMA ValidIsDocumented ==
  ASSUME NEW a \in DOMAIN ArchitectureNames, NEW s \in DOMAIN OperatingSystemNames
  PROVE  ValidPair(a, s, FALSE) <=> s \in DocumentedSystems(a)
<1>1. s \in {"Linux", "Darwin", "Windows", "WASI", "FreeStanding"}
  BY OperatingSystemNamesRows
<1>2. CASE a \in WebAssembly
  <2>1. DocumentedSystems(a) = {"FreeStanding", "WASI"}
    BY <1>2 DEF WebAssembly, DocumentedSystems
  <2> QED
    BY <1>2, <2>1 DEF ValidPair
<1>3. CASE a \in GeneralPurpose
  <2>1. DocumentedSystems(a) = {"Linux", "Darwin", "Windows", "FreeStanding"}
    BY <1>3 DEF GeneralPurpose, DocumentedSystems
  <2>2. a \notin WebAssembly /\ a \notin LinuxOrFreestanding /\ a # "LLVMGeneric"
    BY <1>3 DEF WebAssembly, GeneralPurpose, LinuxOrFreestanding
  <2> QED
    BY <1>1, <2>1, <2>2 DEF ValidPair
<1>4. CASE a \notin WebAssembly \cup GeneralPurpose
  <2>1. DocumentedSystems(a) = {"Linux", "FreeStanding"}
    BY <1>4 DEF WebAssembly, GeneralPurpose, DocumentedSystems
  <2>2. a \notin WebAssembly /\ a \in LinuxOrFreestanding /\ a # "LLVMGeneric"
    BY <1>4, ArchitectureNamesRows DEF LinuxOrFreestanding
  <2> QED
    BY <1>1, <2>1, <2>2 DEF ValidPair
<1> QED
  BY <1>2, <1>3, <1>4

\* What an unnamed architecture or system stands for, next to a named one.
NamedArchitecture(request, architecture) ==
  IF request.arch = Absent THEN architecture = "X86_64"
  ELSE request.arch \in ArchitectureNames[architecture]

NamedSystem(request, architecture, system) ==
  IF request.os # Absent
  THEN request.os \in OperatingSystemNames[system]
  ELSE system = IF architecture \in WebAssembly THEN "FreeStanding" ELSE "Linux"

Documented(request) ==
  {t \in [architecture : DOMAIN ArchitectureNames, system : DOMAIN OperatingSystemNames] :
     /\ NamedArchitecture(request, t.architecture)
     /\ NamedSystem(request, t.architecture, t.system)
     /\ t.system \in DocumentedSystems(t.architecture)}

\* A request without a triple resolves to the documented profiles.
LEMMA ResolvesAsDocumented ==
  ASSUME NEW request, request.triple = Absent
  PROVE  Resolve(request) = Documented(request)
<1>1. ASSUME NEW t \in Resolve(request) PROVE t \in Documented(request)
  <2>1. /\ t \in [architecture : PickArchitecture(request), system : OperatingSystems]
        /\ t.architecture \in PickArchitecture(request)
        /\ t.system \in PickOperatingSystem(request, t.architecture)
        /\ ValidPair(t.architecture, t.system, FALSE)
    BY <1>1 DEF Resolve
  <2>2. t.architecture \in DOMAIN ArchitectureNames /\ t.system \in DOMAIN OperatingSystemNames
    BY <1>1, ResolvedHasTriple
  <2>3. t.system \in DocumentedSystems(t.architecture)
    BY <2>1, <2>2, ValidIsDocumented
  <2>4. NamedArchitecture(request, t.architecture)
    BY <2>1 DEF PickArchitecture, NamedArchitecture
  <2>5. NamedSystem(request, t.architecture, t.system)
    BY <2>1 DEF PickOperatingSystem, NamedSystem
  <2>6. t \in [architecture : DOMAIN ArchitectureNames, system : DOMAIN OperatingSystemNames]
    BY <2>1, <2>2
  <2> QED
    BY <2>3, <2>4, <2>5, <2>6 DEF Documented
<1>2. ASSUME NEW t \in Documented(request) PROVE t \in Resolve(request)
  <2>1. /\ t \in [architecture : DOMAIN ArchitectureNames, system : DOMAIN OperatingSystemNames]
        /\ t.architecture \in DOMAIN ArchitectureNames
        /\ t.system \in DOMAIN OperatingSystemNames
        /\ NamedArchitecture(request, t.architecture)
        /\ NamedSystem(request, t.architecture, t.system)
        /\ t.system \in DocumentedSystems(t.architecture)
    BY <1>2 DEF Documented
  <2>2. ValidPair(t.architecture, t.system, FALSE)
    BY <2>1, ValidIsDocumented
  <2>3. t.architecture \in PickArchitecture(request)
    BY <2>1 DEF PickArchitecture, NamedArchitecture, Architectures
  <2>4. t.system \in PickOperatingSystem(request, t.architecture)
    BY <2>1 DEF PickOperatingSystem, NamedSystem, OperatingSystems
  <2>5. t \in [architecture : PickArchitecture(request), system : OperatingSystems]
    BY <2>1, <2>3 DEF OperatingSystems
  <2> QED
    BY <2>2, <2>4, <2>5 DEF Resolve
<1> QED
  BY <1>1, <1>2

(***************************************************************************)
(* Without --target a compilation gets the profiles that the usage text    *)
(* lists, and no others (ProfilesDocumented).                              *)
(***************************************************************************)
THEOREM ProfilesAreDocumented == Spec => []ProfilesDocumented
<1>1. DriverInv => ProfilesDocumented
  <2> SUFFICES ASSUME DriverInv, source # "none", options.jit = Absent, options.triple = Absent,
                      phase \in {"open", "write", "exited"}
               PROVE  target = Documented(options)
    BY DEF ProfilesDocumented, Documented, NamedArchitecture, NamedSystem
  <2>1. target = Resolve(options)
    BY DEF DriverInv, TargetOK
  <2> QED
    BY <2>1, ResolvesAsDocumented
<1> QED
  BY <1>1, DriverInvariant, PTL

=============================================================================
