-------------------------- MODULE TargetSelection --------------------------
(***************************************************************************)
(* Which architecture and operating system a compilation is for: the       *)
(* tables of src/src/target.hpp, pickArchitecture and pickOperatingSystem  *)
(* (target.cpp), resolveTarget (compiler.cpp) and defaultTriple            *)
(* (codegen_module.cpp).                                                   *)
(*                                                                         *)
(* A request is a record of three options that may each be absent:         *)
(*    arch, os   names, as given to --arch and --os                        *)
(*    triple     a record of the two components of a target triple that    *)
(*               the selection looks at; vendor and environment are left   *)
(*               out                                                       *)
(* Every pick is the set of its possible results.  It has one member, or   *)
(* none where the code throws.                                             *)
(***************************************************************************)
CONSTANT Absent    \* an option that was not given

ArchitectureNames ==
  [X86 |-> {"x86", "i386", "i486", "i586", "i686"},
   X86_64 |-> {"x86_64", "x86-64", "amd64"},
   AArch64 |-> {"aarch64", "arm64"},
   ARM |-> {"arm", "armv7", "armv7a", "thumbv7", "thumbv7a"},
   WASM32 |-> {"wasm32", "wasm"}, WASM64 |-> {"wasm64"},
   RISCV32 |-> {"riscv32"}, RISCV64 |-> {"riscv64"},
   PPC32 |-> {"ppc", "powerpc"}, PPC64 |-> {"ppc64", "powerpc64"},
   PPC64LE |-> {"ppc64le", "powerpc64le"},
   MIPS |-> {"mips"}, MIPSEL |-> {"mipsel"},
   MIPS64 |-> {"mips64"}, MIPS64EL |-> {"mips64el"},
   LoongArch64 |-> {"loongarch64"}, SystemZ |-> {"s390x", "systemz"}]

OperatingSystemNames ==
  [Linux |-> {"linux"}, Darwin |-> {"darwin", "macos", "macosx"},
   Windows |-> {"windows", "win32"}, WASI |-> {"wasi"},
   FreeStanding |-> {"none", "freestanding", "bare-metal"}]

Architectures == DOMAIN ArchitectureNames \cup {"LLVMGeneric"}
OperatingSystems == DOMAIN OperatingSystemNames \cup {"TargetSpecific"}

WebAssembly == {"WASM32", "WASM64"}
GeneralPurpose == {"X86", "X86_64", "AArch64", "ARM"}
LinuxOrFreestanding == DOMAIN ArchitectureNames \ (WebAssembly \cup GeneralPurpose)

-----------------------------------------------------------------------------
(* llvm::Triple, as far as the selection asks it.                          *)

\* The spellings of an architecture that LLVM takes apart, for those that the
\* library writes into triples itself, and for architectures that PSI does not
\* know ("sparc") or LLVM does not ("typo").
LLVMSpellings ==
  [X86 |-> {"i386", "i686"}, X86_64 |-> {"x86_64"},
   AArch64 |-> {"aarch64", "arm64"}, ARM |-> {"armv7", "thumbv7"},
   WASM32 |-> {"wasm32"}, WASM64 |-> {"wasm64"},
   RISCV32 |-> {"riscv32"}, RISCV64 |-> {"riscv64"},
   PPC32 |-> {"powerpc"}, PPC64 |-> {"powerpc64"}, PPC64LE |-> {"powerpc64le"},
   MIPS |-> {"mips"}, MIPSEL |-> {"mipsel"},
   MIPS64 |-> {"mips64"}, MIPS64EL |-> {"mips64el"},
   LoongArch64 |-> {"loongarch64"}, SystemZ |-> {"s390x"},
   LLVMGeneric |-> {"sparc"}]

\* The same for operating systems; a name that is empty or "unknown" is none.
LLVMSystems ==
  [Linux |-> {"linux"}, Darwin |-> {"macosx", "ios"}, Windows |-> {"windows"},
   WASI |-> {"wasi"}, FreeStanding |-> {"none", "unknown"},
   TargetSpecific |-> {"freebsd"}]

TripleArchitecture(t) == {a \in Architectures : t.arch \in LLVMSpellings[a]}
TripleSystem(t) == {s \in OperatingSystems : t.os \in LLVMSystems[s]}

-----------------------------------------------------------------------------
\* A name and a triple that disagree leave nothing to pick.
PickArchitecture(request) ==
  {a \in Architectures :
     /\ request.arch # Absent =>
          a \in DOMAIN ArchitectureNames /\ request.arch \in ArchitectureNames[a]
     /\ request.triple # Absent => a \in TripleArchitecture(request.triple)
     /\ request.arch = Absent /\ request.triple = Absent => a = "X86_64"}

\* resolveTarget compares a name with the triple, and moves the default of
\* WebAssembly from Linux to none.
PickOperatingSystem(request, architecture) ==
  {s \in OperatingSystems :
     /\ request.os # Absent =>
          s \in DOMAIN OperatingSystemNames /\ request.os \in OperatingSystemNames[s]
     /\ request.triple # Absent => s \in TripleSystem(request.triple)
     /\ request.os = Absent /\ request.triple = Absent =>
          s = IF architecture \in WebAssembly THEN "FreeStanding" ELSE "Linux"}

\* Slip: the families that only run on Linux are not told apart from the others.
ValidPairOfAnyFamily(architecture, system, hasTriple) ==
  IF architecture \in WebAssembly
  THEN system \in {"FreeStanding", "WASI"} \/ (hasTriple /\ system = "TargetSpecific")
  ELSE /\ system # "WASI"
       /\ system = "TargetSpecific" \/ architecture = "LLVMGeneric" => hasTriple

ValidPair(architecture, system, hasTriple) ==
  IF architecture \in WebAssembly
  THEN system \in {"FreeStanding", "WASI"} \/ (hasTriple /\ system = "TargetSpecific")
  ELSE /\ system # "WASI"
       /\ system = "TargetSpecific" \/ architecture = "LLVMGeneric" => hasTriple
       /\ architecture \in LinuxOrFreestanding =>
            system \in {"Linux", "FreeStanding", "TargetSpecific"}

Resolve(request) ==
  {t \in [architecture : PickArchitecture(request), system : OperatingSystems] :
     /\ t.system \in PickOperatingSystem(request, t.architecture)
     /\ ValidPair(t.architecture, t.system, request.triple # Absent)}

-----------------------------------------------------------------------------
\* How defaultTriple spells an architecture for an operating system.
DefaultSpelling(architecture, system) ==
  CASE architecture = "X86" -> IF system = "Windows" THEN "i686" ELSE "i386"
    [] architecture = "ARM" -> IF system = "Windows" THEN "thumbv7" ELSE "armv7"
    [] architecture = "AArch64" -> IF system = "Darwin" THEN "arm64" ELSE "aarch64"
    [] OTHER -> CHOOSE spelling \in LLVMSpellings[architecture] : TRUE

\* Slip: the WASI triple of WebAssembly is the one without a system.
DefaultSystemWithoutWASI(architecture, system) ==
  CASE system = "Linux" -> "linux"
    [] system = "Darwin" -> IF architecture = "ARM" THEN "ios" ELSE "macosx"
    [] system = "Windows" -> "windows"
    [] system = "WASI" -> "unknown"
    [] OTHER -> IF architecture \in WebAssembly THEN "unknown" ELSE "none"

DefaultSystem(architecture, system) ==
  CASE system = "Linux" -> "linux"
    [] system = "Darwin" -> IF architecture = "ARM" THEN "ios" ELSE "macosx"
    [] system = "Windows" -> "windows"
    [] system = "WASI" -> "wasi"
    [] OTHER -> IF architecture \in WebAssembly THEN "unknown" ELSE "none"

\* The pairs defaultTriple has a triple for; it throws for all others.
HasDefaultTriple(architecture, system) ==
  CASE architecture \in WebAssembly -> system \in {"FreeStanding", "WASI"}
    [] architecture \in LinuxOrFreestanding -> system \in {"Linux", "FreeStanding"}
    [] OTHER -> /\ architecture \in GeneralPurpose
                /\ system \in {"Linux", "Darwin", "Windows", "FreeStanding"}

DefaultTriple(architecture, system) ==
  [arch |-> DefaultSpelling(architecture, system), os |-> DefaultSystem(architecture, system)]
=============================================================================
