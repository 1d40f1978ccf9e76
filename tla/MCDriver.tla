------------------------------ MODULE MCDriver ------------------------------
(***************************************************************************)
(* The driver on two sets of command lines: all short ones over the        *)
(* options that contradict each other or take a value, and one for every   *)
(* request of a target, by names, by triple, and by both.                  *)
(***************************************************************************)
EXTENDS Driver

CONSTANT MaxArguments   \* of a line of the first set

Plain(texts) == texts \X {Absent}

Texts == {"in.psi", "-", "--", "-x", "-h", "-c", "--emit-llvm", "--jit",
          "-o", "--entry", "out"}

Arguments ==
  Plain(Texts \cup {Empty})
    \cup {<<"--output", "out">>, <<"--output", Empty>>, <<"--jit", "out">>}

ShortLines == UNION {[1 .. k -> Arguments] : k \in 0 .. MaxArguments}

\* Every argument but the empty one may be an input behind --.
MCWithExtension ==
  [name \in Texts \cup {"--output", "--arch", "--os", "--target"}, extension \in {".o", ".ll"} |->
     CASE name = "-" -> "a" \o extension
       [] name = "in.psi" -> "in" \o extension
       [] OTHER -> name \o extension]

MCFiles == {"in.psi", "out"} \cup {MCWithExtension[i] : i \in DOMAIN MCWithExtension}

Names == UNION {ArchitectureNames[a] : a \in DOMAIN ArchitectureNames}
Systems == UNION {OperatingSystemNames[s] : s \in DOMAIN OperatingSystemNames}

Triples ==
  [arch : UNION {LLVMSpellings[a] : a \in Architectures} \cup {"typo"},
   os : UNION {LLVMSystems[s] : s \in OperatingSystems} \cup {"typo"}]

Given(name, values) == {<<>>} \cup {<< <<name, v>> >> : v \in values}

MCNativeTriple == [arch |-> "x86_64", os |-> "linux"]

TargetLines ==
  {a \o s \o << <<"in.psi", Absent>> >> :
     a \in Given("--arch", Names \cup {"typo"}), s \in Given("--os", Systems \cup {"typo"})}
    \cup {a \o s \o t \o << <<"in.psi", Absent>> >> :
            a \in Given("--arch", {"wasm", "arm", "x86_64", "mips"}),
            s \in Given("--os", {"none", "linux", "wasi"}),
            t \in Given("--target", Triples)}
    \cup {j \o a \o s \o t \o << <<"in.psi", Absent>> >> :
            j \in {<< <<"--jit", Absent>> >>},
            a \in Given("--arch", {"amd64", "arm", "wasm"}),
            s \in Given("--os", {"linux", "none"}),
            t \in Given("--target", {MCNativeTriple, [arch |-> "armv7", os |-> "linux"]})}

MCCommandLines == ShortLines \cup TargetLines
=============================================================================
