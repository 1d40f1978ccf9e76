----------------------------- MODULE MCFrontEnd -----------------------------
(***************************************************************************)
(* The front end on three sets of texts: programs that use every form of   *)
(* the language with one token too many, too few or another; all short     *)
(* commands; and the structs of one, two or three types that contain or    *)
(* point to each other in every way.                                       *)
(***************************************************************************)
EXTENDS PsiGrammar

CONSTANT MaxCommand   \* the tokens of a short command before its semicolon

MCNames == {"x", "A", "B", "C", "void", "i32"}

Programs ==
  {<<"entry", "x", "{", "x", "[", "]", "x", "=", "[", "num", ",", "%reg", "]", ";", "}">>,
   <<"entry", "x", "{", "volatile", "inst", "x", "[", "num", "]", ".", "x", "%reg", ";", "}">>,
   <<"entry", "x", "{", "const", "volatile", "x", "*", ":", "num", "x", "=",
     "special", "str", ";", "}">>,
   <<"struct", "A", "{", "i32", ":", "num", "x", ";", "A", "[", "]", "A", "B", "*", "B", "}">>,
   <<"func", "x", "*", "x", "volatile", "x", "x", "const", "x", "A", "{", ";", "}">>,
   <<"func", "x", "x", "x", "x", ";", "const", "x", "x", "=", "true", ";">>,
   <<"x", "[", "]", "x", "=", "[", "]", ";", "volatile", "const", "x", "*", "x", "=",
     "x", "[", "num", "]", ";">>,
   <<"entry", "x", "{", "%reg", "=", "volatile", "inst", "[", "x", "]", "x", ";",
     "x", ".", "x", "=", ";", "}">>,
   <<"entry", "x", "{", "x", "[", "num", "]", "=", "num-", ";", "x", "x", ";", "}">>,
   <<"entry", "x", "{", "x", ":", "num", "x", ".", "x", "=", "x", ";", "inst", "num",
     "x", "[", "num", "]", ";", "}">>}

Alphabet == {"x", "inst", "entry", "struct", "const", "volatile", "true", "special",
  "%reg", "str", "num", "num-", "*", "[", "]", "{", "}", ":", ";", "=", ".", ",", "eof"}

\* A text of one edit; without the last token it ends in the middle.
Edited(text) ==
  {text} \cup {RemoveAt(text, k) : k \in DOMAIN text}
    \cup {ReplaceAt(text, k, token) : k \in DOMAIN text, token \in Alphabet \ {"eof"}}
    \cup {InsertAt(text, k, token) : k \in DOMAIN text, token \in Alphabet \ {"eof"}}
    \cup {SubSeq(text, 1, k) : k \in DOMAIN text}

Commands ==
  {<<"entry", "x", "{">> \o command \o <<";", "}">> :
     command \in UNION {[1 .. n -> Alphabet \ {"eof", "str", "struct"}] : n \in 1 .. MaxCommand}}

-----------------------------------------------------------------------------
\* A struct with a field of each of some types, named like its type, by value
\* or as a pointer.
StructText(name, byValue, pointers) ==
  <<"struct", name, "{">>
    \o FlattenSeq([k \in 1 .. Cardinality(byValue) |->
         LET type == SetToSeq(byValue)[k] IN <<type, type, ";">>])
    \o FlattenSeq([k \in 1 .. Cardinality(pointers) |->
         LET type == SetToSeq(pointers)[k] IN <<type, "*", "*", type>>])
    \o <<"}">>

Structs(name, others) ==
  {StructText(name, s, {}) : s \in SUBSET others}

StructTexts ==
  {a \o b \o c : a \in Structs("A", {"A", "B", "C"}), b \in Structs("B", {"A", "B", "C"}),
                 c \in Structs("C", {"A", "B", "C"})}
    \cup {StructText("A", v, {"A", "B", "C"} \ v) \o StructText("B", w, {"A", "B", "x"} \ w) :
            v \in SUBSET {"A", "B", "C"}, w \in SUBSET {"A", "B", "x"}}
    \cup {StructText(n, v, p) \o StructText(m, w, {}) :
            n \in {"A", "i32"}, m \in {"A", "B"},
            v \in SUBSET {"A", "B", "void"}, w \in SUBSET {"A", "B"},
            p \in {{}, {"A"}, {"A", "void"}}}

MCTexts == {Append(text, "eof") :
  text \in UNION {Edited(p) : p \in Programs} \cup Commands \cup StructTexts}
=============================================================================
