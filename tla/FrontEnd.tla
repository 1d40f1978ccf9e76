------------------------------ MODULE FrontEnd ------------------------------
(***************************************************************************)
(* The parser, and the part of validateProgram (src/src/validation.cpp)    *)
(* that judges structs: the declarations in the order of the text, then    *)
(* the search for recursion.  What validateProgram says of functions,      *)
(* globals and constants is left out: they are taken to be valid.          *)
(***************************************************************************)
EXTENDS Parser, StructCycles, SequencesExt

CONSTANT builtinTypes   \* the builtin types among the names

frontEnd == <<parser, search>>

\* Where the tree has its next token of a kind.
NextRead(goal, i) == CHOOSE k \in i + 1 .. Len(tree) :
  tree[k][1] = goal /\ \A l \in i + 1 .. k - 1 : tree[l][1] # goal

NodesIn(goal, first, last) == {k \in first .. last : tree[k][1] = goal}

\* The TypeNode of the type with its base at i, and the name behind it.
Declared(i, last) ==
  [type |-> tree[i][2],
   pointers |-> Cardinality(NodesIn("*", i, last)),
   isView |-> NodesIn("[", i, last) # {},
   name |-> tree[last][2]]

\* The StructDeclNode of the struct whose keyword is at i.
StructDecl(i) ==
  LET base == NextRead("base", i)
      brace == NextRead("{", i)
      bases == SetToSortSeq(NodesIn("base", brace, NextRead("}", i)), <)
  IN [location |-> i,
      type |-> Declared(base, brace),
      fields |-> [k \in DOMAIN bases |-> Declared(bases[k], NextRead("name", bases[k]))]]

Declarations == {StructDecl(i) : i \in NodesIn("struct", 1, Len(tree))}

\* validateProgram's judgement of a struct, before its name is taken.
ValidStruct(decl) ==
  /\ decl.type.type \notin builtinTypes
  /\ decl.type.pointers = 0
  /\ \A k \in DOMAIN decl.fields :
        /\ ~decl.fields[k].isView
        /\ decl.fields[k].type = "void" => decl.fields[k].pointers > 0
        /\ \A l \in 1 .. k - 1 : decl.fields[l].name # decl.fields[k].name

ValidStructs(decls) ==
  /\ \A decl \in decls : ValidStruct(decl)
  /\ \A d, e \in decls : d.type.type = e.type.type => d = e

FieldsOf(decl) ==
  [k \in DOMAIN decl.fields |->
     [type |-> decl.fields[k].type, pointers |-> decl.fields[k].pointers]]

\* The map that validateStructCycles is given.
StructMap(decls) ==
  [name \in {decl.type.type : decl \in decls} |->
     FieldsOf(CHOOSE decl \in decls : decl.type.type = name)]

\* validateProgram up to validateStructCycles.
ValidateDeclarations ==
  /\ parse = "accepted"
  /\ verdict = "none"
  /\ LET decls == Declarations
     IN IF ValidStructs(decls)
        THEN /\ structs' = StructMap(decls)
             /\ todo' = DOMAIN structs'
             /\ verdict' = "searching"
        ELSE verdict' = "malformed" /\ UNCHANGED <<structs, todo>>
  /\ UNCHANGED <<parser, calls, visiting, visited>>

-----------------------------------------------------------------------------
Init ==
  /\ ParserInit
  /\ structs = <<>> /\ todo = {} /\ calls = <<>> /\ visiting = {} /\ visited = {}
  /\ verdict = "none"

Next ==
  \/ Parse /\ UNCHANGED search
  \/ ValidateDeclarations
  \/ Search /\ UNCHANGED parser

\* The program runs on until it has an answer.
Spec == Init /\ [][Next]_frontEnd /\ WF_frontEnd(Next)

(***************************************************************************)
(* The loops of the parser stop at the end of every text, complete or not, *)
(* where lookAheadToken repeats "eof" and consumeToken stays; and so does  *)
(* the search: a text is rejected or its structs are judged.               *)
(***************************************************************************)
FrontEndEnds == <>(parse = "rejected" \/ verdict \notin {"none", "searching"})
=============================================================================
