------------------------------- MODULE Parser -------------------------------
(***************************************************************************)
(* The recursive descent of src/src/parser.cpp over a list of tokens.      *)
(*                                                                         *)
(* The C++ stack is the variable goals: what the functions that have been  *)
(* called have still to read, the innermost first.  A goal is a token, a   *)
(* kind of token ("name", "index"), or the name of a function or of the    *)
(* rest of one.  One step expands the first goal, by the branch that the   *)
(* function takes on the tokens ahead, or reads a token.                   *)
(*                                                                         *)
(* A token is its text, for punctuation and keywords, or what the parser   *)
(* distinguishes it by:                                                    *)
(*    "inst"    an identifier that is the name of an instruction           *)
(*    "special" #name         "%reg"   %name          "str"  a string      *)
(*    "num"     a number that can be an index         "num-" any other     *)
(*    "true"    true, false, null and nullptr                              *)
(* and Names are all other identifiers.                                    *)
(*                                                                         *)
(* tokens    the text, which ends with "eof"                               *)
(* position  the current token                                             *)
(* tree      what has been read, each token with the goal that read it     *)
(* parse     "running", "accepted", or "rejected" by a LocatedSourceError  *)
(***************************************************************************)
EXTENDS Naturals, Sequences

CONSTANTS Names, Texts

ASSUME TextAssumption == \A text \in Texts : text # <<>> /\ text[Len(text)] = "eof"

VARIABLES tokens, position, goals, tree, parse

parser == <<tokens, position, goals, tree, parse>>

Reserved == {"true", "const", "volatile"}
Literals == {"num", "num-", "str", "%reg", "true"}
Identifiers == Names \cup Reserved \cup {"inst", "entry", "struct", "func"}

ParserInit ==
  /\ tokens \in Texts
  /\ position = 1
  /\ goals = <<"program">>
  /\ tree = <<>>
  /\ parse = "running"

-----------------------------------------------------------------------------
\* lookAheadToken: behind the end there is only the end.
Ahead(n) == tokens[IF position + n <= Len(tokens) THEN position + n ELSE Len(tokens)]
Current == Ahead(0)

StartsInstruction(token) == token \in {"inst", "special"}

\* The decisions of parseCommand on an identifier.
\* Slip: the type of a view is taken for an indexed register.
StartsDeclarationWithoutViews == Ahead(1) \in Identifiers \cup {"*", ":"}

StartsDeclaration ==
  \/ Ahead(1) \in Identifiers \cup {"*", ":"}
  \/ Ahead(1) = "[" /\ Ahead(2) = "]"

StartsAssignment == Ahead(1) \in {"=", "[", "."} /\ Current \notin Reserved

\* One alternative of a function, or an error: a sequence of goals in a set.
None == {}
Goals(list) == {list}
When(condition, list) == IF condition THEN Goals(list) ELSE Goals(<<>>)

\* parseDeclaration and the function it calls.
Declaration ==
  CASE Current = "entry" -> Goals(<<"entry", "name", "block">>)
    [] Current = "struct" -> Goals(<<"struct", "type", "{", "fields">>)
    [] Current = "func" -> Goals(<<"func", "type", "name", "parameters">>)
    [] Current = "const" -> Goals(<<"const", "type", "name", "=", "value", ";">>)
    [] OTHER -> Goals(<<"type", "name", "=", "value", ";">>)

\* The qualifiers of parseType; goals tell which of them it has seen.
Qualifiers(seen) ==
  CASE Current \in seen -> None
    [] Current = "const" /\ Current \notin seen ->
         Goals(<<"const", IF seen = {} THEN "after const" ELSE "after both">>)
    [] Current = "volatile" /\ Current \notin seen ->
         Goals(<<"volatile", IF seen = {} THEN "after volatile" ELSE "after both">>)
    [] OTHER -> Goals(<<>>)

\* Behind a field: its semicolon may be missing before another field.
FieldEnd ==
  CASE Current = ";" -> Goals(<<";">>)
    [] Current \in Identifiers \cup {"}", "%reg"} -> Goals(<<>>)
    [] OTHER -> None

\* Slip: the end of the text is read as a value without an operand.
ValueAtEnd ==
  CASE Current = "eof" -> Goals(<<>>)
    [] Current \in Literals -> Goals(<<Current>>)
    [] Current = "[" -> Goals(<<"[", "elements">>)
    [] Current \in Identifiers \ Literals -> Goals(<<"register">>)
    [] OTHER -> None

Value ==
  CASE Current \in Literals -> Goals(<<Current>>)
    [] Current = "[" -> Goals(<<"[", "elements">>)
    [] Current \in Identifiers \ Literals -> Goals(<<"register">>)
    [] OTHER -> None

StartsWithName == Current \in Identifiers /\ ~StartsInstruction(Current)

\* parseCommand up to the '=', behind a volatile that belongs to an instruction.
Target ==
  CASE Current = "%reg" -> Goals(<<"%reg", "initializer">>)
    [] StartsInstruction(Current) -> Goals(<<"volatile?", "action">>)
    [] StartsWithName /\ StartsDeclaration -> Goals(<<"type", "register", "declared">>)
    [] StartsWithName /\ ~StartsDeclaration /\ StartsAssignment ->
         Goals(<<"register", "initializer">>)
    [] OTHER -> None

\* What an instruction, a value or nothing leaves to be read of a command.
Action ==
  CASE StartsInstruction(Current) -> Goals(<<Current, "operands">>)
    [] Current = ";" -> Goals(<<";">>)
    [] OTHER -> Goals(<<"value", ";">>)

\* A loop or an option: the goals behind a token that ends it, else others.
Until(end, list) == IF Current = end THEN Goals(<<end>>) ELSE Goals(list)

Expansion(goal) ==
  CASE goal = "program" -> IF Current = "eof" THEN Goals(<<>>)
                           ELSE Goals(<<"declaration", "program">>)
    [] goal = "declaration" -> Declaration
    [] goal = "fields" -> Until("}", <<"type", "name", "field end", "fields">>)
    [] goal = "field end" -> FieldEnd
    [] goal = "parameters" -> IF Current = "{" THEN Goals(<<"block">>)
                              ELSE Until(";", <<"type", "name", "parameters">>)
    [] goal = "block" -> Goals(<<"{", "commands">>)
    [] goal = "commands" -> Until("}", <<"command", "commands">>)
    [] goal = "command" -> Until(";", <<"volatile?", "target">>)
    [] goal = "volatile?" ->
         When(Current = "volatile" /\ StartsInstruction(Ahead(1)), <<"volatile">>)
    [] goal = "target" -> Target
    [] goal = "declared" -> Until(";", <<"initializer">>)
    [] goal = "initializer" -> Goals(<<"=", "volatile?", "action">>)
    [] goal = "action" -> Action
    [] goal = "operands" -> Until(";", <<"value", "operands">>)
    [] goal = "value" -> Value
    [] goal = "elements" -> Until("]", <<"value", "more elements">>)
    [] goal = "more elements" -> IF Current = "," THEN Goals(<<",", "value", "more elements">>)
                                 ELSE Goals(<<"]">>)
    [] goal = "register" -> Goals(<<"name", "accessors">>)
    [] goal = "accessors" ->
         CASE Current = "[" -> Goals(<<"[", "index", "]", "accessors">>)
           [] Current = "." -> Goals(<<".", "name", "accessors">>)
           [] OTHER -> Goals(<<>>)
    [] goal = "type" -> Goals(<<"qualifiers", "base", "stars", "view", "alignment">>)
    [] goal = "qualifiers" -> Qualifiers({})
    [] goal = "after const" -> Qualifiers({"const"})
    [] goal = "after volatile" -> Qualifiers({"volatile"})
    [] goal = "after both" -> Qualifiers({"const", "volatile"})
    [] goal = "stars" -> When(Current = "*", <<"*", "stars">>)
    [] goal = "view" -> When(Current = "[" /\ Ahead(1) = "]", <<"[", "]", "no star">>)
    [] goal = "no star" -> IF Current = "*" THEN None ELSE Goals(<<>>)
    [] goal = "alignment" -> When(Current = ":", <<":", "index">>)

Nonterminals ==
  {"program", "declaration", "fields", "field end", "parameters", "block",
   "commands", "command", "volatile?", "target", "declared", "initializer",
   "action", "operands", "value", "elements", "more elements", "register",
   "accessors", "type", "qualifiers", "after const", "after volatile",
   "after both", "stars", "view", "no star", "alignment"}

-----------------------------------------------------------------------------
\* What a goal that is not expanded takes: expectTokenType, or consumeToken
\* where the function has looked already.
Takes(goal, token) ==
  CASE goal \in {"name", "base"} -> token \in Identifiers \ Reserved
    [] goal = "index" -> token \in {"num", "num-"}
    [] OTHER -> token = goal

\* consumeToken stays at the last token.
Consumed == IF position < Len(tokens) THEN position + 1 ELSE position

Running == parse = "running" /\ goals # <<>>

Expand ==
  /\ Running
  /\ Head(goals) \in Nonterminals
  /\ \E list \in Expansion(Head(goals)) : goals' = list \o Tail(goals)
  /\ UNCHANGED <<tokens, position, tree, parse>>

Read ==
  /\ Running
  /\ Head(goals) \notin Nonterminals
  /\ Takes(Head(goals), Current)
  /\ Head(goals) = "index" => Current = "num"
  /\ goals' = Tail(goals)
  /\ position' = Consumed
  /\ tree' = Append(tree, <<Head(goals), Current>>)
  /\ UNCHANGED <<tokens, parse>>

\* Slip: the token is consumed before it is judged, as in expectIndexNumber.
RaiseErrorBehind ==
  /\ Running
  /\ IF Head(goals) \in Nonterminals THEN Expansion(Head(goals)) = {}
     ELSE ~Takes(Head(goals), Current)
  /\ parse' = "rejected"
  /\ position' = Consumed
  /\ UNCHANGED <<tokens, goals, tree>>

\* raiseError names the current token.
RaiseError ==
  /\ Running
  /\ IF Head(goals) \in Nonterminals THEN Expansion(Head(goals)) = {}
     ELSE ~Takes(Head(goals), Current)
  /\ parse' = "rejected"
  /\ UNCHANGED <<tokens, position, goals, tree>>

\* expectIndexNumber looks at a number once it has been consumed.
RaiseIndexError ==
  /\ Running
  /\ Head(goals) = "index" /\ Current = "num-"
  /\ position' = Consumed
  /\ parse' = "rejected"
  /\ UNCHANGED <<tokens, goals, tree>>

FinishParse ==
  /\ parse = "running"
  /\ goals = <<>>
  /\ parse' = "accepted"
  /\ UNCHANGED <<tokens, position, goals, tree>>

Parse == Expand \/ Read \/ RaiseError \/ RaiseIndexError \/ FinishParse
=============================================================================
