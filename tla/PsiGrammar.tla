----------------------------- MODULE PsiGrammar -----------------------------
(***************************************************************************)
(* The language of PSI as a context-free grammar, over the tokens of       *)
(* module Parser: what the nodes of src/src/parser.hpp can be written as.  *)
(* Nothing here looks ahead.  Where an instruction and a name, or a type   *)
(* and its qualifier, would be ambiguous, the classes of tokens tell them  *)
(* apart: an instruction's name that stands where an instruction may stand *)
(* is the instruction, and the name of a kind of declaration at the start  *)
(* of a declaration starts it.                                             *)
(***************************************************************************)
EXTENDS FrontEnd

Free == Identifiers \ Reserved                     \* names of anything
GlobalWord == Free \ {"entry", "struct", "func"}   \* of the type of a global
LocalWord == Free \ {"inst"}                       \* at the start of a command

\* The tokens that a terminal symbol stands for; every token stands for itself.
Class(symbol) ==
  CASE symbol = "<free>" -> Free
    [] symbol = "<global>" -> GlobalWord
    [] symbol = "<local>" -> LocalWord
    [] symbol = "<literal>" -> Literals
    [] symbol = "<instruction>" -> {"inst", "special"}
    [] OTHER -> {symbol}

Rules ==
  [Program |-> {<<"eof">>, <<"Declaration", "Program">>},
   Declaration |->
     {<<"entry", "<free>", "Block">>,
      <<"struct", "Type", "{", "Members">>,
      <<"func", "Type", "<free>", "Arguments">>,
      <<"const", "Type", "<free>", "=", "Value", ";">>,
      <<"<global>", "Derived", "<free>", "=", "Value", ";">>,
      <<"volatile", "<free>", "Derived", "<free>", "=", "Value", ";">>,
      <<"volatile", "const", "<free>", "Derived", "<free>", "=", "Value", ";">>},
   Members |-> {<<"}">>, <<"Type", "<free>", "Members">>,
                <<"Type", "<free>", ";", "Members">>},
   Arguments |-> {<<";">>, <<"Block">>, <<"Type", "<free>", "Arguments">>},
   Type |-> {<<"Qualified", "Derived">>},
   Qualified |-> {<<"<free>">>, <<"const", "<free>">>, <<"volatile", "<free>">>,
                  <<"const", "volatile", "<free>">>, <<"volatile", "const", "<free>">>},
   Derived |-> {<<"*", "Derived">>, <<"[", "]", "Aligned">>, <<"Aligned">>},
   Aligned |-> {<<>>, <<":", "num">>},
   Block |-> {<<"{", "Commands">>},
   Commands |-> {<<"}">>, <<"Command", "Commands">>},
   Command |-> {<<";">>, <<"Instruction">>, <<"Target", "=", "Result">>,
                <<"LocalType", "Register", ";">>},
   LocalType |->
     {<<"<local>", "Derived">>, <<"volatile", "<local>", "Derived">>,
      <<"const", "<free>", "Derived">>, <<"const", "volatile", "<free>", "Derived">>,
      <<"volatile", "const", "<free>", "Derived">>},
   Target |-> {<<"%reg">>, <<"<local>", "Accessors">>, <<"LocalType", "Register">>},
   Result |-> {<<";">>, <<"Instruction">>, <<"<literal>", ";">>, <<"Array", ";">>,
               <<"<local>", "Accessors", ";">>},
   Instruction |-> {<<"<instruction>", "Operands">>,
                    <<"volatile", "<instruction>", "Operands">>},
   Operands |-> {<<"Array", "Operands">>, <<"ScalarOperands">>},
   ScalarOperands |-> {<<";">>, <<"<literal>", "Operands">>,
                       <<"Register", "ScalarOperands">>},
   Value |-> {<<"<literal>">>, <<"Register">>, <<"Array">>},
   Array |-> {<<"[", "]">>, <<"[", "Elements", "]">>},
   Elements |-> {<<"Value">>, <<"Value", ",", "Elements">>},
   Register |-> {<<"<free>", "Accessors">>},
   Accessors |-> {<<>>, <<"[", "num", "]", "Accessors">>, <<".", "<free>", "Accessors">>}]

\* What a form begins with once its first symbol is a terminal, in every way.
RECURSIVE Opened(_)
Opened(form) ==
  IF form = <<>> \/ Head(form) \notin DOMAIN Rules THEN {form}
  ELSE UNION {Opened(body \o Tail(form)) : body \in Rules[Head(form)]}

\* The forms of the rest behind one more token.
Continued(forms, token) ==
  UNION {Opened(Tail(form)) : form \in
    {f \in forms : f # <<>> /\ token \in Class(Head(f))}}

\* Readings[n]: what may follow the first n - 1 tokens, a form for every
\* reading of them.
Readings ==
  FoldLeft(LAMBDA readings, token : Append(readings, Continued(Last(readings), token)),
           <<Opened(<<"Program">>)>>, tokens)

InLanguage == <<>> \in Last(Readings)

\* The first token with which the text stops being the start of a program.
Offence ==
  LET readings == Readings
  IN CHOOSE n \in DOMAIN tokens : readings[n] # {} /\ readings[n + 1] = {}

-----------------------------------------------------------------------------
(***************************************************************************)
(* The parser decides by the next one, two or three tokens and never goes  *)
(* back, yet it accepts exactly the texts that the grammar derives in some *)
(* way: no decision (declaration or assignment, view or index, qualifier   *)
(* or volatile instruction, field or end) loses a reading of the text.     *)
(* (What is accepted is compared once, before its structs are judged.)     *)
(***************************************************************************)
AcceptsLanguage ==
  /\ parse = "accepted" /\ verdict = "none" => InLanguage
  /\ parse = "rejected" => ~InLanguage

(***************************************************************************)
(* An error is reported where the text goes wrong: all before the token    *)
(* that raiseError names can be continued to a program, and the named      *)
(* token, or the next one when the parser had to look at it to decide,     *)
(* cannot follow.  The one exception is expectIndexNumber, which judges a  *)
(* number after it has consumed it and so names the token behind it.       *)
(***************************************************************************)
ErrorAtFirstOffence ==
  parse = "rejected" =>
    LET offence == Offence
    IN IF tokens[offence] = "num-" /\ goals[1] = "index"
       THEN position = offence + 1
       ELSE position \in {offence - 1, offence}
=============================================================================
