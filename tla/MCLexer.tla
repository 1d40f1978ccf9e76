------------------------------ MODULE MCLexer ------------------------------
(***************************************************************************)
(* An instance of Lexer: all short texts over the bytes that matter to     *)
(* lines and columns, and over those that matter to the ends of tokens and *)
(* comments.                                                               *)
(***************************************************************************)
EXTENDS Lexer, SequencesExt

Texts(bytes, length) == BoundedSeq(bytes, length)

Within(prefix, texts, suffix) == {prefix \o t \o suffix : t \in texts}

MCSources ==
  Texts({"cr", "lf", "tab", "z"}, 6)
    \cup Texts({"lf", "E0", "A0", "80", "tab", "z"}, 5)
    \cup Texts({"ED", "90", "A0", "F4", "80", "F0", "E1", "C2"}, 4)
    \cup Within(<<"quote">>, Texts({"C2", "A0", "backslash", "lf", "quote"}, 5), <<"quote", "z">>)
    \cup Within(<<"/", "*">>, Texts({"/", "*", "cr", "lf", "F0", "90"}, 5), <<"z">>)
    \cup Within(<<"/", "/">>, Texts({"/", "cr", "C2", "A0"}, 4), <<"cr", "z">>)
    \cup Texts({"-", "0", "9", "x", "o", ".", "a", "1"}, 4)
    \cup Texts({"#", "%", ".", "a", "0", "*", "@", "space"}, 4)
=============================================================================
