----------------------------- MODULE SourceText -----------------------------
(***************************************************************************)
(* A PSI source text and the places in it.  Three pieces of code walk over *)
(* the bytes on their own: the lexer counts lines and columns, the library *)
(* finds the text of a line (sourceLineAt), and the driver finds it again  *)
(* and draws a caret below a column (printDiagnostics).                    *)
(*                                                                         *)
(* A byte is the name of the class of bytes that the code treats alike.    *)
(* Offsets count from 0; Size is one past the last byte.                   *)
(***************************************************************************)
EXTENDS Integers, Sequences, FiniteSetsExt

CONSTANT Sources \* the texts

VARIABLE source

\* Leading bytes of UTF-8 sequences: C2..DF, E0, ED, the other Ex, F0, F4 and
\* the other Fx.  Continuation bytes: 80..8F, 90..9F and A0..BF.
Leads == {"C2", "E0", "E1", "ED", "F0", "F1", "F4"}
Continuations == {"80", "90", "A0"}

Breaks == {"cr", "lf"}
Blanks == Breaks \cup {"space", "tab"}
OctalDigits == {"0", "1"}
Digits == OctalDigits \cup {"9"}
HexDigits == Digits \cup {"a"}
Letters == {"a", "x", "o", "z"}
Punctuation == {"*", ".", "{"}

Bytes == Leads \cup Continuations \cup Blanks \cup Digits \cup Letters \cup Punctuation
           \cup {"nul", "quote", "backslash", "/", "-", "%", "#", "@"}

ASSUME SourcesAssumption == Sources \subseteq Seq(Bytes)

Size == Len(source)
Offsets == 0 .. Size - 1

\* currentChar, lookAheadChar: beyond the end there is a zero.
ByteAt(i) == IF i \in Offsets THEN source[i + 1] ELSE "nul"

\* The offsets that hold one of some bytes.
Holding(bytes) == {i \in Offsets : source[i + 1] \in bytes}

\* Where a run of offsets that begins at i, and may be empty, ends.
EndOfRun(i, run) == Min({j \in i .. Size : j \notin run})

-----------------------------------------------------------------------------
ClaimedLength(lead) ==
  CASE lead = "C2" -> 2
    [] lead \in {"E0", "E1", "ED"} -> 3
    [] lead \in {"F0", "F1", "F4"} -> 4
    [] OTHER -> 1

\* What may follow a leading byte: no overlong forms, surrogates, or values
\* past the last code point.
SecondBytes(lead) ==
  CASE lead = "E0" -> {"A0"}
    [] lead = "ED" -> {"80", "90"}
    [] lead = "F0" -> {"90", "A0"}
    [] lead = "F4" -> {"80"}
    [] OTHER -> Continuations

\* How many bytes before end the sequence at offset i takes; an invalid one
\* counts byte by byte.
utf8SequenceLength(i, end) ==
  LET length == ClaimedLength(ByteAt(i)) IN
  IF /\ i + length <= end
     /\ length > 1 => ByteAt(i + 1) \in SecondBytes(ByteAt(i))
     /\ \A k \in 1 .. length - 1 : ByteAt(i + k) \in Continuations
    THEN length ELSE 1

-----------------------------------------------------------------------------
EndOfLine(begin) == EndOfRun(begin, Offsets \ Holding(Breaks))

AfterBreak(i) == IF ByteAt(i) = "cr" /\ ByteAt(i + 1) = "lf" THEN i + 2 ELSE i + 1

NoLine == [begin |-> -1, end |-> -1]

\* Mutant: the two bytes of a CRLF end a line each.
sourceLineAtEachByte(line) ==
  LET at[n \in 1 .. line] ==
        IF n = 1 THEN [begin |-> 0, end |-> EndOfLine(0)]
        ELSE IF at[n - 1].end \in Offsets
          THEN [begin |-> at[n - 1].end + 1, end |-> EndOfLine(at[n - 1].end + 1)]
          ELSE NoLine
  IN IF line = 0 THEN NoLine ELSE at[line]

\* The library: where a line begins and ends, if the text has so many.
sourceLineAt(line) ==
  LET at[n \in 1 .. line] ==
        IF n = 1 THEN [begin |-> 0, end |-> EndOfLine(0)]
        ELSE IF at[n - 1].end \in Offsets
          THEN LET next == AfterBreak(at[n - 1].end)
               IN  [begin |-> next, end |-> EndOfLine(next)]
          ELSE NoLine
  IN IF line = 0 THEN NoLine ELSE at[line]

\* The driver: it goes past line - 1 breaks, or to the end of the text.
ShownLine(line) ==
  LET begin[n \in 1 .. line] ==
        IF n = 1 THEN 0
        ELSE IF EndOfLine(begin[n - 1]) = Size THEN Size
        ELSE AfterBreak(EndOfLine(begin[n - 1]))
  IN [begin |-> begin[line], end |-> EndOfLine(begin[line])]

TabStop(column) == (column \div 8 + 1) * 8

\* Mutant: the caret moves by bytes.
CaretByBytes(line, column) ==
  LET shown == ShownLine(line)
      after[n \in 0 .. column - 1] ==
        IF n = 0 THEN [at |-> shown.begin, column |-> 2]
        ELSE IF after[n - 1].at >= shown.end THEN after[n - 1]
        ELSE [at |-> after[n - 1].at + 1,
              column |-> IF ByteAt(after[n - 1].at) = "tab"
                           THEN TabStop(after[n - 1].column) ELSE after[n - 1].column + 1]
  IN after[column - 1]

\* The driver's caret: behind column - 1 characters of the line, which it shows
\* after two spaces.
Caret(line, column) ==
  LET shown == ShownLine(line)
      after[n \in 0 .. column - 1] ==
        LET at == after[n - 1].at IN
        IF n = 0 THEN [at |-> shown.begin, column |-> 2]
        ELSE IF at >= shown.end THEN after[n - 1]
        ELSE IF ByteAt(at) = "tab"
          THEN [at |-> at + 1, column |-> TabStop(after[n - 1].column)]
          ELSE [at |-> at + utf8SequenceLength(at, shown.end),
                column |-> after[n - 1].column + 1]
  IN after[column - 1]

-----------------------------------------------------------------------------
(* What lines and columns are, without walking over the text.              *)

\* The offsets just behind a line break: LF, or CR without LF.
LineBegins ==
  {0} \cup {i + 1 : i \in {j \in Offsets :
              \/ ByteAt(j) = "lf"
              \/ ByteAt(j) = "cr" /\ ByteAt(j + 1) # "lf"}}

LineOf(i) == Cardinality({b \in LineBegins : b <= i})
BeginOfLineOf(i) == Max({b \in LineBegins : b <= i})

\* A byte begins a character unless it continues an earlier one.
BeginsCharacter(i) == \A j \in 0 .. i - 1 : j + utf8SequenceLength(j, Size) <= i

ColumnOf(i) == 1 + Cardinality({j \in BeginOfLineOf(i) .. i - 1 : BeginsCharacter(j)})

\* The terminal's column of a byte on a line shown after two spaces.
TerminalColumnOf(i) ==
  LET begin == BeginOfLineOf(i)
      column[j \in begin .. i] ==
        IF j = begin THEN 2
        ELSE IF ByteAt(j - 1) = "tab" THEN TabStop(column[j - 1])
        ELSE IF BeginsCharacter(j - 1) THEN column[j - 1] + 1
        ELSE column[j - 1]
  IN column[i]
=============================================================================
