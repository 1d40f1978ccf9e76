------------------------------- MODULE Lexer -------------------------------
(***************************************************************************)
(* Lexer::tokenize (src/src/lexer.cpp).  One action is one iteration of a  *)
(* loop of tokenize or of skipWhitespaceAndComments, with everything it    *)
(* reads.  What becomes of the token's text is left out: a token is its    *)
(* type, the location that diagnostics about it will have, and (history)   *)
(* the offset at which it really begins.                                   *)
(***************************************************************************)
EXTENDS SourceText

VARIABLES
  cursor,  \* position, line, column, utf8ContinuationBytes, previousWasCarriageReturn
  token,   \* the last token, or the location of the error
  status   \* "reading", "done", or "error" once LocatedSourceError is thrown

vars == <<source, cursor, token, status>>

TokenTypes == {"None", "Identifier", "Number", "String", "SpecialRegister",
          "SpecialInstruction", "Punctuation", "EndOfFile"}

\* No line or column is ahead of the bytes that were read.
TypeOK ==
  /\ source \in Seq(Bytes)
  /\ status \in {"reading", "done", "error"}
  /\ cursor.position \in 0 .. Size
  /\ cursor.line \in 1 .. cursor.position + 1
  /\ cursor.column \in 1 .. cursor.position + 1
  /\ cursor.utf8ContinuationBytes \in 0 .. 3
  /\ cursor.previousWasCarriageReturn \in BOOLEAN
  /\ token.type \in TokenTypes

Start == [position |-> 0, line |-> 1, column |-> 1, utf8ContinuationBytes |-> 0,
          previousWasCarriageReturn |-> FALSE]

\* A token of type that begins where the cursor is.
TokenHere(type) ==
  [type |-> type, line |-> cursor.line, column |-> cursor.column, at |-> cursor.position]

Init ==
  /\ source \in Sources
  /\ cursor = Start
  /\ token = [type |-> "None", line |-> 1, column |-> 1, at |-> 0]
  /\ status = "reading"

-----------------------------------------------------------------------------
\* Mutant: a continuation byte is counted down without a sequence that expects it.
readCharUnguarded(c) ==
  LET byte == ByteAt(c.position)
      next == [c EXCEPT !.position = @ + 1, !.previousWasCarriageReturn = byte = "cr"] IN
  IF byte \in Breaks
    THEN [next EXCEPT !.line = IF byte = "lf" /\ c.previousWasCarriageReturn THEN @ ELSE @ + 1,
                      !.column = 1, !.utf8ContinuationBytes = 0]
  ELSE IF byte \in Continuations
    THEN [next EXCEPT !.utf8ContinuationBytes = @ - 1]
  ELSE [next EXCEPT !.column = @ + 1,
                    !.utf8ContinuationBytes = utf8SequenceLength(c.position, Size) - 1]

\* Mutant: LF after CR counts as another line.
readCharCountingBoth(c) ==
  LET byte == ByteAt(c.position)
      next == [c EXCEPT !.position = @ + 1, !.previousWasCarriageReturn = byte = "cr"] IN
  IF byte \in Breaks
    THEN [next EXCEPT !.line = @ + 1, !.column = 1, !.utf8ContinuationBytes = 0]
  ELSE IF c.utf8ContinuationBytes # 0 /\ byte \in Continuations
    THEN [next EXCEPT !.utf8ContinuationBytes = @ - 1]
  ELSE [next EXCEPT !.column = @ + 1,
                    !.utf8ContinuationBytes = utf8SequenceLength(c.position, Size) - 1]

\* One byte further: CR, LF and CRLF end a line, a UTF-8 sequence is one column.
readChar(c) ==
  LET byte == ByteAt(c.position)
      next == [c EXCEPT !.position = @ + 1, !.previousWasCarriageReturn = byte = "cr"] IN
  IF byte \in Breaks
    THEN [next EXCEPT !.line = IF byte = "lf" /\ c.previousWasCarriageReturn THEN @ ELSE @ + 1,
                      !.column = 1, !.utf8ContinuationBytes = 0]
  ELSE IF c.utf8ContinuationBytes # 0 /\ byte \in Continuations
    THEN [next EXCEPT !.utf8ContinuationBytes = @ - 1]
  ELSE [next EXCEPT !.column = @ + 1,
                    !.utf8ContinuationBytes = utf8SequenceLength(c.position, Size) - 1]

\* Every byte before offset end is read.
ReadUpTo(end) ==
  LET after[i \in cursor.position .. end] ==
        IF i = cursor.position THEN cursor ELSE readChar(after[i - 1])
  IN after[end]

Skip(end) == cursor' = ReadUpTo(end) /\ UNCHANGED <<token, status>>

Accept(type, end) ==
  /\ cursor' = ReadUpTo(end) /\ token' = TokenHere(type)
  /\ UNCHANGED status

\* LocatedSourceError, with the location at which the token or comment began.
Fail(type, end) ==
  /\ cursor' = ReadUpTo(end) /\ token' = TokenHere(type)
  /\ status' = "error"

-----------------------------------------------------------------------------
Position == cursor.position
First == ByteAt(Position)
Second == ByteAt(Position + 1)

AtComment == First = "/" /\ Second \in {"/", "*"}

\* skipWhitespaceAndComments has nothing left to skip.
AtToken == status = "reading" /\ Position < Size /\ First \notin Blanks /\ ~AtComment

SkipBlank ==
  /\ status = "reading" /\ First \in Blanks
  /\ Skip(Position + 1)

SkipLineComment ==
  /\ status = "reading" /\ AtComment /\ Second = "/"
  /\ Skip(EndOfLine(Position + 2))

\* The comment's own star cannot also end it.
SkipBlockComment ==
  LET ends == {i \in Position + 2 .. Size - 2 : ByteAt(i) = "*" /\ ByteAt(i + 1) = "/"} IN
  /\ status = "reading" /\ AtComment /\ Second = "*"
  /\ IF ends = {} THEN Fail("None", Size) ELSE Skip(Min(ends) + 2)

LettersOrDigits == Holding(Letters \cup Digits)

readIdentifier ==
  /\ AtToken /\ First \in Letters
  /\ Accept("Identifier", EndOfRun(Position, LettersOrDigits))

\* Mutant: a number may begin with its point.
LooksLikeNumberOrPoint == First \in Digits \cup {"."} \/ (First = "-" /\ Second \in Digits)

LooksLikeNumber == First \in Digits \/ (First = "-" /\ Second \in Digits)

\* The digits of a number in base 16 or 8 behind its prefix.
BasedNumber(begin, digits) ==
  IF ByteAt(begin) \in digits
    THEN Accept("Number", EndOfRun(begin, Holding(digits)))
    ELSE Fail("Number", begin)

DecimalNumber(begin) ==
  LET point == EndOfRun(begin, Holding(Digits)) IN
  IF ByteAt(point) = "." /\ ByteAt(point + 1) \in Digits
    THEN Accept("Number", EndOfRun(point + 1, Holding(Digits)))
    ELSE Accept("Number", point)

readNumber ==
  LET begin == IF First = "-" THEN Position + 1 ELSE Position
      prefix == <<ByteAt(begin), ByteAt(begin + 1)>> IN
  /\ AtToken /\ LooksLikeNumber
  /\ CASE prefix = <<"0", "x">> -> BasedNumber(begin + 2, HexDigits)
       [] prefix = <<"0", "o">> -> BasedNumber(begin + 2, OctalDigits)
       [] OTHER -> DecimalNumber(begin)

\* A backslash that is not itself escaped escapes the byte behind it.
readString ==
  LET escaped[i \in Position + 1 .. Size] ==
        i > Position + 1 /\ ByteAt(i - 1) = "backslash" /\ ~escaped[i - 1]
      ends == {i \in Position + 1 .. Size - 1 : ByteAt(i) = "quote" /\ ~escaped[i]} IN
  /\ AtToken /\ First = "quote"
  /\ IF ends = {} THEN Fail("String", Size) ELSE Accept("String", Min(ends) + 1)

\* %name, or #name with points inside.
readSpecialToken(marker, type) ==
  LET points == {i \in Holding({"."}) : marker = "#" /\ ByteAt(i + 1) \in Letters} IN
  /\ AtToken /\ First = marker
  /\ IF Second \in Letters
       THEN Accept(type, EndOfRun(Position + 1, LettersOrDigits \cup points))
       ELSE Fail(type, Position + 1)

ReadPunctuation ==
  /\ AtToken /\ First \in Punctuation /\ ~LooksLikeNumber
  /\ Accept("Punctuation", Position + 1)

UnexpectedCharacter ==
  /\ AtToken /\ ~LooksLikeNumber
  /\ First \notin Letters \cup Punctuation \cup {"quote", "%", "#"}
  /\ Fail("None", Position + 1)

EndOfFile ==
  /\ status = "reading" /\ Position = Size
  /\ token' = TokenHere("EndOfFile")
  /\ status' = "done"
  /\ UNCHANGED cursor

\* One iteration; each byte of the text leads to one of these.
Iterate ==
  /\ \/ SkipBlank \/ SkipLineComment \/ SkipBlockComment
     \/ readIdentifier \/ readNumber \/ readString
     \/ readSpecialToken("%", "SpecialRegister")
     \/ readSpecialToken("#", "SpecialInstruction")
     \/ ReadPunctuation \/ UnexpectedCharacter \/ EndOfFile
  /\ UNCHANGED source

\* tokenize has returned or thrown.
Stopped == status # "reading" /\ UNCHANGED vars

Next == Iterate \/ Stopped

Spec == Init /\ [][Next]_vars

-----------------------------------------------------------------------------
\* A token or error is located at the line and the character where it begins,
\* whatever line breaks, tabs, and valid or broken UTF-8 sequences precede it,
\* in comments and strings too (the counters of readChar).
PositionsExact ==
  token.line = LineOf(token.at) /\ token.column = ColumnOf(token.at)

\* The line that the library attaches to a diagnostic, and the one that the
\* driver prints, are the one line of the text with the token in it.
LinesAgree ==
  LET line == [begin |-> BeginOfLineOf(token.at), end |-> EndOfLine(BeginOfLineOf(token.at))] IN
  sourceLineAt(token.line) = line /\ ShownLine(token.line) = line

\* The driver's caret stands below the first byte of the token.
CaretBelowToken ==
  Caret(token.line, token.column) =
    [at |-> token.at, column |-> TerminalColumnOf(token.at)]

\* Every iteration reads something or is the last one, so that tokenize ends on
\* every text: no token is empty, and no run of the scanning loops is.
ReadsOn == [][cursor'.position > cursor.position \/ status' # "reading"]_vars
=============================================================================
