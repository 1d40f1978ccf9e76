SPECIFICATION Spec
CONSTANTS
  MaxCommand = 3
  Names <- MCNames
  Types <- MCNames
  builtinTypes = {"void", "i32"}
  Texts <- MCTexts
INVARIANTS
  AcceptsLanguage
  ErrorAtFirstOffence
  RejectsRecursion
PROPERTY
  FrontEndEnds
\* A text that is judged stays so.
CHECK_DEADLOCK FALSE
