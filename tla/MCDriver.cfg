SPECIFICATION Spec
CONSTANTS
  Absent = Absent
  Empty = Empty
  ProgramStatus = ProgramStatus
  MaxArguments = 4
  CommandLines <- MCCommandLines
  Files <- MCFiles
  WithExtension <- MCWithExtension
  NativeTriple <- MCNativeTriple
INVARIANTS
  StatusTellsOutcome
  FilesKept
  SelectionStable
  ProfilesDocumented
\* A run ends.
CHECK_DEADLOCK FALSE
