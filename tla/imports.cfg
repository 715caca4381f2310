SPECIFICATION CompilationSpec
CONSTANTS
  f1 = f1
  f2 = f2
  f3 = f3
  f4 = f4
  Files = {f1, f2, f3, f4}
  ImportGraphs <- MCGraphs
  Names <- MCNames
  Contents <- MCContents
INVARIANTS
  EachFileOnce
  CyclesReported
  ImportersFirst
  WritesMeanings
PROPERTIES
  SortEnds
CHECK_DEADLOCK FALSE
