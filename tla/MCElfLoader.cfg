SPECIFICATION Spec
CONSTANTS
  MemorySize = {3, 5, 7, 9, 11, 13, 15, 17, 19, 21}
  Index = {0, 1, 2}
  test_virt <- MCTest
  HeapPage <- MCHeap
  MAX_ROOTS = 2
  Program = {A, B}
  Segments <- MCSegments
  A = A
  B = B
  NULL = NULL
INVARIANTS
  TypeOK
  TablesSound
  FramesAccounted
  HeapEverywhere
  ProgramsIntact
PROPERTIES
  TranslationsStay
CHECK_DEADLOCK FALSE
