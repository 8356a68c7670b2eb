\* One thread's exceptions: primary, dependent, forced and foreign, nested up
\* to three contexts, an allocation failure at any event.
CONSTANTS
  Types = {"T", "U"}
  WhatTypes = {"T"}
  Boundaries = {"call_terminate", "clang_stub", "direct"}
  Replaced = {"throw", "terminate"}
  MayFail = TRUE
  MaxRaises = 2
  MaxContexts = 3
  MaxEvents = 4
SPECIFICATION Spec
CHECK_DEADLOCK FALSE
INVARIANTS
  TypeOK
  TerminateLineIsLast
  EveryRoadIsLogged
  LinesNameTheirException
  RaisesAndCatchesAlternate
PROPERTY WhatIsSilent
