\* Three live frames of any layout, a signal handler on an alternate stack,
\* jumps, catches, tail exits, colliding sites and failing insertions.
CONSTANTS
  Layout <- MCLayout
  Sizes <- MCSizes
  SlotOf <- MCSlotOf
  TailExits = {"fix"}
  MaxDistance = 8
  StackTop = 50
  AltTop = 120
  BoundsKnown = TRUE
  MaxAlloca = 2
  MaxFrames = 3
  MaxHooks = 4
SPECIFICATION Spec
CHECK_DEADLOCK FALSE
INVARIANTS
  TypeOK
  LevelsOrderLikeFrames
  DescribedLevelsAreExact
