SPECIFICATION Spec
CHECK_DEADLOCK FALSE
SYMMETRY Symmetry
CONSTANTS
  Loops = {l1, l2}
  Scenes <- AllScenes
INVARIANTS
  WakeupsAreConserved
  TickWakesItsOwnSleep
  SchedulesAreFinite
  OwnerLeavesNothing
  FreeWhenUnused
  ParkedIsNotForgotten
