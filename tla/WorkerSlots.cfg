CONSTANTS
  Calls = {k1, k2, k3, k4}
  Slots = 2
SPECIFICATION FairSlotsSpec
INVARIANTS
  SlotsAreConserved
PROPERTIES
  SlotsComeBack
CHECK_DEADLOCK FALSE
