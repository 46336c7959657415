\* One boot and one panic are enough.
CONSTANTS
  MaxBoots = 1
  MaxPanics = 1
SPECIFICATION Spec
INVARIANTS OldIsOld
