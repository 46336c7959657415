\* Three boots and two panics: one seen before, one that comes in between.
CONSTANTS
  MaxBoots = 3
  MaxPanics = 2
SPECIFICATION Spec
INVARIANTS TypeOK SavedOnce
PROPERTIES NeverBack EveryBootEnds
