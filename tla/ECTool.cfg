\* Three images, so that the second finds what the first left in flight or
\* resident, and the third what the second made of it.
CONSTANTS
  MaxImages = 3
  BufMax = 3
  LogMax = 3
SPECIFICATION Spec
INVARIANTS TypeOK ProtocolSound Served RunsAsSent ReadsUnlocked Relocked ConsoleComplete
PROPERTIES EveryImageEnds
