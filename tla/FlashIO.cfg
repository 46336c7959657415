\* A packet with room for one byte of parameters and two of data; answers of two.
\* Regions take up to two chunks each way, the last of them half a chunk.  The sizes
\* the EC reports: a division by zero, chunks of one too many, two that fit, no step.
CONSTANTS
  MaxRequest = 3
  MaxResponse = 2
  ParamSize = 1
  FlashSize = 4
  IdealSizes = {0, 1, 2, 4}
SPECIFICATION Spec
INVARIANTS TypeOK WritesInOrder VerifiedHolds
PROPERTIES Ends
