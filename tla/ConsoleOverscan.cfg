\* A packet of three bytes and a log of four: lines and answers cut the log
\* everywhere.
CONSTANTS
  BufMax = 3
  LogMax = 4
SPECIFICATION Spec
INVARIANTS PrintsAnswersOnly
CHECK_DEADLOCK FALSE
