\* The numbers of the code in units of half a second; erases that fit into one wait,
\* need several tries, or outlast all of them.
CONSTANTS
  WaitTime = 2
  HelloTries = 20
  HelloPause = 0
  AsyncTries = 4
  AsyncPause = 1
  EraseTimes = {1, 5, 80}
SPECIFICATION Spec
INVARIANTS TypeOK OkIsOver OkIsErased SyncPatience
PROPERTIES EraseReturns
