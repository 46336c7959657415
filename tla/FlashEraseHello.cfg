\* One refused erase is enough.
CONSTANTS
  WaitTime = 2
  HelloTries = 20
  HelloPause = 0
  AsyncTries = 4
  AsyncPause = 1
  EraseTimes = {1, 5, 80}
SPECIFICATION Spec
INVARIANTS HelloAfterTimeout
