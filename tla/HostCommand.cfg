\* Three calls, so that an answer can be late for two later calls.  A packet
\* of 10 bytes holds requests of 0 and 2 data bytes and refuses one of 3.
CONSTANTS
  MaxCalls = 3
  MaxPolls = 2
  PacketSize = 10
  HeaderSize = 8
  StructVersion = 3
  OutSizes = {0, 2, 3}
  InSizes = {2}
  CmdVersions = {0, 1}
  RespVersions = {2, 3}
  RespLens = {0, 1, 3}
  RespReserved = {0, 1}
SPECIFICATION Spec
INVARIANTS TypeOK BufferExclusive OwnAnswer AtMostOnce
PROPERTIES EveryCallReturns RpcSpec
