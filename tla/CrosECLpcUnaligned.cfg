\* The same reads: short ones off a multiple of four, and strings, among them.
CONSTANTS
  Timeout = 1000000
  FirstDelay = 5
  QuickUntil = 20
  MaxDelay = 10000
  PacketSize = 256
  HeaderSize = 8
  MemMapSize = 255
  Outsizes = {0, 5, 13, 248, 249}
  Insizes = {0, 6, 248, 256}
  Lengths = {0, 1, 6, 248, 249, 256, 257}
  Offsets = {32, 72, 76, 88, 247, 249, 250, 251, 254, 255}
  Zeros = {32, 33, 36, 251, 252, 254}
  ReadLengths = {0, 1, 2, 3, 4, 5}
SPECIFICATION Spec
INVARIANTS WithinBuffer
