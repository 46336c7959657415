---------------------------- MODULE ECTransfer -----------------------------
(***************************************************************************)
(* ECTransfer of the two libraries: move bytes between a buffer of the     *)
(* host and the EC.  Library/MicrochipCrosECLib/EC.c goes through the EMI  *)
(* of the MEC172x, an address register and a window of four data           *)
(* registers; Library/AzaleaCrosECLib/EC.c has a port for every byte.      *)
(*                                                                         *)
(* Reads and writes make the same accesses, so that a transfer is the set  *)
(* of the pairs it moves: which byte of the buffer, which byte of the EC,  *)
(* by its address or its port.  One action is one access to a data         *)
(* register or a port, or the code between two.                            *)
(***************************************************************************)
EXTENDS Integers

VARIABLES
  start,     \* the address argument, as passed
  size,      \* the size argument
  pc,        \* where ECTransfer is
  address,   \* the address argument, as it is advanced
  pos,       \* the buffer position
  i,         \* loop variable of the byte loops
  reg,       \* the EMI's address register, without its access mode
  moved      \* the bytes moved, as pairs of buffer index and EC address

transferVars == <<start, size, pc, address, pos, i, reg, moved>>

\* address & 0xFFFC
Aligned(a) == a - (a % 4)

TransferInit ==
  /\ start = 0 /\ size = 0
  /\ pc = "done"
  /\ address = 0 /\ pos = 0 /\ i = 0
  /\ reg = 0
  /\ moved = {}

\* A call for n bytes at a, the Microchip way ("begin") or by ports ("port").
StartTransfer(way, a, n) ==
  /\ start' = a /\ size' = n
  /\ pc' = way
  /\ address' = a /\ pos' = 0 /\ i' = 0
  /\ moved' = {}
  /\ UNCHANGED reg

-----------------------------------------------------------------------------
(* MicrochipCrosECLib *)

\* An unaligned start goes bytewise up to the next multiple of four, ...
Begin ==
  /\ pc = "begin"
  /\ IF address % 4 > 0
       THEN /\ reg' = Aligned(address)
            /\ i' = address % 4
            /\ pc' = "head"
       ELSE /\ pc' = "body"
            /\ UNCHANGED <<reg, i>>
  /\ UNCHANGED <<start, size, address, pos, moved>>

\* ... whatever the size.
HeadByte ==
  /\ pc = "head"
  /\ i < 4
  /\ moved' = moved \union {<<pos, reg + i>>}
  /\ pos' = pos + 1
  /\ i' = i + 1
  /\ UNCHANGED <<start, size, pc, address, reg>>

\* The address left behind.
HeadEnd_stays ==
  /\ pc = "head"
  /\ i = 4
  /\ address' = Aligned(address)
  /\ pc' = "body"
  /\ UNCHANGED <<start, size, pos, i, reg, moved>>

HeadEnd ==
  /\ pc = "head"
  /\ i = 4
  /\ address' = Aligned(address + 4)
  /\ pc' = "body"
  /\ UNCHANGED <<start, size, pos, i, reg, moved>>

\* An exact multiple of four left for the byte loop.
Body_strict ==
  /\ pc = "body"
  /\ IF size - pos > 4
       THEN reg' = Aligned(address) /\ pc' = "low"
       ELSE pc' = "rest" /\ UNCHANGED reg
  /\ UNCHANGED <<start, size, address, pos, i, moved>>

\* Words, with the address register in its auto-increment mode.
Body ==
  /\ pc = "body"
  /\ IF size - pos >= 4
       THEN reg' = Aligned(address) /\ pc' = "low"
       ELSE pc' = "rest" /\ UNCHANGED reg
  /\ UNCHANGED <<start, size, address, pos, i, moved>>

\* The 16 bits at MEC_LPC_DATA_REGISTER0 ...
WordLow ==
  /\ pc = "low"
  /\ moved' = moved \union {<<pos, reg>>, <<pos + 1, reg + 1>>}
  /\ pc' = "high"
  /\ UNCHANGED <<start, size, address, pos, i, reg>>

\* ... and at MEC_LPC_DATA_REGISTER2, which advances the address register.
WordHigh ==
  /\ pc = "high"
  /\ moved' = moved \union {<<pos + 2, reg + 2>>, <<pos + 3, reg + 3>>}
  /\ reg' = reg + 4
  /\ pos' = pos + 4
  /\ address' = address + 4
  /\ pc' = IF size - pos' >= 4 THEN "low" ELSE "rest"
  /\ UNCHANGED <<start, size, i>>

\* The bytes that are left, if any are.
Rest ==
  /\ pc = "rest"
  /\ IF size - pos > 0
       THEN /\ reg' = Aligned(address)
            /\ i' = 0
            /\ pc' = "tail"
       ELSE /\ pc' = "done"
            /\ UNCHANGED <<reg, i>>
  /\ UNCHANGED <<start, size, address, pos, moved>>

TailByte ==
  /\ pc = "tail"
  /\ i < size - pos
  /\ moved' = moved \union {<<pos + i, reg + i>>}
  /\ i' = i + 1
  /\ UNCHANGED <<start, size, pc, address, pos, reg>>

TailEnd ==
  /\ pc = "tail"
  /\ i = size - pos
  /\ pc' = "done"
  /\ UNCHANGED <<start, size, address, pos, i, reg, moved>>

-----------------------------------------------------------------------------
(* AzaleaCrosECLib *)

\* 0x800, with bits 9 and 10 for an address over 0xFF and bit 8 for one over
\* 0xFFF, and the low byte of the address.
Port(a) ==
  2048 + (IF a \div 256 # 0 THEN 1536 ELSE 0) + (IF a \div 4096 # 0 THEN 256 ELSE 0)
    + (a % 256)

PortByte ==
  /\ pc = "port"
  /\ i < size
  /\ moved' = moved \union {<<i, Port(start) + i>>}
  /\ i' = i + 1
  /\ UNCHANGED <<start, size, pc, address, pos, reg>>

PortEnd ==
  /\ pc = "port"
  /\ i = size
  /\ pc' = "ported"
  /\ UNCHANGED <<start, size, address, pos, i, reg, moved>>

-----------------------------------------------------------------------------

Transfer ==
  \/ Begin \/ HeadByte \/ HeadEnd \/ Body \/ WordLow \/ WordHigh
  \/ Rest \/ TailByte \/ TailEnd \/ PortByte \/ PortEnd

-----------------------------------------------------------------------------
(* Properties *)

\* The type invariant; a byte loop of the EMI's is never at more than its four
\* registers.
TransferTypeOK ==
  /\ start \in Nat /\ size \in Nat
  /\ pc \in {"begin", "head", "body", "low", "high", "rest", "tail", "done", "port", "ported"}
  /\ address \in Nat /\ pos \in Nat /\ reg \in Nat
  /\ i \in Nat
  /\ pc = "head" => i <= 4
  /\ pc = "tail" => size - pos \in 1 .. 3
  /\ moved \subseteq Nat \X Nat

\* The first n bytes of the buffer, and the n bytes at start.
Copied(n) == {<<k, start + k>> : k \in 0 .. n - 1}
Ported(n) == {<<k, Port(start) + k>> : k \in 0 .. n - 1}

\* What the callers in this repository keep to: an aligned address (0 and 8
\* for packets, 0x20, 0x48, 0x4C and 0x58 of the memory map), or a size that
\* reaches the next multiple of four.
Fits == start % 4 = 0 \/ size >= 4 - (start % 4)

\* The transfer moves exactly the bytes it was asked for, each to its place,
\* although it advances three counters and the EMI advances a fourth.
Exact ==
  /\ pc = "done" /\ Fits => moved = Copied(size)
  /\ pc = "ported" => moved = Ported(size)

\* "Read specified bytes directly": no byte of the buffer beyond the size is
\* touched.
WithinBuffer == \A m \in moved : m[1] < size
=============================================================================
