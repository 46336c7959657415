----------------------------- MODULE CrosECLpc ------------------------------
(***************************************************************************)
(* The protocol's two functions on the ports, as both libraries have them: *)
(* SendCommand waits (ECWait), writes the request, waits, and reads header *)
(* and payload of the response; ReadMemory reads bytes of the memory map   *)
(* or a string (ECTransfer).  HostCommand is SendCommand with what the EC  *)
(* does meanwhile; here it is where every byte goes and how long it takes. *)
(***************************************************************************)
EXTENDS ECWait, ECTransfer

CONSTANTS
  PacketSize,      \* EC_LPC_HOST_PACKET_SIZE, 256
  HeaderSize,      \* 8: the sizes of both headers
  MemMapSize,      \* EC_MEMMAP_SIZE, 255
  Outsizes, Insizes,     \* what clients pass to SendCommand ...
  Offsets, ReadLengths,  \* ... and to ReadMemory
  Lengths,         \* data_len of a response's header, which may be any
  Zeros            \* offsets of zero bytes in the memory map

\* Packets and the memory map have 256 bytes each.  No client has room for
\* more than 256 bytes of an answer; data_len is 16 bits of the EC's.
ASSUME LpcAssumption ==
  /\ PacketSize \in 0 .. 256
  /\ HeaderSize \in 0 .. PacketSize /\ HeaderSize # PacketSize /\ HeaderSize % 4 = 0
  /\ MemMapSize \in 0 .. 255
  /\ Outsizes \subseteq Nat
  /\ Insizes \subseteq Nat /\ \A n \in Insizes : n <= 256
  /\ Offsets \subseteq Nat /\ ReadLengths \subseteq Nat
  /\ Zeros \subseteq Nat
  /\ Lengths \subseteq Nat /\ \A n \in Lengths : n < 65536

VARIABLES
  way,      \* the library: "begin" for Microchip's, "port" for Azalea's
  at,       \* "idle", or what the call is at
  outsize, insize,     \* of SendCommand
  offset, off, cnt,    \* of ReadMemory, until the next call
  zero,     \* the first zero byte of the memory map at or after offset
  filled    \* the bytes ReadMemory has moved, as ECTransfer's moved

readVars == <<offset, off, cnt, zero, filled>>
callVars == <<way, outsize, insize, readVars>>
vars == <<waitVars, transferVars, callVars, at>>

Init ==
  /\ WaitInit
  /\ TransferInit
  /\ way \in {"begin", "port"}
  /\ at = "idle"
  /\ outsize = 0 /\ insize = 0
  /\ offset = 0 /\ off = 0 /\ cnt = 0 /\ zero = 0 /\ filled = {}

Waits == at \in {"wait", "wait_answer"}

\* A turn of the wait, a step of the transfer.
Wait == Waits /\ Turn /\ UNCHANGED <<transferVars, callVars, at>>

Access == at \notin {"idle", "wait", "wait_answer"} /\ Transfer /\ UNCHANGED <<waitVars, callVars, at>>

\* Locals are gone when a function returns, of the wait as of the two below.
Forget ==
  /\ StartWait
  /\ StartTransfer("done", 0, 0)
  /\ outsize' = 0 /\ insize' = 0

Moved == pc \in {"done", "ported"}

-----------------------------------------------------------------------------
(* SendCommand *)

\* Room for the header forgotten.
Fails_header(o) == o > PacketSize

\* "Fail if output size is too big"
Fails(o) == o + HeaderSize > PacketSize

SendCommand(o, n) ==
  /\ at = "idle"
  /\ ~Fails(o)
  /\ at' = "wait"
  /\ outsize' = o /\ insize' = n
  /\ offset' = 0 /\ off' = 0 /\ cnt' = 0 /\ zero' = 0 /\ filled' = {}
  /\ StartWait
  /\ UNCHANGED <<way, transferVars>>

Request ==
  /\ at = "wait" /\ outcome = "ready"
  /\ at' = "request"
  /\ StartWait
  /\ StartTransfer(way, 0, outsize + HeaderSize)
  /\ UNCHANGED callVars

\* "Start the command"
Command ==
  /\ at = "request" /\ Moved
  /\ at' = "wait_answer"
  /\ StartWait
  /\ UNCHANGED <<transferVars, callVars>>

\* The result byte is zero.
Header ==
  /\ at = "wait_answer" /\ outcome = "ready"
  /\ at' = "header"
  /\ StartWait
  /\ StartTransfer(way, 0, HeaderSize)
  /\ UNCHANGED callVars

\* "r.rs.data_len > insize" is the only check, and comes before the checksum:
\* with an insize of more than PacketSize - HeaderSize the bytes moved may pass
\* the end of the packet, and of r.  What overrunning r does to the host's
\* stack is not modelled.
Payload ==
  /\ at = "header" /\ Moved
  /\ \E n \in Lengths :
       /\ 0 < n /\ n <= insize
       /\ StartTransfer(way, HeaderSize, n)
  /\ at' = "payload"
  /\ UNCHANGED <<waitVars, callVars>>

\* A timeout, a result byte that is not zero; a bad header, one without or with
\* too much data; a payload, its checksum right or wrong.
Return ==
  /\ \/ Waits /\ outcome = "timeout"
     \/ at = "wait_answer" /\ outcome = "ready"
     \/ at \in {"header", "payload"} /\ Moved
  /\ at' = "idle"
  /\ Forget
  /\ UNCHANGED <<way, readVars>>

-----------------------------------------------------------------------------
(* ReadMemory *)

\* The memory map is at 0x100 of the EC's memory.
MemMap(o) == 256 + o

\* A read at or past the end returns, -1 or without a byte.
ReadMemory(o, n) ==
  /\ at = "idle"
  /\ o + n <= MemMapSize
  /\ n > 0 \/ o < MemMapSize
  /\ at' = IF n > 0 THEN "bytes" ELSE "string"
  /\ offset' = o /\ off' = o /\ cnt' = n
  /\ zero' \in IF n > 0 THEN {0} ELSE {z \in Zeros : z >= o} \union {MemMapSize}
  /\ filled' = {}
  /\ StartTransfer(way, MemMap(o), IF n > 0 THEN n ELSE 1)
  /\ UNCHANGED <<waitVars, way, outsize, insize>>

\* What a transfer into the buffer from s on has moved.
Shifted(s) == {<<m[1] + s, m[2]>> : m \in moved}

\* "Read specified bytes directly"
BytesRead ==
  /\ at = "bytes" /\ Moved
  /\ at' = "idle"
  /\ filled' = moved
  /\ Forget
  /\ UNCHANGED <<way, offset, off, cnt, zero>>

\* s not advanced with off.
StringByte_stays ==
  /\ at = "string" /\ Moved
  /\ cnt' = cnt + 1
  /\ filled' = filled \union moved
  /\ IF off = zero \/ off + 1 = MemMapSize
       THEN at' = "idle" /\ Forget /\ UNCHANGED off
       ELSE /\ off' = off + 1
            /\ StartTransfer(way, MemMap(off'), 1)
            /\ UNCHANGED <<at, waitVars, outsize, insize>>
  /\ UNCHANGED <<way, offset, zero>>

\* "Read a string until we get a \0"
StringByte ==
  /\ at = "string" /\ Moved
  /\ cnt' = cnt + 1
  /\ filled' = filled \union Shifted(off - offset)
  /\ IF off = zero \/ off + 1 = MemMapSize
       THEN at' = "idle" /\ Forget /\ UNCHANGED off
       ELSE /\ off' = off + 1
            /\ StartTransfer(way, MemMap(off'), 1)
            /\ UNCHANGED <<at, waitVars, outsize, insize>>
  /\ UNCHANGED <<way, offset, zero>>

-----------------------------------------------------------------------------

Clients ==
  \/ \E o \in Outsizes, n \in Insizes : SendCommand(o, n)
  \/ \E o \in Offsets, n \in ReadLengths : ReadMemory(o, n)

Library ==
  \/ Wait \/ Access
  \/ Request \/ Command \/ Header \/ Payload \/ Return
  \/ BytesRead \/ StringByte

Next == Clients \/ Library

\* Straight-line code: whatever the EC does, a call takes its next step.
Spec == Init /\ [][Next]_vars /\ WF_vars(Library)

-----------------------------------------------------------------------------
(* Properties *)

\* The type invariant.
TypeOK ==
  /\ WaitTypeOK /\ TransferTypeOK
  /\ way \in {"begin", "port"}
  /\ at \in {"idle", "wait", "request", "wait_answer", "header", "payload", "bytes", "string"}
  /\ outsize \in Nat /\ insize \in Nat
  /\ offset \in Nat /\ off \in Nat /\ cnt \in Nat /\ zero \in Nat
  /\ filled \subseteq Nat \X Nat

\* Where the packet is: an address of the EMI's or a port.
Packet == IF way = "port" THEN 2048 ELSE 0

\* Whatever data_len the EC's header claims, no call touches a byte outside
\* the region it is about, either way of transferring: the memory map, the
\* packet for requests and headers, and for a payload the insize bytes behind
\* the header.  Those are in the packet for an insize up to 248, which is all
\* clients but FrameworkKeyMapDriver (Driver.c:45), whose 256 is 8 too many.
WithinRegion ==
  \A m \in moved :
    /\ at \in {"bytes", "string"} =>
         m[2] \in IF way = "port" THEN 3584 .. 3839 ELSE 256 .. 511
    /\ at \in {"request", "header"} => m[2] - Packet \in 0 .. PacketSize - 1
    /\ at = "payload" => m[2] - Packet - HeaderSize \in 0 .. insize - 1

\* The first n bytes of ReadMemory's buffer and where they come from.
Asked(n) ==
  {<<k, (IF way = "port" THEN 3584 ELSE 256) + offset + k>> : k \in 0 .. n - 1}

\* ReadMemory leaves in the buffer the bytes it says it has read, although its
\* string mode makes a transfer of one byte at every alignment and each may
\* bring the rest of its word with it: never more than two bytes too many.
ReadIsRight ==
  at = "idle" => Asked(cnt) \subseteq filled /\ filled \subseteq Asked(cnt + 2)

\* Every call returns: a hung EC cannot hang the caller.
CallsReturn == at # "idle" ~> at = "idle"
=============================================================================
