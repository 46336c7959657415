------------------------------ MODULE FlashIO ------------------------------
(***************************************************************************)
(* flash_write and flash_read (Application/ECTool/Flash.c), one after the  *)
(* other on one region and compared, as cmd_reflash does with a region it  *)
(* has erased: chunk by chunk, through buffers of one packet.              *)
(*                                                                         *)
(* A byte is abstracted to a bit, 1 for an erased one; the EC writes by    *)
(* clearing bits, as the Null library does.  Any call may fail, with any   *)
(* part of it done, and a read may answer with fewer bytes than asked.     *)
(***************************************************************************)
EXTENDS Integers

CONSTANTS
  MaxRequest,    \* G_EC_MAX_REQUEST, also the size of commandBuffer
  MaxResponse,   \* G_EC_MAX_RESPONSE
  ParamSize,     \* sizeof(struct ec_params_flash_write)
  FlashSize,
  IdealSizes     \* what the EC may report as write_ideal_size

ASSUME FlashAssumption ==
  /\ MaxRequest \in Nat
  /\ MaxResponse \in Nat \ {0}
  /\ ParamSize \in Nat
  /\ FlashSize \in Nat
  /\ IdealSizes \subseteq Nat

Addresses == 0 .. FlashSize - 1
Bits == {0, 1}

VARIABLES
  base,      \* the region: its first address ...
  size,      \* ... and its size
  image,     \* what is to be written, from the region's first byte on
  flash,     \* the EC's flash
  found,     \* ghost: the flash when flash_write was called
  pc,        \* where the code is, or how it ended
  step,      \* bytes per FLASH_WRITE
  i,         \* loop variable of both functions
  buf,       \* flash_read's buffer of one answer
  check,     \* VerifyBuffer
  short      \* ghost: some answer was shorter than asked

region == <<base, size, image, found>>
vars == <<region, flash, pc, step, i, buf, check, short>>

Lesser(a, b) == IF a <= b THEN a ELSE b

\* The regions of a flash map are not empty; VerifyBuffer comes from the pool
\* as it is.
Init ==
  /\ base \in Addresses
  /\ size \in 1 .. FlashSize - base
  /\ image \in [0 .. size - 1 -> Bits]
  /\ check \in [0 .. size - 1 -> Bits]
  /\ flash \in [Addresses -> Bits]
  /\ found = flash
  /\ pc = "info"
  /\ step = 0
  /\ i = 0
  /\ buf = [k \in 0 .. MaxResponse - 1 |-> 0]
  /\ short = FALSE

-----------------------------------------------------------------------------
(* The EC's flash *)

\* The flash f after n bytes of the image, from its k-th on, have been written
\* where they belong.
Programmed(f, k, n) ==
  [a \in Addresses |->
     IF a \in base + k .. base + k + n - 1 /\ image[a - base] = 0 THEN 0 ELSE f[a]]

-----------------------------------------------------------------------------
(* flash_write *)

\* The step rounded up.
Step_up(ideal) == ((MaxRequest + ideal - 1) \div ideal) * ideal

Step(ideal) == (MaxRequest \div ideal) * ideal

\* FLASH_INFO, and the step: a division.
Info ==
  /\ pc = "info"
  /\ \/ pc' = "error" /\ UNCHANGED step
     \/ \E ideal \in IdealSizes :
          IF ideal = 0 THEN pc' = "fault" /\ UNCHANGED step
                       ELSE pc' = "write" /\ step' = Step(ideal)
  /\ UNCHANGED <<region, flash, i, buf, check, short>>

Chunk == Lesser(size - i, step)

\* The address not advanced with the data.
WriteChunk_inPlace ==
  /\ pc = "write"
  /\ i < size
  /\ Chunk + ParamSize <= MaxRequest
  /\ \/ /\ flash' = Programmed(flash, 0, Chunk)
        /\ i' = i + step
        /\ UNCHANGED pc
     \/ \E n \in 0 .. Chunk : flash' = Programmed(flash, i, n) /\ pc' = "error" /\ UNCHANGED i
  /\ UNCHANGED <<region, step, buf, check, short>>

\* A chunk that fits commandBuffer behind its parameters is sent; the command
\* may fail with any part of it done.
WriteChunk ==
  /\ pc = "write"
  /\ i < size
  /\ Chunk + ParamSize <= MaxRequest
  /\ \/ /\ flash' = Programmed(flash, i, Chunk)
        /\ i' = i + step
        /\ UNCHANGED pc
     \/ \E n \in 0 .. Chunk : flash' = Programmed(flash, i, n) /\ pc' = "error" /\ UNCHANGED i
  /\ UNCHANGED <<region, step, buf, check, short>>

\* (Without a step, a chunk is empty, and the loop goes on for as long as the EC
\* accepts empty chunks.)  One that does not fit is copied past the end of
\* commandBuffer; if the code survives that, SendCommand refuses it
\* (-EC_RES_REQUEST_TRUNCATED).
WriteOverrun ==
  /\ pc = "write"
  /\ i < size
  /\ Chunk + ParamSize > MaxRequest
  /\ pc' \in {"overrun", "error"}
  /\ UNCHANGED <<region, flash, step, i, buf, check, short>>

\* The loop variable left where the writing ended.
WriteEnd_kept ==
  /\ pc = "write"
  /\ i >= size
  /\ pc' = "read"
  /\ UNCHANGED <<region, flash, step, i, buf, check, short>>

\* flash_write returns 0, and flash_read is called.
WriteEnd ==
  /\ pc = "write"
  /\ i >= size
  /\ pc' = "read"
  /\ i' = 0
  /\ UNCHANGED <<region, flash, step, buf, check, short>>

-----------------------------------------------------------------------------
(* flash_read *)

Asked == Lesser(size - i, MaxResponse)

\* The EC answers with n bytes, and as many as were asked for are copied.
ReadChunk ==
  /\ pc = "read"
  /\ i < size
  /\ \/ \E n \in 0 .. Asked :
          /\ buf' = [k \in DOMAIN buf |-> IF k < n THEN flash[base + i + k] ELSE buf[k]]
          /\ check' = [k \in DOMAIN check |-> IF k \in i .. i + Asked - 1 THEN buf'[k - i] ELSE check[k]]
          /\ i' = i + MaxResponse
          /\ short' = (short \/ n < Asked)
          /\ UNCHANGED pc
     \/ pc' = "error" /\ UNCHANGED <<i, buf, check, short>>
  /\ UNCHANGED <<region, flash, step>>

\* A region that does not compare is written again.
ReadEnd_retries ==
  /\ pc = "read"
  /\ i >= size
  /\ i' = 0
  /\ pc' = IF check = image THEN "verified" ELSE "write"
  /\ UNCHANGED <<region, flash, step, buf, check, short>>

\* flash_read returns 0, and cmd_reflash compares.
ReadEnd ==
  /\ pc = "read"
  /\ i >= size
  /\ pc' = IF check = image THEN "verified" ELSE "mismatch"
  /\ UNCHANGED <<region, flash, step, i, buf, check, short>>

-----------------------------------------------------------------------------

Over == {"verified", "mismatch", "error", "fault", "overrun"}

Host == Info \/ WriteChunk \/ WriteOverrun \/ WriteEnd \/ ReadChunk \/ ReadEnd

Rest ==
  /\ pc \in Over
  /\ UNCHANGED vars

Next == Host \/ Rest

\* Straight-line code; every call returns (HostCommand).
Spec == Init /\ [][Next]_vars /\ WF_vars(Host)

-----------------------------------------------------------------------------
(* Properties *)

\* The type invariant; a step is never more than a request.
TypeOK ==
  /\ base \in Addresses
  /\ size \in 1 .. FlashSize - base
  /\ image \in [0 .. size - 1 -> Bits]
  /\ check \in [0 .. size - 1 -> Bits]
  /\ flash \in [Addresses -> Bits] /\ found \in [Addresses -> Bits]
  /\ pc \in {"info", "write", "read"} \union Over
  /\ step \in 0 .. MaxRequest
  /\ i \in Nat
  /\ buf \in [0 .. MaxResponse - 1 -> Bits]
  /\ short \in BOOLEAN

\* Whatever size the EC reports, however the chunks fall and whatever fails:
\* the flash is at all times what it was, with some first bytes of the image
\* written to where they belong.  They are those behind i between two chunks,
\* and the whole image once flash_write has returned 0.
WritesInOrder ==
  \E n \in 0 .. size :
    /\ flash = Programmed(found, 0, n)
    /\ pc = "write" => n = Lesser(i, size)
    /\ pc \in {"read", "verified", "mismatch"} => n = size

\* The check is exact: on an EC that never answers short, a region passes it
\* if and only if it holds the image - even though flash_write pays no heed
\* to what was there, flash_read reuses its buffer, and VerifyBuffer may hold
\* the image to begin with.
VerifiedHolds ==
  pc \in {"verified", "mismatch"} /\ ~short =>
     (pc = "verified" <=> \A k \in 0 .. size - 1 : flash[base + k] = image[k])

\* With a step to take, write and check end whatever the EC answers.
Ends == pc = "write" /\ step > 0 ~> pc \in Over
=============================================================================
