--------------------------- MODULE FlashIOProofs ---------------------------
(***************************************************************************)
(* Proofs about FlashIO, for every packet size, flash, region and reported *)
(* write size.                                                             *)
(*                                                                         *)
(* The argument.  Writing n bytes of the image and then m more is writing  *)
(* n + m (ProgrammedMore), so that between two chunks the flash holds the  *)
(* first i bytes; a call that fails adds some more of them.  Reading does  *)
(* the same with VerifyBuffer: without a short answer, its first i bytes   *)
(* are those of the region (ReadInv), and after the last chunk all are.    *)
(*                                                                         *)
(* The end of both is near when few bytes and few steps are left           *)
(* (StepsLeft); a step of flash_write that is not positive is the          *)
(* exception.                                                              *)
(***************************************************************************)
EXTENDS FlashIO, TLAPS

ReadInv ==
  pc \in {"read", "verified", "mismatch"} /\ ~short =>
     \A k \in 0 .. size - 1 : k < i => check[k] = flash[base + k]

EndInv ==
  /\ pc = "info" => i = 0 /\ flash = found
  /\ pc \in {"verified", "mismatch"} => i >= size /\ (pc = "verified" <=> check = image)

IInv == TypeOK /\ WritesInOrder /\ ReadInv /\ EndInv

-----------------------------------------------------------------------------

\* What was written after n bytes of the image, and m more.
LEMMA ProgrammedMore ==
  ASSUME NEW f, NEW n \in Nat, NEW m \in Nat, base \in Nat, FlashSize \in Nat
  PROVE  Programmed(Programmed(f, 0, n), n, m) = Programmed(f, 0, n + m)
<1>1. ASSUME NEW a \in Addresses
      PROVE  (a \in base + 0 .. base + 0 + (n + m) - 1)
               <=> \/ a \in base + 0 .. base + 0 + n - 1
                   \/ a \in base + n .. base + n + m - 1
  BY DEF Addresses
<1> QED
  BY <1>1 DEF Programmed

\* Nothing was written.
LEMMA ProgrammedNone ==
  ASSUME NEW f \in [Addresses -> Bits], base \in Nat, FlashSize \in Nat, NEW k \in Nat
  PROVE  Programmed(f, k, 0) = f
BY DEF Programmed, Addresses

LEMMA ProgrammedType ==
  ASSUME NEW f \in [Addresses -> Bits], NEW k, NEW n
  PROVE  Programmed(f, k, n) \in [Addresses -> Bits]
BY DEF Programmed, Bits

\* The step is no more than a request, for any divisor.
LEMMA StepFacts ==
  ASSUME NEW ideal \in Nat \ {0}
  PROVE  Step(ideal) \in 0 .. MaxRequest
<1>1. MaxRequest \div ideal \in Nat
  BY FlashAssumption
<1>2. MaxRequest = ideal * (MaxRequest \div ideal) + (MaxRequest % ideal)
  BY FlashAssumption
<1>3. MaxRequest % ideal \in Nat
  BY FlashAssumption
<1>4. (MaxRequest \div ideal) * ideal = ideal * (MaxRequest \div ideal)
  BY <1>1
<1>5. ideal * (MaxRequest \div ideal) \in Nat
  BY <1>1
<1> QED
  BY <1>2, <1>3, <1>4, <1>5, FlashAssumption DEF Step

LEMMA InitIInv == Init => IInv
<1> SUFFICES ASSUME Init PROVE IInv
  OBVIOUS
<1> USE FlashAssumption DEF Init
<1>1. TypeOK
  <2>1. buf \in [0 .. MaxResponse - 1 -> Bits]
    BY DEF Bits
  <2>2. flash \in [Addresses -> Bits] /\ found \in [Addresses -> Bits]
    OBVIOUS
  <2>3. base \in Addresses /\ size \in 1 .. FlashSize - base /\ step \in 0 .. MaxRequest
    OBVIOUS
  <2>4. image \in [0 .. size - 1 -> Bits] /\ check \in [0 .. size - 1 -> Bits]
    OBVIOUS
  <2>5. pc \in {"info", "write", "read"} \union Over /\ i \in Nat /\ short \in BOOLEAN
    OBVIOUS
  <2> QED
    BY <2>1, <2>2, <2>3, <2>4, <2>5 DEF TypeOK
<1>2. flash = Programmed(found, 0, 0)
  BY ProgrammedNone DEF Addresses
<1>3. WritesInOrder
  BY <1>2 DEF WritesInOrder, Addresses
<1>4. ReadInv /\ EndInv
  BY DEF ReadInv, EndInv
<1> QED
  BY <1>1, <1>3, <1>4 DEF IInv

-----------------------------------------------------------------------------

LEMMA InfoInv == IInv /\ Info => IInv'
<1> SUFFICES ASSUME IInv, Info PROVE IInv'
  OBVIOUS
<1> USE FlashAssumption DEF IInv, Info, region
<1>1. step' \in 0 .. MaxRequest
  BY StepFacts DEF TypeOK
<1>2. TypeOK'
  BY <1>1 DEF TypeOK, Over
<1>3. WritesInOrder'
  <2>1. flash = Programmed(found, 0, 0)
    BY ProgrammedNone DEF EndInv, TypeOK, Addresses
  <2>2. Programmed(found, 0, 0)' = Programmed(found, 0, 0)
    BY DEF Programmed
  <2>3. 0 \in 0 .. size' /\ 0 = Lesser(i', size')
    BY DEF EndInv, TypeOK, Lesser, Addresses
  <2> QED
    BY <2>1, <2>2, <2>3 DEF WritesInOrder
<1>4. ReadInv' /\ EndInv'
  BY DEF ReadInv, EndInv
<1> QED
  BY <1>2, <1>3, <1>4

LEMMA WriteChunkInv == IInv /\ WriteChunk => IInv'
<1> SUFFICES ASSUME IInv, WriteChunk PROVE IInv'
  OBVIOUS
<1> USE FlashAssumption DEF IInv, WriteChunk, region
<1>1. Chunk \in Nat /\ i + Chunk <= size
  BY DEF Chunk, Lesser, TypeOK, Addresses
<1>2. base \in Nat
  BY DEF TypeOK, Addresses
<1>3. flash = Programmed(found, 0, i)
  BY DEF WritesInOrder, Lesser, TypeOK
<1>4. ASSUME NEW n \in 0 .. Chunk
      PROVE  Programmed(flash, i, n) = Programmed(found, 0, i + n)
  BY <1>1, <1>2, <1>3, ProgrammedMore DEF TypeOK
<1>5. TypeOK'
  <2>1. flash' \in [Addresses -> Bits]
    BY ProgrammedType DEF TypeOK
  <2> QED
    BY <2>1 DEF TypeOK, Over
<1>6. WritesInOrder'
  <2>1. CASE pc' = "write"
    <3>1. flash' = Programmed(flash, i, Chunk) /\ i' = i + step
      BY <2>1
    <3>2. flash' = Programmed(found, 0, i + Chunk)
      BY <3>1, <1>1, <1>4
    <3>3. i + Chunk = Lesser(i + step, size)
      BY DEF Chunk, Lesser, TypeOK, Addresses
    <3> QED
      BY <2>1, <3>1, <3>2, <3>3, <1>1 DEF WritesInOrder, Programmed, TypeOK
  <2>2. CASE pc' = "error"
    <3>1. PICK n \in 0 .. Chunk : flash' = Programmed(flash, i, n)
      BY <2>2
    <3>2. flash' = Programmed(found, 0, i + n)
      BY <3>1, <1>4
    <3>3. PICK m \in 0 .. size : m = i + n
      BY <1>1 DEF TypeOK
    <3>4. flash' = Programmed(found, 0, m)'
      BY <3>2, <3>3 DEF Programmed
    <3>5. m \in 0 .. size'
      OBVIOUS
    <3> QED
      BY <2>2, <3>4, <3>5 DEF WritesInOrder
  <2> QED
    BY <2>1, <2>2
<1>7. ReadInv' /\ EndInv'
  BY DEF ReadInv, EndInv
<1> QED
  BY <1>5, <1>6, <1>7

\* Steps that leave the flash alone.
LEMMA SameFlash ==
  ASSUME IInv, UNCHANGED <<region, flash>>, pc \notin {"info", "write"},
         pc' \in {"read", "verified", "mismatch"} => pc \in {"read", "verified", "mismatch"},
         pc' # "write"
  PROVE  WritesInOrder'
BY DEF IInv, WritesInOrder, Programmed, region, Addresses

LEMMA WriteOverrunInv == IInv /\ WriteOverrun => IInv'
<1> SUFFICES ASSUME IInv, WriteOverrun PROVE IInv'
  OBVIOUS
<1> USE FlashAssumption DEF IInv, WriteOverrun, region
<1>1. TypeOK'
  BY DEF TypeOK, Over
<1>2. WritesInOrder'
  BY DEF WritesInOrder, Programmed, Addresses
<1>3. ReadInv' /\ EndInv'
  BY DEF ReadInv, EndInv
<1> QED
  BY <1>1, <1>2, <1>3

LEMMA WriteEndInv == IInv /\ WriteEnd => IInv'
<1> SUFFICES ASSUME IInv, WriteEnd PROVE IInv'
  OBVIOUS
<1> USE FlashAssumption DEF IInv, WriteEnd, region
<1>1. TypeOK'
  BY DEF TypeOK
<1>2. WritesInOrder'
  <2>1. flash = Programmed(found, 0, size)
    BY DEF WritesInOrder, Lesser, TypeOK, Addresses
  <2> QED
    BY <2>1 DEF WritesInOrder, Programmed, Addresses, TypeOK
<1>3. ReadInv' /\ EndInv'
  BY DEF ReadInv, EndInv, TypeOK
<1> QED
  BY <1>1, <1>2, <1>3

LEMMA ReadChunkInv == IInv /\ ReadChunk => IInv'
<1> SUFFICES ASSUME IInv, ReadChunk PROVE IInv'
  OBVIOUS
<1> USE FlashAssumption DEF IInv, ReadChunk, region
<1>1. CASE pc' = "error" /\ UNCHANGED <<i, buf, check, short>>
  <2>1. TypeOK'
    BY <1>1 DEF TypeOK, Over
  <2>2. ReadInv' /\ EndInv'
    BY <1>1 DEF ReadInv, EndInv
  <2> QED
    BY <1>1, <2>1, <2>2, SameFlash
<1>2. CASE \E n \in 0 .. Asked :
             /\ buf' = [k \in DOMAIN buf |-> IF k < n THEN flash[base + i + k] ELSE buf[k]]
             /\ check' = [k \in DOMAIN check |->
                            IF k \in i .. i + Asked - 1 THEN buf'[k - i] ELSE check[k]]
             /\ i' = i + MaxResponse
             /\ short' = (short \/ n < Asked)
             /\ UNCHANGED pc
  <2>1. PICK n \in 0 .. Asked :
             /\ buf' = [k \in DOMAIN buf |-> IF k < n THEN flash[base + i + k] ELSE buf[k]]
             /\ check' = [k \in DOMAIN check |->
                            IF k \in i .. i + Asked - 1 THEN buf'[k - i] ELSE check[k]]
             /\ i' = i + MaxResponse
             /\ short' = (short \/ n < Asked)
             /\ UNCHANGED pc
    BY <1>2
  <2>2. Asked \in 1 .. MaxResponse /\ i + Asked <= size
    BY DEF Asked, Lesser, TypeOK, Addresses
  <2>3. DOMAIN buf = 0 .. MaxResponse - 1 /\ DOMAIN check = 0 .. size - 1
    BY DEF TypeOK
  <2>4. buf' \in [0 .. MaxResponse - 1 -> Bits]
    <3>1. ASSUME NEW k \in 0 .. MaxResponse - 1, k < n
          PROVE  flash[base + i + k] \in Bits
      BY <3>1, <2>2 DEF TypeOK, Addresses
    <3> QED
      BY <2>1, <2>3, <3>1 DEF TypeOK
  <2>5. check' \in [0 .. size - 1 -> Bits]
    <3>1. ASSUME NEW k \in i .. i + Asked - 1
          PROVE  buf'[k - i] \in Bits
      BY <2>2, <2>4 DEF TypeOK
    <3> QED
      BY <2>1, <2>3, <3>1 DEF TypeOK
  <2>6. short' \in BOOLEAN
    BY <2>1 DEF TypeOK
  <2>7. TypeOK'
    BY <2>1, <2>4, <2>5, <2>6 DEF TypeOK
  <2>8. ReadInv'
    <3> SUFFICES ASSUME ~short', NEW k \in 0 .. size - 1, k < i + MaxResponse
                 PROVE  check'[k] = flash[base + k]
      BY <2>1 DEF ReadInv
    <3>1. ~short /\ n = Asked
      <4>1. ~(short \/ n < Asked)
        BY <2>1, Zenon
      <4> QED
        BY <4>1, <2>1, <2>2
    <3>2. CASE k < i
      BY <2>1, <2>3, <3>1, <3>2 DEF ReadInv, TypeOK
    <3>3. CASE k >= i
      <4>1. k \in i .. i + Asked - 1
        BY <3>3 DEF Asked, Lesser, TypeOK, Addresses
      <4>2. check'[k] = buf'[k - i]
        BY <2>1, <2>3, <4>1
      <4>3. buf'[k - i] = flash[base + i + (k - i)]
        BY <2>1, <2>2, <2>3, <3>1, <4>1 DEF TypeOK
      <4>4. base + i + (k - i) = base + k
        BY DEF TypeOK, Addresses
      <4> QED
        BY <4>2, <4>3, <4>4
    <3> QED
      BY <3>2, <3>3 DEF TypeOK
  <2>9. EndInv'
    BY <2>1 DEF EndInv
  <2> QED
    BY <2>1, <2>7, <2>8, <2>9, SameFlash
<1> QED
  BY <1>1, <1>2

LEMMA ReadEndInv == IInv /\ ReadEnd => IInv'
<1> SUFFICES ASSUME IInv, ReadEnd PROVE IInv'
  OBVIOUS
<1> USE FlashAssumption DEF IInv, ReadEnd, region
<1>1. TypeOK'
  BY DEF TypeOK, Over
<1>2. ReadInv' /\ EndInv'
  BY DEF ReadInv, EndInv
<1> QED
  BY <1>1, <1>2, SameFlash

LEMMA NextIInv == IInv /\ [Next]_vars => IInv'
<1> SUFFICES ASSUME IInv, [Next]_vars PROVE IInv'
  OBVIOUS
<1>1. CASE UNCHANGED vars
  BY <1>1 DEF vars, region, IInv, TypeOK, WritesInOrder, ReadInv, EndInv, Programmed, Addresses
<1> QED
  BY <1>1, InfoInv, WriteChunkInv, WriteOverrunInv, WriteEndInv, ReadChunkInv, ReadEndInv
     DEF Next, Host, Rest

LEMMA AlwaysIInv == Spec => []IInv
BY InitIInv, NextIInv, PTL DEF Spec

-----------------------------------------------------------------------------

\* Type correctness; the step is never more than a request.
THEOREM TypeCorrect == Spec => []TypeOK
BY AlwaysIInv, PTL DEF IInv

\* Whatever size the EC reports and whatever fails, the image is written in
\* order, each byte to its place, and wholly when flash_write returns 0.
THEOREM WritingIsInOrder == Spec => []WritesInOrder
BY AlwaysIInv, PTL DEF IInv

\* Unless the EC answers short, a region passes the check if and only if it
\* holds the image.
THEOREM CheckIsExact == Spec => []VerifiedHolds
<1>1. IInv => VerifiedHolds
  <2> SUFFICES ASSUME IInv, pc \in {"verified", "mismatch"}, ~short
               PROVE  pc = "verified" <=> \A k \in 0 .. size - 1 : flash[base + k] = image[k]
    BY DEF VerifiedHolds
  <2> USE DEF IInv
  <2>1. \A k \in 0 .. size - 1 : check[k] = flash[base + k]
    BY FlashAssumption DEF ReadInv, EndInv, TypeOK, Addresses
  <2>2. check = image <=> \A k \in 0 .. size - 1 : check[k] = image[k]
    BY DEF TypeOK
  <2> QED
    BY <2>1, <2>2 DEF EndInv
<1> QED
  BY <1>1, AlwaysIInv, PTL

-----------------------------------------------------------------------------
(* What cmd_reflash gets from them: it writes regions it has erased. *)

\* The flash, byte for byte, while and after the writing.
ElsewhereKept ==
  \A a \in Addresses : a \notin base .. base + size - 1 => flash[a] = found[a]

OnlyCleared ==
  \A a \in Addresses : flash[a] = found[a] \/ flash[a] = 0

ErasedPasses ==
  /\ pc \in {"verified", "mismatch"}
  /\ ~short
  /\ \A k \in 0 .. size - 1 : found[base + k] = 1
  => pc = "verified"

\* Whatever size the EC reports and wherever a call fails: a byte outside the
\* region keeps its value, and inside it bits are only cleared.
THEOREM WritingKeepsElsewhere == Spec => [](ElsewhereKept /\ OnlyCleared)
<1>1. IInv => ElsewhereKept /\ OnlyCleared
  <2> SUFFICES ASSUME IInv PROVE ElsewhereKept /\ OnlyCleared
    OBVIOUS
  <2>1. PICK n \in 0 .. size : flash = Programmed(found, 0, n)
    BY DEF IInv, WritesInOrder
  <2>2. \A a \in Addresses : flash[a] = found[a] \/ (flash[a] = 0 /\ a \in base + 0 .. base + 0 + n - 1)
    BY <2>1 DEF Programmed
  <2>3. base + 0 .. base + 0 + n - 1 \subseteq base .. base + size - 1
    BY FlashAssumption DEF IInv, TypeOK, Addresses
  <2> QED
    BY <2>2, <2>3 DEF ElsewhereKept, OnlyCleared
<1> QED
  BY <1>1, AlwaysIInv, PTL

\* Written over an erased region, the image passes the check: a mismatch that
\* cmd_reflash reports tells of a region that was not erased, or of an EC that
\* answered short.
THEOREM ErasedRegionPasses == Spec => []ErasedPasses
<1>1. IInv /\ VerifiedHolds => ErasedPasses
  <2> SUFFICES ASSUME IInv, VerifiedHolds, pc \in {"verified", "mismatch"}, ~short,
                      \A k \in 0 .. size - 1 : found[base + k] = 1
               PROVE  pc = "verified"
    BY DEF ErasedPasses
  <2>1. flash = Programmed(found, 0, size)
    BY DEF IInv, WritesInOrder
  <2>2. \A a \in Addresses :
          a \in base + 0 .. base + 0 + size - 1 =>
            flash[a] = IF image[a - base] = 0 THEN 0 ELSE found[a]
    BY <2>1 DEF Programmed
  <2>3. ASSUME NEW k \in 0 .. size - 1
        PROVE  flash[base + k] = image[k]
    <3>1. PICK a \in Addresses : a = base + k
      BY FlashAssumption DEF IInv, TypeOK, Addresses
    <3>2. a \in base + 0 .. base + 0 + size - 1 /\ a - base = k
      BY <3>1, FlashAssumption DEF IInv, TypeOK, Addresses
    <3>3. image[k] = 0 \/ image[k] = 1
      BY DEF IInv, TypeOK, Bits
    <3>4. flash[a] = IF image[k] = 0 THEN 0 ELSE found[a]
      BY <2>2, <3>2
    <3>5. found[a] = 1
      BY <3>1
    <3> QED
      BY <3>1, <3>3, <3>4, <3>5
  <2> QED
    BY <2>3 DEF VerifiedHolds
<1> QED
  BY <1>1, AlwaysIInv, CheckIsExact, PTL
-----------------------------------------------------------------------------
(* Why write and check end *)

BytesLeft == IF i < size THEN size - i ELSE 0

\* More than the steps that are left: none takes a byte twice.
StepsLeft ==
  CASE pc = "info" -> 2 * size + 3
    [] pc = "write" -> BytesLeft + size + 2
    [] pc = "read" -> BytesLeft + 1
    [] pc \in Over -> 0

LEMMA HostGetsNearer ==
  ASSUME IInv, Host, pc = "write" => step > 0
  PROVE  StepsLeft' < StepsLeft
<1> USE FlashAssumption DEF region, Over
<1>1. size \in Nat \ {0} /\ i \in Nat /\ step \in Nat /\ MaxResponse \in Nat \ {0}
  BY DEF IInv, TypeOK, Addresses
<1>2. pc = "info" => i = 0
  BY DEF IInv, EndInv
<1>3. CASE Info
  BY <1>1, <1>2, <1>3 DEF Info, StepsLeft, BytesLeft
<1>4. CASE WriteChunk
  <2>1. size' = size
    BY <1>4 DEF WriteChunk
  <2>2. CASE pc' = "write"
    <3>1. i' = i + step /\ pc = "write" /\ i < size
      BY <1>4, <2>2 DEF WriteChunk
    <3>2. BytesLeft' < BytesLeft
      BY <1>1, <2>1, <3>1 DEF BytesLeft
    <3> QED
      BY <1>1, <2>1, <2>2, <3>1, <3>2 DEF StepsLeft, BytesLeft
  <2>3. CASE pc' = "error"
    BY <1>1, <1>4, <2>1, <2>3 DEF WriteChunk, StepsLeft, BytesLeft
  <2> QED
    BY <1>4, <2>2, <2>3 DEF WriteChunk
<1>5. CASE WriteOverrun
  BY <1>1, <1>5 DEF WriteOverrun, StepsLeft, BytesLeft
<1>6. CASE WriteEnd
  BY <1>1, <1>6 DEF WriteEnd, StepsLeft, BytesLeft
<1>7. CASE ReadChunk
  <2>1. size' = size /\ pc = "read" /\ i < size
    BY <1>7 DEF ReadChunk
  <2>2. \/ pc' = "read" /\ i' = i + MaxResponse
        \/ pc' = "error"
    BY <1>7 DEF ReadChunk
  <2> QED
    BY <1>1, <2>1, <2>2 DEF StepsLeft, BytesLeft
<1>8. CASE ReadEnd
  BY <1>1, <1>8 DEF ReadEnd, StepsLeft, BytesLeft
<1> QED
  BY <1>3, <1>4, <1>5, <1>6, <1>7, <1>8 DEF Host

\* With a step to take, flash_write and flash_read are over in no more steps than
\* twice the bytes and three, whatever the EC reports, answers or fails: what
\* Ends needs besides fairness.  (Without one, flash_write has no end.)
THEOREM StepsAreCounted ==
  Spec => /\ [](StepsLeft \in 0 .. 2 * size + 3)
          /\ [][Host /\ (pc = "write" => step > 0) => StepsLeft' < StepsLeft]_vars
<1>1. IInv => StepsLeft \in 0 .. 2 * size + 3
  <2> SUFFICES ASSUME IInv PROVE StepsLeft \in 0 .. 2 * size + 3
    OBVIOUS
  <2>1. size \in Nat /\ i \in Nat
    BY FlashAssumption DEF IInv, TypeOK, Addresses
  <2>2. BytesLeft \in 0 .. size
    BY <2>1 DEF BytesLeft
  <2> QED
    BY <2>1, <2>2 DEF IInv, TypeOK, Over, StepsLeft
<1>2. IInv /\ [Next]_vars =>
        [Host /\ (pc = "write" => step > 0) => StepsLeft' < StepsLeft]_vars
  BY HostGetsNearer
<1> QED
  BY AlwaysIInv, <1>1, <1>2, PTL DEF Spec
=============================================================================
