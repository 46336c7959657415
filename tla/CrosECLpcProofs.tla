-------------------------- MODULE CrosECLpcProofs --------------------------
(***************************************************************************)
(* The safety properties of CrosECLpc for every timeout, back-off, packet, *)
(* memory map and request.                                                 *)
(*                                                                         *)
(* The argument has three parts.  The wait: elapsed counts the next pause  *)
(* where stalled counts the one just made, so until the deadline is passed *)
(* stalled = elapsed - delay + FirstDelay, and the turn that passes it     *)
(* adds at most what was left.  The transfer: Counted says how many bytes  *)
(* have been moved at each place of the code; those are always the first   *)
(* ones of the request, for the address register, the address and the      *)
(* position stay in step; at the end their number is the size, unless the  *)
(* head alone overshot it.  The calls around them: Requests says which     *)
(* transfer each of them makes, and that with what the transfer has moved  *)
(* gives the regions and the buffer.                                       *)
(*                                                                         *)
(* The return of a call is near when few of its parts are left and, of the *)
(* one at hand, little of the timeout or of the bytes (PartsLeft,          *)
(* StepsLeft).                                                             *)
(***************************************************************************)
EXTENDS CrosECLpc, TLAPS

-----------------------------------------------------------------------------
(* The wait *)

Account ==
  /\ elapsed < Timeout => stalled = elapsed - delay + FirstDelay
  /\ elapsed >= Timeout => stalled >= Timeout - MaxDelay + FirstDelay

WaitInv == WaitTypeOK /\ WaitBounds /\ (outcome = "waiting" => Account)

\* The back-off never shortens a pause and never passes the ceiling.
LEMMA BackOffRange ==
  ASSUME WaitTypeOK
  PROVE  BackOff \in delay .. MaxDelay
  BY WaitAssumption DEF WaitTypeOK, BackOff, Lesser

\* A pause is never negative, never longer than what is left or than delay.
LEMMA PauseRange ==
  ASSUME WaitTypeOK, elapsed < Timeout
  PROVE  /\ Pause \in Nat
         /\ Pause <= Timeout - elapsed
         /\ Pause = delay \/ Pause = Timeout - elapsed
         /\ Pause <= delay
  BY WaitAssumption DEF WaitTypeOK, Pause, Lesser

LEMMA WaitStart == (WaitInit => WaitInv) /\ (StartWait => WaitInv')
  BY WaitAssumption DEF WaitInit, StartWait, WaitInv, WaitTypeOK, WaitBounds, Account

LEMMA WaitStutter == WaitInv /\ UNCHANGED waitVars => WaitInv'
  BY DEF waitVars, WaitInv, WaitTypeOK, WaitBounds, Account

LEMMA WaitStep == WaitInv /\ Turn => WaitInv'
<1> SUFFICES ASSUME WaitInv, Turn PROVE WaitInv'
  OBVIOUS
<1> USE WaitAssumption
<1>1. CASE Ready
  <2>1. Pause \in Nat /\ Pause <= Timeout - elapsed
    BY <1>1, PauseRange DEF Ready, WaitInv
  <2>2. stalled = elapsed - delay + FirstDelay
    BY <1>1 DEF Ready, WaitInv, Account
  <2> QED
    BY <1>1, <2>1, <2>2 DEF Ready, WaitInv, WaitTypeOK, WaitBounds
<1>2. CASE Busy
  <2>1. /\ Pause \in Nat
        /\ Pause <= Timeout - elapsed
        /\ Pause = delay \/ Pause = Timeout - elapsed
        /\ Pause <= delay
    BY <1>2, PauseRange DEF Busy, WaitInv
  <2>2. delay' \in delay .. MaxDelay
    BY <1>2, BackOffRange DEF Busy, WaitInv
  <2>3. stalled = elapsed - delay + FirstDelay
    BY <1>2 DEF Busy, WaitInv, Account
  <2>4. WaitTypeOK' /\ WaitBounds'
    BY <1>2, <2>1, <2>2, <2>3 DEF Busy, WaitInv, WaitTypeOK, WaitBounds
  <2>5. Account'
    BY <1>2, <2>1, <2>2, <2>3 DEF Busy, WaitInv, WaitTypeOK, Account
  <2> QED
    BY <2>4, <2>5 DEF WaitInv
<1>3. CASE GiveUp
  BY <1>3 DEF GiveUp, WaitInv, WaitTypeOK, WaitBounds, Account
<1> QED
  BY <1>1, <1>2, <1>3 DEF Turn

-----------------------------------------------------------------------------
(* The transfer *)

\* How many bytes have been moved, and how many will be.
Counted ==
  CASE pc = "high" -> pos + 2
    [] pc = "tail" -> pos + i
    [] pc \in {"port", "ported"} -> i
    [] OTHER -> pos

Final == IF Fits THEN size ELSE 4 - (start % 4)

EmiInv ==
  /\ pc = "begin" => pos = 0 /\ address = start
  /\ pc = "head" => /\ start % 4 > 0
                    /\ address = start
                    /\ reg = Aligned(start)
                    /\ i = (start % 4) + pos
  /\ pc \in {"body", "low", "high", "rest", "tail"} =>
       /\ address = start + pos
       /\ address % 4 = 0
       /\ pos <= Final
       /\ ~Fits => pos = Final
  /\ pc \in {"low", "high"} => size - pos >= 4
  /\ pc = "rest" => size - pos <= 3
  /\ pc \in {"low", "high", "tail"} => reg = address
  /\ pc = "tail" => i <= size - pos

PortInv ==
  /\ pc = "port" => i <= size
  /\ pc = "ported" => i = size

MovedInv ==
  /\ pc = "done" => moved = Copied(Final)
  /\ pc \in {"port", "ported"} => moved = Ported(Counted)
  /\ pc \notin {"done", "port", "ported"} => moved = Copied(Counted)

TransferInv == TransferTypeOK /\ EmiInv /\ PortInv /\ MovedInv

\* A byte more is the next one of the buffer and of the EC.
LEMMA OneMore ==
  ASSUME NEW n \in Nat, start \in Nat
  PROVE  Copied(n + 1) = Copied(n) \union {<<n, start + n>>}
<1>1. 0 .. (n + 1) - 1 = (0 .. n - 1) \union {n}
  OBVIOUS
<1> QED
  BY <1>1 DEF Copied

LEMMA TwoMore ==
  ASSUME NEW n \in Nat, start \in Nat
  PROVE  Copied(n + 2) = Copied(n) \union {<<n, start + n>>, <<n + 1, start + n + 1>>}
<1>1. 0 .. (n + 2) - 1 = (0 .. n - 1) \union {n, n + 1}
  OBVIOUS
<1> QED
  BY <1>1 DEF Copied

\* Alignment.
LEMMA AlignedFacts ==
  ASSUME NEW a \in Nat
  PROVE  /\ Aligned(a) \in Nat
         /\ a % 4 = 0 => Aligned(a) = a
         /\ a % 4 \in 0 .. 3
         /\ a % 4 > 0 => /\ Aligned(a + 4) = a + 4 - (a % 4)
                         /\ Aligned(a + 4) % 4 = 0
         /\ a % 4 = 0 => (a + 4) % 4 = 0
  BY DEF Aligned

LEMMA TransferStart == TransferInit => TransferInv
<1> SUFFICES ASSUME TransferInit PROVE TransferInv
  OBVIOUS
<1>1. TransferTypeOK /\ EmiInv /\ PortInv
  BY DEF TransferInit, TransferTypeOK, EmiInv, PortInv
<1>2. Copied(Final) = {}
  BY DEF TransferInit, Copied, Final, Fits
<1> QED
  BY <1>1, <1>2 DEF TransferInv, MovedInv, TransferInit

\* Whoever calls it, and whatever came before.
LEMMA StartInv ==
  ASSUME NEW from \in {"begin", "port", "done"}, NEW a \in Nat, NEW n \in Nat,
         from = "done" => a = 0 /\ n = 0,
         reg \in Nat, StartTransfer(from, a, n)
  PROVE  TransferInv'
<1>1. TransferTypeOK' /\ EmiInv' /\ PortInv'
  BY DEF StartTransfer, TransferTypeOK, EmiInv, PortInv
<1>2. from = "done" \/ ((Ported(Counted) = {})' /\ (Copied(Counted) = {})')
  BY DEF StartTransfer, Copied, Ported, Counted
<1>3. from = "done" => (Copied(Final) = {})'
  BY DEF StartTransfer, Copied, Final, Fits
<1> QED
  BY <1>1, <1>2, <1>3 DEF TransferInv, MovedInv, StartTransfer

\* The request stays the same.
LEMMA SameRequest ==
  ASSUME UNCHANGED <<start, size>>
  PROVE  /\ Final' = Final
         /\ Fits' <=> Fits
         /\ \A n \in Int : Copied(n)' = Copied(n)
         /\ \A n \in Int : Ported(n)' = Ported(n)
BY DEF Final, Fits, Copied, Ported

LEMMA FinalType == ASSUME start \in Nat, size \in Nat PROVE Final \in Nat /\ size <= Final
BY DEF Final, Fits

LEMMA BeginInv == TransferInv /\ Begin => TransferInv'
<1> SUFFICES ASSUME TransferInv, Begin PROVE TransferInv'
  OBVIOUS
<1> USE DEF TransferInv
<1>0. start \in Nat /\ size \in Nat /\ address = start /\ pos = 0 /\ moved = Copied(0)
  BY DEF Begin, TransferTypeOK, EmiInv, MovedInv, Counted
<1>1. TransferTypeOK'
  <2>1. CASE address % 4 > 0
    <3>1. address % 4 \in 0 .. 3 /\ Aligned(address) \in Nat
      BY <1>0, AlignedFacts
    <3>2. reg' = Aligned(address) /\ i' = address % 4 /\ pc' = "head"
      BY <2>1 DEF Begin
    <3>3. UNCHANGED <<start, size, address, pos, moved>>
      BY DEF Begin
    <3>4. reg' \in Nat /\ i' \in Nat /\ i' <= 4
      BY <3>1, <3>2
    <3> QED
      BY <3>2, <3>3, <3>4 DEF TransferTypeOK
  <2>2. CASE ~(address % 4 > 0)
    <3>1. pc' = "body" /\ UNCHANGED <<start, size, address, pos, i, reg, moved>>
      BY <2>2 DEF Begin
    <3> QED
      BY <3>1 DEF TransferTypeOK
  <2> QED
    BY <2>1, <2>2
<1>2. EmiInv' /\ PortInv'
  BY <1>0, AlignedFacts, SameRequest DEF Begin, EmiInv, PortInv, Final, Fits
<1>3. moved' = Copied(0)' /\ Counted' = 0
  BY <1>0, SameRequest DEF Begin, Counted
<1> QED
  BY <1>1, <1>2, <1>3 DEF MovedInv, Begin

LEMMA HeadByteInv == TransferInv /\ HeadByte => TransferInv'
<1> SUFFICES ASSUME TransferInv, HeadByte PROVE TransferInv'
  OBVIOUS
<1> USE DEF TransferInv
<1>0. start \in Nat /\ size \in Nat /\ pos \in Nat /\ reg \in Nat /\ i \in 0 .. 4
  BY DEF HeadByte, TransferTypeOK
<1>1. reg + i = start + pos
  BY <1>0 DEF HeadByte, EmiInv, Aligned
<1>2. moved' = Copied(pos) \union {<<pos, start + pos>>}
  BY <1>1 DEF HeadByte, MovedInv, Counted
<1>3. TransferTypeOK'
  BY <1>0 DEF HeadByte, TransferTypeOK
<1>4. EmiInv' /\ PortInv'
  BY <1>0 DEF HeadByte, EmiInv, PortInv
<1>5. moved' = Copied(pos + 1)
  BY <1>0, <1>2, OneMore
<1>6. Counted' = pos + 1
  BY DEF HeadByte, Counted
<1>7. Copied(Counted)' = Copied(pos + 1)
  BY <1>6 DEF HeadByte, Copied
<1> QED
  BY <1>3, <1>4, <1>5, <1>7 DEF MovedInv, HeadByte

LEMMA HeadEndInv == TransferInv /\ HeadEnd => TransferInv'
<1> SUFFICES ASSUME TransferInv, HeadEnd PROVE TransferInv'
  OBVIOUS
<1> USE DEF TransferInv
<1>0. start \in Nat /\ size \in Nat /\ pos \in Nat
  BY DEF TransferTypeOK
<1>1. /\ address' = start + 4 - (start % 4)
      /\ address' % 4 = 0
      /\ pos = 4 - (start % 4)
      /\ start % 4 \in 1 .. 3
  BY <1>0, AlignedFacts DEF HeadEnd, EmiInv
<1>2. TransferTypeOK'
  BY <1>0, <1>1 DEF HeadEnd, TransferTypeOK
<1>3. EmiInv' /\ PortInv'
  BY <1>0, <1>1, SameRequest DEF HeadEnd, EmiInv, PortInv, Final, Fits
<1>4. Counted' = pos /\ moved = Copied(pos) /\ Copied(pos)' = Copied(pos)
  BY <1>0, SameRequest DEF HeadEnd, MovedInv, Counted
<1> QED
  BY <1>2, <1>3, <1>4 DEF MovedInv, HeadEnd, Copied

LEMMA BodyInv == TransferInv /\ Body => TransferInv'
<1> SUFFICES ASSUME TransferInv, Body PROVE TransferInv'
  OBVIOUS
<1> USE DEF TransferInv
<1>0. start \in Nat /\ size \in Nat /\ pos \in Nat /\ address \in Nat
  BY DEF TransferTypeOK
<1>1. Aligned(address) = address
  BY <1>0, AlignedFacts DEF Body, EmiInv
<1>2. TransferTypeOK'
  BY <1>0, <1>1 DEF Body, TransferTypeOK
<1>3. EmiInv' /\ PortInv'
  BY <1>0, <1>1, SameRequest DEF Body, EmiInv, PortInv
<1>4. Counted' = pos /\ moved = Copied(pos) /\ Copied(pos)' = Copied(pos)
  BY <1>0, SameRequest DEF Body, MovedInv, Counted
<1> QED
  BY <1>2, <1>3, <1>4 DEF MovedInv, Body, Copied

LEMMA WordLowInv == TransferInv /\ WordLow => TransferInv'
<1> SUFFICES ASSUME TransferInv, WordLow PROVE TransferInv'
  OBVIOUS
<1> USE DEF TransferInv
<1>0. start \in Nat /\ size \in Nat /\ pos \in Nat /\ reg \in Nat
  BY DEF TransferTypeOK
<1>1. reg = start + pos
  BY DEF WordLow, EmiInv
<1>2. moved' = Copied(pos) \union {<<pos, start + pos>>, <<pos + 1, start + pos + 1>>}
  BY <1>1 DEF WordLow, MovedInv, Counted
<1>3. TransferTypeOK'
  BY <1>0 DEF WordLow, TransferTypeOK
<1>4. EmiInv' /\ PortInv'
  BY <1>0, SameRequest DEF WordLow, EmiInv, PortInv
<1>5. moved' = Copied(pos + 2)
  BY <1>0, <1>2, TwoMore
<1>6. Counted' = pos + 2 /\ Copied(pos + 2)' = Copied(pos + 2)
  BY <1>0, SameRequest DEF WordLow, Counted
<1> QED
  BY <1>3, <1>4, <1>5, <1>6 DEF MovedInv, WordLow, Copied

LEMMA WordHighInv == TransferInv /\ WordHigh => TransferInv'
<1> SUFFICES ASSUME TransferInv, WordHigh PROVE TransferInv'
  OBVIOUS
<1> USE DEF TransferInv
<1>0. start \in Nat /\ size \in Nat /\ pos \in Nat /\ reg \in Nat /\ address \in Nat
  BY DEF TransferTypeOK
<1>1. reg + 2 = start + (pos + 2) /\ reg + 3 = start + (pos + 2) + 1 /\ pos + 2 \in Nat
  BY <1>0 DEF WordHigh, EmiInv
<1>2. moved' = Copied(pos + 2)
                 \union {<<pos + 2, start + (pos + 2)>>, <<pos + 2 + 1, start + (pos + 2) + 1>>}
  BY <1>0, <1>1 DEF WordHigh, MovedInv, Counted
<1>3. TransferTypeOK'
  BY <1>0 DEF WordHigh, TransferTypeOK
<1>4. EmiInv' /\ PortInv'
  BY <1>0, AlignedFacts, SameRequest, FinalType DEF WordHigh, EmiInv, PortInv
<1>5. moved' = Copied((pos + 2) + 2)
  BY <1>0, <1>1, <1>2, TwoMore
<1>6. (pos + 2) + 2 = pos + 4 /\ Counted' = pos + 4
  BY <1>0 DEF WordHigh, Counted
<1>7. Copied(Counted)' = Copied((pos + 2) + 2)
  BY <1>6 DEF WordHigh, Copied
<1> QED
  BY <1>3, <1>4, <1>5, <1>7 DEF MovedInv, WordHigh

LEMMA RestInv == TransferInv /\ Rest => TransferInv'
<1> SUFFICES ASSUME TransferInv, Rest PROVE TransferInv'
  OBVIOUS
<1> USE DEF TransferInv
<1>0. start \in Nat /\ size \in Nat /\ pos \in Nat /\ address \in Nat
  BY DEF TransferTypeOK
<1>1. Aligned(address) = address
  BY <1>0, AlignedFacts DEF Rest, EmiInv
<1>2. TransferTypeOK'
  BY <1>0, <1>1 DEF Rest, TransferTypeOK, EmiInv
<1>3. pc' = "done" => pos = Final
  BY <1>0, FinalType DEF Rest, EmiInv, Final
<1>4. EmiInv' /\ PortInv'
  BY <1>0, <1>1, SameRequest DEF Rest, EmiInv, PortInv
<1>5. /\ moved = Copied(pos) /\ Copied(pos)' = Copied(pos) /\ Final' = Final
      /\ pc' # "done" => Counted' = pos
  BY <1>0, SameRequest DEF Rest, MovedInv, Counted
<1> QED
  BY <1>2, <1>3, <1>4, <1>5 DEF MovedInv, Rest, Copied

LEMMA TailByteInv == TransferInv /\ TailByte => TransferInv'
<1> SUFFICES ASSUME TransferInv, TailByte PROVE TransferInv'
  OBVIOUS
<1> USE DEF TransferInv
<1>0. start \in Nat /\ size \in Nat /\ pos \in Nat /\ reg \in Nat /\ i \in Nat
  BY DEF TransferTypeOK
<1>1. reg + i = start + (pos + i)
  BY <1>0 DEF TailByte, EmiInv
<1>2. moved' = Copied(pos + i) \union {<<pos + i, start + (pos + i)>>}
  BY <1>1 DEF TailByte, MovedInv, Counted
<1>3. TransferTypeOK'
  BY <1>0 DEF TailByte, TransferTypeOK
<1>4. EmiInv' /\ PortInv'
  BY <1>0, SameRequest DEF TailByte, EmiInv, PortInv
<1>5. moved' = Copied((pos + i) + 1)
  BY <1>0, <1>2, OneMore
<1>6. Counted' = (pos + i) + 1
  BY <1>0 DEF TailByte, Counted
<1>7. Copied(Counted)' = Copied((pos + i) + 1)
  BY <1>6 DEF TailByte, Copied
<1> QED
  BY <1>3, <1>4, <1>5, <1>7 DEF MovedInv, TailByte

LEMMA TailEndInv == TransferInv /\ TailEnd => TransferInv'
<1> SUFFICES ASSUME TransferInv, TailEnd PROVE TransferInv'
  OBVIOUS
<1> USE DEF TransferInv
<1>0. start \in Nat /\ size \in Nat /\ pos \in Nat
  BY DEF TransferTypeOK
<1>1. pos + i = size /\ Final = size
  BY <1>0, FinalType DEF TailEnd, TransferTypeOK, EmiInv, Final
<1>2. moved' = Copied(Final)
  BY <1>1 DEF TailEnd, MovedInv, Counted
<1>3. TransferTypeOK'
  BY DEF TailEnd, TransferTypeOK
<1>4. EmiInv' /\ PortInv'
  BY DEF TailEnd, EmiInv, PortInv
<1>5. Final' = Final /\ Copied(Final)' = Copied(Final)
  BY <1>0, FinalType, SameRequest DEF TailEnd
<1> QED
  BY <1>2, <1>3, <1>4, <1>5 DEF MovedInv, TailEnd, Copied

\* One port after the other.
LEMMA PortByteInv == TransferInv /\ PortByte => TransferInv'
<1> SUFFICES ASSUME TransferInv, PortByte PROVE TransferInv'
  OBVIOUS
<1> USE DEF TransferInv
<1>0. start \in Nat /\ size \in Nat /\ i \in Nat
  BY DEF TransferTypeOK
<1>1. Port(start) \in Nat
  BY <1>0 DEF Port
<1>2. 0 .. (i + 1) - 1 = (0 .. i - 1) \union {i}
  BY <1>0
<1>3. moved' = Ported(i + 1)
  BY <1>2 DEF PortByte, MovedInv, Counted, Ported
<1>4. Counted' = i + 1
  BY DEF PortByte, Counted
<1>5. TransferTypeOK'
  BY <1>0, <1>1 DEF PortByte, TransferTypeOK
<1>6. EmiInv' /\ PortInv'
  BY <1>0 DEF PortByte, EmiInv, PortInv
<1>7. Ported(Counted)' = Ported(i + 1)
  BY <1>4 DEF PortByte, Ported, Port
<1> QED
  BY <1>3, <1>5, <1>6, <1>7 DEF MovedInv, PortByte

LEMMA PortEndInv == TransferInv /\ PortEnd => TransferInv'
BY DEF PortEnd, TransferInv, TransferTypeOK, EmiInv, PortInv, MovedInv, Counted, Ported, Port

\* A step of a transfer.
LEMMA TransferStep == TransferInv /\ Transfer => TransferInv'
BY BeginInv, HeadByteInv, HeadEndInv, BodyInv, WordLowInv, WordHighInv, RestInv,
   TailByteInv, TailEndInv, PortByteInv, PortEndInv DEF Transfer

\* A step of something else.
LEMMA TransferStutter == TransferInv /\ UNCHANGED transferVars => TransferInv'
BY DEF TransferInv, TransferTypeOK, EmiInv, PortInv, MovedInv, Counted, Copied, Ported,
       Final, Fits, transferVars, Port

\* At the end a request that Fits is moved exactly.
LEMMA TransferIsExact == TransferInv => Exact
BY DEF TransferInv, MovedInv, PortInv, Exact, Final, Counted

-----------------------------------------------------------------------------
(* The calls *)

CallTypeOK ==
  /\ way \in {"begin", "port"}
  /\ at \in {"idle", "wait", "request", "wait_answer", "header", "payload", "bytes", "string"}
  /\ outsize \in Nat /\ insize \in Nat
  /\ offset \in Nat /\ off \in Nat /\ cnt \in Nat /\ zero \in Nat
  /\ filled \subseteq Nat \X Nat

\* Which transfer a call is making.
Requests ==
  /\ at \in {"wait", "request"} => outsize + HeaderSize <= PacketSize
  /\ at = "request" => start = 0 /\ size = outsize + HeaderSize
  /\ at = "header" => start = 0 /\ size = HeaderSize
  /\ at = "payload" => start = HeaderSize /\ size <= insize
  /\ at = "bytes" => /\ start = 256 + offset /\ size = cnt
                     /\ cnt > 0 /\ offset + cnt <= MemMapSize
  /\ at = "string" => /\ start = 256 + off /\ size = 1
                      /\ off = offset + cnt /\ off < MemMapSize

\* Each library transfers its own way.
Ways ==
  at \in {"request", "header", "payload", "bytes", "string"} =>
    (way = "port" <=> pc \in {"port", "ported"})

\* What is in the buffer, in the middle of a string too.
Buffered == at # "bytes" => Asked(cnt) \subseteq filled /\ filled \subseteq Asked(cnt + 2)

CallInv == CallTypeOK /\ Requests /\ Ways /\ Buffered

IInv == WaitInv /\ TransferInv /\ CallInv

LEMMA LpcNumbers ==
  /\ PacketSize \in Nat /\ PacketSize <= 256
  /\ HeaderSize \in Nat /\ HeaderSize < PacketSize /\ HeaderSize % 4 = 0
  /\ MemMapSize \in Nat /\ MemMapSize <= 255
  /\ Lengths \subseteq Nat
  BY LpcAssumption

\* What a transfer has moved is at its place, below Final.
LEMMA MovedRange ==
  ASSUME TransferInv
  PROVE  IF pc \in {"port", "ported"}
           THEN \A m \in moved : m[2] - Port(start) \in 0 .. size - 1
           ELSE \A m \in moved : m[2] - start \in 0 .. Final - 1
<1> USE DEF TransferInv
<1>0. start \in Nat /\ size \in Nat /\ Final \in Nat /\ Port(start) \in Nat
  BY FinalType DEF TransferTypeOK, Port
<1>1. CASE pc \in {"port", "ported"}
  <2>1. i \in Nat /\ i <= size /\ moved = {<<k, Port(start) + k>> : k \in 0 .. i - 1}
    BY <1>1 DEF TransferTypeOK, PortInv, MovedInv, Counted, Ported
  <2> QED
    BY <1>0, <1>1, <2>1
<1>2. CASE pc = "done"
  <2>1. moved = {<<k, start + k>> : k \in 0 .. Final - 1}
    BY <1>2 DEF MovedInv, Copied
  <2> QED
    BY <1>0, <1>2, <2>1
<1>3. CASE pc \notin {"done", "port", "ported"}
  <2>1. Counted \in Nat /\ Counted <= Final
    <3>1. pc = "begin" => Counted = 0
      BY DEF Counted, EmiInv
    <3>2. pc = "head" => Counted \in Nat /\ Counted <= Final
      BY <1>0 DEF Counted, EmiInv, TransferTypeOK, Final, Fits
    <3>3. pc \in {"body", "low", "rest"} => Counted \in Nat /\ Counted <= Final
      BY DEF Counted, EmiInv, TransferTypeOK
    <3>4. pc \in {"high", "tail"} => Counted \in Nat /\ Counted <= Final
      BY <1>0, FinalType DEF Counted, EmiInv, TransferTypeOK
    <3> QED
      BY <1>0, <1>3, <3>1, <3>2, <3>3, <3>4 DEF TransferTypeOK
  <2>2. moved = {<<k, start + k>> : k \in 0 .. Counted - 1}
    BY <1>3 DEF MovedInv, Copied
  <2> QED
    BY <1>0, <1>3, <2>1, <2>2
<1> QED
  BY <1>1, <1>2, <1>3

\* The regions of the packet and of the memory map.
LEMMA RegionsHold == IInv => WithinRegion
<1> SUFFICES ASSUME IInv, NEW m \in moved,
                    at \in {"request", "header", "payload", "bytes", "string"}
             PROVE  /\ at \in {"bytes", "string"} =>
                         m[2] \in IF way = "port" THEN 3584 .. 3839 ELSE 256 .. 511
                    /\ at \in {"request", "header"} =>
                         m[2] - Packet \in 0 .. PacketSize - 1
                    /\ at = "payload" =>
                         m[2] - Packet - HeaderSize \in 0 .. insize - 1
  BY DEF WithinRegion
<1> USE DEF IInv, CallInv
<1>0. /\ start \in Nat /\ size \in Nat /\ m[2] \in Nat
      /\ offset \in Nat /\ cnt \in Nat /\ off \in Nat
      /\ outsize \in Nat /\ insize \in Nat
  BY DEF TransferInv, TransferTypeOK, CallTypeOK
<1>1. CASE way = "port"
  <2>1. m[2] - Port(start) \in 0 .. size - 1
    BY <1>1, MovedRange DEF Ways
  <2>2. CASE at \in {"bytes", "string"}
    <3>1. \E o \in Nat : start = 256 + o /\ o + size <= 255
      BY <1>0, <2>2, LpcNumbers DEF Requests
    <3>2. Port(start) = 3584 + (start - 256)
      BY <1>0, <3>1, <2>1 DEF Port
    <3> QED
      BY <1>0, <1>1, <2>1, <2>2, <3>1, <3>2
  <2>3. CASE at \in {"request", "header", "payload"}
    <3>1. Port(start) = Packet + start
      <4>1. start = 0 \/ start <= 255
        BY <1>0, <2>3, LpcNumbers DEF Requests
      <4> QED
        BY <1>0, <1>1, <4>1 DEF Port, Packet
    <3>2. Packet = 2048
      BY <1>1 DEF Packet
    <3>3. m[2] - Packet - start \in 0 .. size - 1
      BY <1>0, <2>1, <3>1, <3>2
    <3> QED
      BY <1>0, <2>3, <3>2, <3>3, LpcNumbers DEF Requests
  <2> QED
    BY <2>2, <2>3
<1>2. CASE way # "port"
  <2>1. m[2] - start \in 0 .. Final - 1
    BY <1>2, MovedRange DEF Ways
  <2>2. CASE at \in {"bytes", "string"}
    <3>1. 256 <= start /\ start <= 510 /\ start + size <= 511
      BY <1>0, <2>2, LpcNumbers DEF Requests
    <3>2. start + Final <= 512
      BY <1>0, <3>1 DEF Final
    <3> QED
      BY <1>0, <1>2, <2>1, <2>2, <3>1, <3>2, FinalType
  <2>3. CASE at \in {"request", "header", "payload"}
    <3>1. start % 4 = 0
      BY <1>0, <2>3, LpcNumbers DEF Requests
    <3>2. Final = size
      BY <3>1 DEF Final, Fits
    <3>3. Packet = 0 /\ m[2] - start \in 0 .. size - 1
      BY <1>2, <2>1, <3>2 DEF Packet
    <3> QED
      BY <1>0, <2>3, <3>3, LpcNumbers DEF Requests
  <2> QED
    BY <2>2, <2>3
<1> QED
  BY <1>1, <1>2

\* Asked, counted up.
LEMMA AskedFacts ==
  ASSUME NEW n \in Nat
  PROVE  /\ Asked(0) = {}
         /\ Asked(n + 1) =
              Asked(n) \union {<<n, (IF way = "port" THEN 3584 ELSE 256) + offset + n>>}
         /\ Asked(n) \subseteq Asked(n + 1)
<1>1. 0 .. (n + 1) - 1 = (0 .. n - 1) \union {n}
  OBVIOUS
<1>2. 0 .. 0 - 1 = {}
  OBVIOUS
<1> QED
  BY <1>1, <1>2 DEF Asked

\* A byte a transfer has moved, in the buffer from n on.
LEMMA ShiftedFacts ==
  ASSUME NEW n
  PROVE  /\ \A k, a : <<k, a>> \in moved => <<k + n, a>> \in Shifted(n)
         /\ \A x \in Shifted(n) : \E m \in moved : x = <<m[1] + n, m[2]>>
<1>1. ASSUME NEW k, NEW a, <<k, a>> \in moved PROVE <<k + n, a>> \in Shifted(n)
  <2> DEFINE m == <<k, a>>
  <2>1. m \in moved /\ m[1] = k /\ m[2] = a
    BY <1>1
  <2> HIDE DEF m
  <2> QED
    BY <2>1 DEF Shifted
<1>2. \A x \in Shifted(n) : \E m \in moved : x = <<m[1] + n, m[2]>>
  BY DEF Shifted
<1> QED
  BY <1>1, <1>2

LEMMA InitInv == Init => IInv
<1> SUFFICES ASSUME Init PROVE IInv
  OBVIOUS
<1>1. WaitInv /\ TransferInv
  BY WaitStart, TransferStart DEF Init
<1>2. CallTypeOK /\ Requests /\ Ways
  BY DEF Init, CallTypeOK, Requests, Ways
<1>3. Buffered
  BY DEF Init, Buffered, Asked
<1> QED
  BY <1>1, <1>2, <1>3 DEF IInv, CallInv

LEMMA TransferKeeps ==
  Transfer => UNCHANGED <<start, size>> /\ (pc \in {"port", "ported"} <=> pc' \in {"port", "ported"})
  BY DEF Transfer, Begin, HeadByte, HeadEnd, Body, WordLow, WordHigh, Rest, TailByte, TailEnd,
         PortByte, PortEnd

LEMMA WaitKeeps == IInv /\ Wait => IInv'
<1> SUFFICES ASSUME IInv, Wait PROVE IInv'
  OBVIOUS
<1>1. WaitInv' /\ TransferInv'
  BY WaitStep, TransferStutter DEF IInv, Wait
<1>2. CallInv'
  BY DEF IInv, Wait, CallInv, CallTypeOK, Requests, Ways, Buffered, Asked, callVars, readVars,
         transferVars
<1> QED
  BY <1>1, <1>2 DEF IInv

LEMMA AccessKeeps == IInv /\ Access => IInv'
<1> SUFFICES ASSUME IInv, Access PROVE IInv'
  OBVIOUS
<1>1. WaitInv' /\ TransferInv'
  BY WaitStutter, TransferStep DEF IInv, Access
<1>2. CallTypeOK' /\ Requests' /\ Ways'
  BY TransferKeeps DEF IInv, Access, CallInv, CallTypeOK, Requests, Ways, callVars, readVars
<1>3. Buffered'
  BY DEF IInv, Access, CallInv, Buffered, Asked, callVars, readVars
<1> QED
  BY <1>1, <1>2, <1>3 DEF IInv, CallInv

LEMMA SendCommandKeeps ==
  ASSUME IInv, NEW o \in Outsizes, NEW n \in Insizes, SendCommand(o, n)
  PROVE  IInv'
<1>1. WaitInv' /\ TransferInv'
  BY WaitStart, TransferStutter DEF IInv, SendCommand
<1>2. CallTypeOK' /\ Requests' /\ Ways'
  BY LpcAssumption DEF IInv, SendCommand, CallInv, CallTypeOK, Requests, Ways, Fails
<1>3. Buffered'
  BY DEF SendCommand, Buffered, Asked
<1> QED
  BY <1>1, <1>2, <1>3 DEF IInv, CallInv

\* The calls that go on to a transfer or from one to a wait.
LEMMA RequestKeeps == IInv /\ Request => IInv'
<1> SUFFICES ASSUME IInv, Request PROVE IInv'
  OBVIOUS
<1>0. way \in {"begin", "port"} /\ outsize + HeaderSize \in Nat /\ reg \in Nat
  BY LpcNumbers DEF IInv, CallInv, CallTypeOK, TransferInv, TransferTypeOK
<1>1. WaitInv' /\ TransferInv'
  BY <1>0, WaitStart, StartInv DEF Request
<1>2. CallTypeOK' /\ Requests' /\ Ways'
  BY <1>0 DEF IInv, Request, CallInv, CallTypeOK, Requests, Ways, callVars, readVars, StartTransfer
<1>3. Buffered'
  BY DEF IInv, Request, CallInv, Buffered, Asked, callVars, readVars
<1> QED
  BY <1>1, <1>2, <1>3 DEF IInv, CallInv

LEMMA CommandKeeps == IInv /\ Command => IInv'
<1> SUFFICES ASSUME IInv, Command PROVE IInv'
  OBVIOUS
<1>1. WaitInv' /\ TransferInv'
  BY WaitStart, TransferStutter DEF IInv, Command
<1>2. CallTypeOK' /\ Requests' /\ Ways'
  BY DEF IInv, Command, CallInv, CallTypeOK, Requests, Ways, callVars, readVars, transferVars
<1>3. Buffered'
  BY DEF IInv, Command, CallInv, Buffered, Asked, callVars, readVars
<1> QED
  BY <1>1, <1>2, <1>3 DEF IInv, CallInv

LEMMA HeaderKeeps == IInv /\ Header => IInv'
<1> SUFFICES ASSUME IInv, Header PROVE IInv'
  OBVIOUS
<1>0. way \in {"begin", "port"} /\ HeaderSize \in Nat /\ reg \in Nat
  BY LpcNumbers DEF IInv, CallInv, CallTypeOK, TransferInv, TransferTypeOK
<1>1. WaitInv' /\ TransferInv'
  BY <1>0, WaitStart, StartInv DEF Header
<1>2. CallTypeOK' /\ Requests' /\ Ways'
  BY <1>0 DEF IInv, Header, CallInv, CallTypeOK, Requests, Ways, callVars, readVars, StartTransfer
<1>3. Buffered'
  BY DEF IInv, Header, CallInv, Buffered, Asked, callVars, readVars
<1> QED
  BY <1>1, <1>2, <1>3 DEF IInv, CallInv

LEMMA PayloadKeeps == IInv /\ Payload => IInv'
<1> SUFFICES ASSUME IInv, Payload PROVE IInv'
  OBVIOUS
<1> PICK n \in Lengths : n <= insize /\ StartTransfer(way, HeaderSize, n)
  BY DEF Payload
<1>0. /\ way \in {"begin", "port"} /\ HeaderSize \in Nat /\ reg \in Nat
      /\ n \in Nat /\ n <= insize
  BY LpcNumbers DEF IInv, CallInv, CallTypeOK, TransferInv, TransferTypeOK
<1>1. WaitInv' /\ TransferInv'
  BY <1>0, WaitStutter, StartInv DEF IInv, Payload
<1>2. CallTypeOK' /\ Requests' /\ Ways'
  BY <1>0 DEF IInv, Payload, CallInv, CallTypeOK, Requests, Ways, callVars, readVars, StartTransfer
<1>3. Buffered'
  BY DEF IInv, Payload, CallInv, Buffered, Asked, callVars, readVars
<1> QED
  BY <1>1, <1>2, <1>3 DEF IInv, CallInv

\* A function that returns forgets its locals.
LEMMA Forgotten == IInv /\ Forget => WaitInv' /\ TransferInv'
<1> SUFFICES ASSUME IInv, Forget PROVE WaitInv' /\ TransferInv'
  OBVIOUS
<1>1. reg \in Nat
  BY DEF IInv, TransferInv, TransferTypeOK
<1> QED
  BY <1>1, WaitStart, StartInv DEF Forget

LEMMA ReturnKeeps == IInv /\ Return => IInv'
<1> SUFFICES ASSUME IInv, Return PROVE IInv'
  OBVIOUS
<1>1. WaitInv' /\ TransferInv'
  BY Forgotten DEF Return
<1>2. CallTypeOK' /\ Requests' /\ Ways'
  BY DEF IInv, Return, Forget, CallInv, CallTypeOK, Requests, Ways, readVars
<1>3. Buffered'
  BY DEF IInv, Return, Waits, CallInv, Buffered, Asked, readVars
<1> QED
  BY <1>1, <1>2, <1>3 DEF IInv, CallInv

LEMMA ReadMemoryKeeps ==
  ASSUME IInv, NEW o \in Offsets, NEW n \in ReadLengths, ReadMemory(o, n)
  PROVE  IInv'
<1>0. /\ o \in Nat /\ n \in Nat /\ way \in {"begin", "port"} /\ reg \in Nat
      /\ MemMap(o) \in Nat /\ (IF n > 0 THEN n ELSE 1) \in Nat
      /\ zero' \in Nat
  BY LpcAssumption DEF ReadMemory, MemMap, IInv, CallInv, CallTypeOK, TransferInv, TransferTypeOK
<1>1. WaitInv' /\ TransferInv'
  BY <1>0, WaitStutter, StartInv DEF IInv, ReadMemory
<1>2. CallTypeOK' /\ Requests' /\ Ways'
  BY <1>0 DEF IInv, ReadMemory, MemMap, CallInv, CallTypeOK, Requests, Ways, StartTransfer
<1>3. Buffered'
  <2>1. n > 0 => at' = "bytes"
    BY DEF ReadMemory
  <2>2. ~(n > 0) => n = 0 /\ Asked(0)' = {} /\ Asked(cnt)' = {} /\ filled' = {}
    BY <1>0 DEF ReadMemory, Asked
  <2> QED
    BY <2>1, <2>2 DEF Buffered
<1> QED
  BY <1>1, <1>2, <1>3 DEF IInv, CallInv

\* A short read is exact, or brings the rest of its word with it.
LEMMA BytesReadKeeps == IInv /\ BytesRead => IInv'
<1> SUFFICES ASSUME IInv, BytesRead PROVE IInv'
  OBVIOUS
<1> USE DEF IInv, CallInv
<1>0. /\ cnt \in Nat /\ cnt > 0 /\ offset \in Nat /\ size = cnt /\ start = 256 + offset
      /\ offset + cnt <= 255
  BY LpcNumbers DEF BytesRead, CallTypeOK, Requests
<1>1. WaitInv' /\ TransferInv'
  BY Forgotten DEF BytesRead
<1>2. Asked(cnt) \subseteq moved /\ moved \subseteq Asked(cnt + 2)
  <2>1. CASE pc = "ported"
    <3>1. moved = {<<k, Port(start) + k>> : k \in 0 .. cnt - 1} /\ way = "port"
      BY <1>0, <2>1 DEF TransferInv, MovedInv, PortInv, Counted, Ported, BytesRead, Ways, CallTypeOK
    <3>2. Port(start) = 3584 + offset
      BY <1>0 DEF Port
    <3>3. moved = Asked(cnt)
      BY <3>1, <3>2 DEF Asked
    <3>4. Asked(cnt) \subseteq Asked(cnt + 2)
      BY <1>0 DEF Asked
    <3> QED
      BY <3>3, <3>4
  <2>2. CASE pc = "done"
    <3>1. moved = {<<k, start + k>> : k \in 0 .. Final - 1} /\ way # "port"
      BY <2>2 DEF TransferInv, MovedInv, Copied, BytesRead, Ways
    <3>2. Final \in cnt .. cnt + 2
      BY <1>0 DEF Final, Fits
    <3> QED
      BY <1>0, <3>1, <3>2 DEF Asked
  <2> QED
    BY <2>1, <2>2 DEF BytesRead, Moved
<1>3. filled' \subseteq Nat \X Nat
  BY DEF BytesRead, TransferInv, TransferTypeOK
<1>4. CallTypeOK' /\ Requests' /\ Ways'
  BY <1>3 DEF BytesRead, Forget, CallTypeOK, Requests, Ways
<1>5. Buffered'
  BY <1>2 DEF BytesRead, Buffered, Asked
<1> QED
  BY <1>1, <1>4, <1>5

\* The byte a string's transfer was for, and the rest of its word.
LEMMA StringByteKeeps == IInv /\ StringByte => IInv'
<1> SUFFICES ASSUME IInv, StringByte PROVE IInv'
  OBVIOUS
<1> USE DEF IInv, CallInv
<1>0. /\ cnt \in Nat /\ offset \in Nat /\ off = offset + cnt /\ size = 1 /\ start = 256 + off
      /\ off < MemMapSize /\ off <= 254 /\ way \in {"begin", "port"} /\ reg \in Nat
      /\ MemMapSize \in Nat
  BY LpcNumbers DEF StringByte, CallTypeOK, Requests, TransferInv, TransferTypeOK
<1> DEFINE Place(k) == <<k, (IF way = "port" THEN 3584 ELSE 256) + offset + k>>
<1>1. WaitInv' /\ TransferInv'
  <2>1. CASE Forget
    BY <2>1, Forgotten
  <2>2. CASE StartTransfer(way, MemMap(off'), 1) /\ off' = off + 1 /\ UNCHANGED waitVars
    <3>1. MemMap(off') \in Nat
      BY <1>0, <2>2 DEF MemMap
    <3> QED
      BY <1>0, <2>2, <3>1, StartInv, WaitStutter
  <2> QED
    BY <2>1, <2>2 DEF StringByte
<1>2. Place(cnt) \in Shifted(cnt) /\ Shifted(cnt) \subseteq {Place(cnt), Place(cnt + 1), Place(cnt + 2)}
  <2>1. CASE pc = "ported"
    <3>1. moved = {<<k, Port(start) + k>> : k \in 0 .. 0} /\ way = "port"
      BY <1>0, <2>1 DEF TransferInv, MovedInv, PortInv, Counted, Ported, StringByte, Ways, CallTypeOK
    <3>2. Port(start) = 3584 + off
      BY <1>0 DEF Port
    <3>3. moved = {<<0, 3584 + off>>}
      BY <3>1, <3>2, <1>0
    <3>4. Place(cnt) \in Shifted(cnt)
      <4>1. <<0 + cnt, 3584 + off>> \in Shifted(cnt)
        BY <3>3, ShiftedFacts
      <4>2. Place(cnt) = <<0 + cnt, 3584 + off>>
        BY <1>0, <3>1
      <4> QED
        BY <4>1, <4>2
    <3>5. \A x \in Shifted(cnt) : x = Place(cnt)
      BY <1>0, <3>1, <3>3, ShiftedFacts
    <3> QED
      BY <3>4, <3>5
  <2>2. CASE pc = "done"
    <3>1. moved = {<<k, start + k>> : k \in 0 .. Final - 1} /\ way # "port"
      BY <2>2 DEF TransferInv, MovedInv, Copied, StringByte, Ways
    <3>2. Final \in 1 .. 3
      BY <1>0 DEF Final, Fits
    <3>3. <<0, start>> \in moved /\ moved \subseteq {<<0, start>>, <<1, start + 1>>, <<2, start + 2>>}
      BY <1>0, <3>1, <3>2
    <3>4. Place(cnt) \in Shifted(cnt)
      <4>1. <<0 + cnt, start>> \in Shifted(cnt)
        BY <3>3, ShiftedFacts
      <4>2. Place(cnt) = <<0 + cnt, start>>
        BY <1>0, <3>1
      <4> QED
        BY <4>1, <4>2
    <3>5. \A x \in Shifted(cnt) : x \in {Place(cnt), Place(cnt + 1), Place(cnt + 2)}
      BY <1>0, <3>1, <3>3, ShiftedFacts
    <3> QED
      BY <3>4, <3>5
  <2> QED
    BY <2>1, <2>2 DEF StringByte, Moved
<1>3. filled' = filled \union Shifted(cnt) /\ cnt' = cnt + 1 /\ UNCHANGED <<way, offset>>
  BY <1>0 DEF StringByte
<1>4. filled' \subseteq Nat \X Nat
  <2>1. Place(cnt) \in Nat \X Nat /\ Place(cnt + 1) \in Nat \X Nat /\ Place(cnt + 2) \in Nat \X Nat
    BY <1>0
  <2> HIDE DEF Place
  <2> QED
    BY <1>2, <1>3, <2>1 DEF CallTypeOK
<1>5. Buffered'
  <2>1. Asked(cnt)' = Asked(cnt + 1) /\ Asked(cnt + 2)' = Asked((cnt + 2) + 1)
    BY <1>0, <1>3 DEF Asked
  <2>2. Asked(cnt + 1) = Asked(cnt) \union {Place(cnt)}
    BY <1>0, AskedFacts
  <2>3. Asked((cnt + 2) + 1) = Asked(cnt + 2) \union {Place(cnt + 2)}
    BY <1>0, AskedFacts
  <2>4. Asked((cnt + 1) + 1) = Asked(cnt + 1) \union {Place(cnt + 1)} /\ (cnt + 1) + 1 = cnt + 2
    BY <1>0, AskedFacts
  <2>5. Asked(cnt) \subseteq filled /\ filled \subseteq Asked(cnt + 2)
    BY DEF Buffered, StringByte
  <2> HIDE DEF Place
  <2> QED
    BY <1>2, <1>3, <2>1, <2>2, <2>3, <2>4, <2>5 DEF Buffered
<1>6. CallTypeOK' /\ Requests' /\ Ways'
  <2>1. CASE Forget /\ at' = "idle" /\ UNCHANGED off
    BY <1>0, <1>3, <1>4, <2>1 DEF StringByte, Forget, CallTypeOK, Requests, Ways
  <2>2. CASE /\ StartTransfer(way, MemMap(off'), 1) /\ off' = off + 1 /\ off + 1 # MemMapSize
             /\ UNCHANGED <<at, outsize, insize>>
    BY <1>0, <1>3, <1>4, <2>2 DEF StringByte, StartTransfer, MemMap, CallTypeOK, Requests, Ways
  <2> QED
    BY <2>1, <2>2 DEF StringByte
<1> QED
  BY <1>1, <1>5, <1>6

LEMMA NextInv == IInv /\ [Next]_vars => IInv'
<1> SUFFICES ASSUME IInv, [Next]_vars PROVE IInv'
  OBVIOUS
<1>1. CASE Clients
  BY <1>1, SendCommandKeeps, ReadMemoryKeeps DEF Clients
<1>2. CASE Library
  BY <1>2, WaitKeeps, AccessKeeps, RequestKeeps, CommandKeeps, HeaderKeeps, PayloadKeeps,
     ReturnKeeps, BytesReadKeeps, StringByteKeeps DEF Library
<1>3. CASE UNCHANGED vars
  <2>1. WaitInv' /\ TransferInv'
    BY <1>3, WaitStutter, TransferStutter DEF IInv, vars
  <2>2. CallTypeOK' /\ Requests' /\ Ways' /\ Buffered'
    BY <1>3 DEF IInv, CallInv, vars, callVars, readVars, transferVars, CallTypeOK, Requests, Ways,
                Buffered, Asked
  <2> QED
    BY <2>1, <2>2 DEF IInv, CallInv
<1> QED
  BY <1>1, <1>2, <1>3 DEF Next

LEMMA Invariance == Spec => []IInv
BY InitInv, NextInv, PTL DEF Spec

-----------------------------------------------------------------------------

\* Every variable has its type and the back-off its ceiling.
THEOREM TypeCorrect == Spec => []TypeOK
<1>1. IInv => TypeOK
  BY DEF IInv, WaitInv, TransferInv, CallInv, CallTypeOK, TypeOK
<1> QED
  BY <1>1, Invariance, PTL

\* The caller is held for no longer than the timeout it asked for, and giving
\* up takes at least that timeout less the longest pause.
THEOREM WaitKeepsItsBounds == Spec => []WaitBounds
<1>1. IInv => WaitBounds
  BY DEF IInv, WaitInv
<1> QED
  BY <1>1, Invariance, PTL

\* A transfer moves what it was asked to, byte for byte.
THEOREM TransfersAreExact == Spec => []Exact
<1>1. IInv => Exact
  BY TransferIsExact DEF IInv
<1> QED
  BY <1>1, Invariance, PTL

\* No byte outside the region of a call is touched, whatever length the EC's
\* header claims; a payload stays within insize bytes behind the header.
THEOREM RegionsAreKept == Spec => []WithinRegion
BY RegionsHold, Invariance, PTL

\* The buffer of ReadMemory holds what it counted.
THEOREM ReadsAreRight == Spec => []ReadIsRight
<1>1. IInv => ReadIsRight
  BY DEF IInv, CallInv, Buffered, ReadIsRight
<1> QED
  BY <1>1, Invariance, PTL
-----------------------------------------------------------------------------
(* Why every call returns *)

\* The turns a wait may still take, ...
TurnsLeft ==
  IF outcome # "waiting" THEN 0
  ELSE IF elapsed < Timeout THEN Timeout - elapsed + 1 ELSE 1

BytesLeft == IF pos < size THEN size - pos ELSE 0

\* ... the steps of a transfer, ...
AccessesLeft ==
  CASE pc = "begin" -> 2 * BytesLeft + 11
    [] pc = "head" -> 2 * BytesLeft + 10 - i
    [] pc = "body" -> 2 * BytesLeft + 5
    [] pc = "low" -> 2 * BytesLeft + 4
    [] pc = "high" -> 2 * BytesLeft + 3
    [] pc = "rest" -> BytesLeft + 2
    [] pc = "tail" -> BytesLeft - i + 1
    [] pc = "port" -> size - i + 1
    [] pc \in {"done", "ported"} -> 0

StepsLeft == IF Waits THEN TurnsLeft ELSE AccessesLeft

\* ... and the waits and transfers of a call.
PartsLeft ==
  CASE at = "wait" -> 5
    [] at = "request" -> 4
    [] at = "wait_answer" -> 3
    [] at = "header" -> 2
    [] at \in {"payload", "bytes"} -> 1
    [] at = "string" -> MemMapSize - off
    [] at = "idle" -> 0

Nearer ==
  \/ PartsLeft' < PartsLeft
  \/ PartsLeft' = PartsLeft /\ StepsLeft' < StepsLeft

LEMMA TurnCounts == WaitInv /\ Turn => TurnsLeft' < TurnsLeft
<1> SUFFICES ASSUME WaitInv, Turn PROVE TurnsLeft' < TurnsLeft
  OBVIOUS
<1>1. elapsed \in Nat /\ Timeout \in Nat /\ WaitTypeOK
  BY WaitAssumption DEF WaitInv, WaitTypeOK
<1>2. CASE Ready \/ GiveUp
  BY <1>1, <1>2 DEF Ready, GiveUp, TurnsLeft
<1>3. CASE Busy
  <2>1. delay' \in Nat \ {0} /\ elapsed' = elapsed + delay' /\ outcome' = outcome
    BY <1>1, <1>3, BackOffRange, WaitAssumption DEF Busy, WaitTypeOK
  <2> QED
    BY <1>1, <1>3, <2>1 DEF Busy, TurnsLeft
<1> QED
  BY <1>2, <1>3 DEF Turn

LEMMA AccessCounts == TransferInv /\ Transfer => AccessesLeft' < AccessesLeft
<1> SUFFICES ASSUME TransferInv, Transfer PROVE AccessesLeft' < AccessesLeft
  OBVIOUS
<1>0. size \in Nat /\ pos \in Nat /\ i \in Nat /\ address \in Nat
  BY DEF TransferInv, TransferTypeOK
<1>1. size' = size
  BY TransferKeeps
<1>2. CASE Begin
  <2>1. pos' = pos /\ BytesLeft' = BytesLeft /\ BytesLeft \in Nat
    BY <1>0, <1>2 DEF Begin, BytesLeft
  <2>2. pc = "begin" /\ ((pc' = "head" /\ i' \in Nat) \/ pc' = "body")
    BY <1>0, <1>2 DEF Begin
  <2> QED
    BY <2>1, <2>2 DEF AccessesLeft
<1>3. CASE HeadByte
  BY <1>0, <1>3 DEF HeadByte, AccessesLeft, BytesLeft
<1>4. CASE HeadEnd \/ Body \/ WordLow
  BY <1>0, <1>4 DEF HeadEnd, Body, WordLow, AccessesLeft, BytesLeft
<1>5. CASE WordHigh
  <2>1. size - pos >= 4
    BY <1>5 DEF TransferInv, EmiInv, WordHigh
  <2>2. BytesLeft' = BytesLeft - 4 /\ BytesLeft \in Nat
    BY <1>0, <1>5, <2>1 DEF WordHigh, BytesLeft
  <2>3. pc = "high" /\ pc' \in {"low", "rest"}
    BY <1>5 DEF WordHigh
  <2> QED
    BY <2>2, <2>3 DEF AccessesLeft
<1>6. CASE Rest \/ TailByte \/ TailEnd
  BY <1>0, <1>6 DEF Rest, TailByte, TailEnd, AccessesLeft, BytesLeft
<1>7. CASE PortByte \/ PortEnd
  BY <1>0, <1>7 DEF PortByte, PortEnd, AccessesLeft
<1> QED
  BY <1>2, <1>3, <1>4, <1>5, <1>6, <1>7 DEF Transfer

LEMMA Numbers == IInv => PartsLeft \in Nat /\ StepsLeft \in Nat
<1> SUFFICES ASSUME IInv PROVE PartsLeft \in Nat /\ StepsLeft \in Nat
  OBVIOUS
<1>1. PartsLeft \in Nat
  BY LpcNumbers DEF IInv, CallInv, CallTypeOK, Requests, PartsLeft
<1>2. TurnsLeft \in Nat
  BY WaitAssumption DEF IInv, WaitInv, WaitTypeOK, TurnsLeft
<1>3. AccessesLeft \in Nat
  <2>1. size \in Nat /\ pos \in Nat /\ i \in Nat
    BY DEF IInv, TransferInv, TransferTypeOK
  <2>2. BytesLeft \in Nat
    BY <2>1 DEF BytesLeft
  <2>3. CASE pc \in {"head", "tail", "port"}
    BY <2>1, <2>2, <2>3 DEF IInv, TransferInv, TransferTypeOK, EmiInv, PortInv, AccessesLeft, BytesLeft
  <2>4. CASE pc \notin {"head", "tail", "port"}
    BY <2>1, <2>2, <2>4 DEF IInv, TransferInv, TransferTypeOK, AccessesLeft
  <2> QED
    BY <2>3, <2>4
<1> QED
  BY <1>1, <1>2, <1>3 DEF StepsLeft

LEMMA LibraryGetsNearer == IInv /\ Library => Nearer
<1> SUFFICES ASSUME IInv, Library PROVE Nearer
  OBVIOUS
<1>1. CASE Wait
  <2>1. PartsLeft' = PartsLeft /\ Waits /\ Waits'
    BY <1>1 DEF Wait, Waits, PartsLeft, callVars, readVars
  <2> QED
    BY <1>1, <2>1, TurnCounts DEF IInv, Wait, Nearer, StepsLeft
<1>2. CASE Access
  <2>1. PartsLeft' = PartsLeft /\ ~Waits /\ ~Waits'
    BY <1>2 DEF Access, Waits, PartsLeft, callVars, readVars
  <2> QED
    BY <1>2, <2>1, AccessCounts DEF IInv, Access, Nearer, StepsLeft
<1>3. CASE Request \/ Command \/ Header \/ Payload
  BY <1>3 DEF Request, Command, Header, Payload, PartsLeft, Nearer
<1>4. CASE Return \/ BytesRead
  BY <1>4 DEF Return, BytesRead, Waits, PartsLeft, Nearer
<1>5. CASE StringByte
  <2>1. off \in Nat /\ off < MemMapSize /\ MemMapSize \in Nat
    BY <1>5, LpcNumbers DEF IInv, CallInv, CallTypeOK, Requests, StringByte
  <2> QED
    BY <1>5, <2>1 DEF StringByte, PartsLeft, Nearer
<1> QED
  BY <1>1, <1>2, <1>3, <1>4, <1>5 DEF Library

\* Every turn of a wait, every access and every other step of SendCommand and
\* ReadMemory brings the call nearer to its return, for every timeout, back-off
\* and size: what CallsReturn needs besides fairness.
THEOREM EveryStepCounts ==
  Spec => [](PartsLeft \in Nat /\ StepsLeft \in Nat) /\ [][Library => Nearer]_vars
<1>1. IInv /\ [Next]_vars => [Library => Nearer]_vars
  BY LibraryGetsNearer
<1> QED
  BY Invariance, Numbers, <1>1, PTL DEF Spec
=============================================================================
