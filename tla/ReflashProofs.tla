--------------------------- MODULE ReflashProofs ---------------------------
(***************************************************************************)
(* Proofs about Reflash, for every flash chip, every table of flash maps   *)
(* with regions that do not overlap, and every number of invocations.      *)
(*                                                                         *)
(* The argument.  The indices an invocation is to flash are those still to *)
(* do, the one at hand, and those done.  What is done is above the one at  *)
(* hand, which is above what is still to do, so at the boot block nothing  *)
(* else is left.  A region is done when it passed the check, and then it   *)
(* holds the image or is on record as unread, and no erase is outstanding: *)
(* writing it succeeded only because the EC was through with any earlier   *)
(* one, and an erase outlives its command only by ending the invocation.   *)
(* Nothing but the region at hand is ever changed.                         *)
(*                                                                         *)
(* The refinement of FlashSession, and what brings an invocation to its    *)
(* end, are in sections of their own.                                      *)
(***************************************************************************)
EXTENDS Reflash, TLAPS, FiniteSetTheorems

\* Before the flash is touched; at a region; from the first region on.
Early == {"check1", "load", "match", "mask", "countdown", "check2", "unlock", "unlock2"}
Locking == {"lock", "lock2", "finish"}
Flashing == {"pick"} \union Working \union Locking

\* The regions this invocation is through with.
DoneRegions == desired \ (todo \union (IF pc \in Working THEN {cur} ELSE {}))

\* The plan: the map is chosen, and its regions are taken in falling order.
PlanInv ==
  /\ pc \in {"check1", "load", "match"} => map = NoMap
  /\ pc \in Flashing \union {"mask", "countdown", "check2", "unlock", "unlock2"} => map # NoMap
  /\ todo \subseteq desired
  /\ unread \subseteq desired \ todo
  /\ pc \in Early => unread = {}
  /\ pc \in Early => todo = desired
  /\ pc \in Working => cur \in desired \ (todo \union unread) /\ \A j \in todo : j < cur
  /\ pc \in Locking => todo = {}

\* What was found and what has been done to it so far.
FlashInv ==
  /\ pc # "done" => exit = "none"
  /\ pc \in Early => flash = begun
  /\ pc \in Flashing =>
       \A c \in Cells : flash[c] # begun[c] =>
          \E i \in desired \ todo : c \in Region(i).cells
  /\ pc \in Flashing => \A i \in DoneRegions : late = {} /\ Flashed(i)
  /\ pc \in {"writing", "verify"} => late = {}
  /\ pc = "verify" => \A c \in Region(cur).cells : flash[c] \in {"image", "junk"}
  /\ pc \in {"lock2", "finish"} => (map.unlock => ~spi)

IInv == TypeOK /\ PlanInv /\ FlashInv /\ SuccessIsWhole /\ QuietExit

LEMMA InitInv == Init => IInv
<1> SUFFICES ASSUME Init PROVE IInv
  OBVIOUS
<1> USE ReflashAssumption DEF Init
<1>1. TypeOK
  <2>1. opts \in Options
    BY DEF Options
  <2>2. flash \in [Cells -> Contents] /\ begun \in [Cells -> Contents]
    BY DEF Contents
  <2>3. runs \in 0 .. MaxRuns /\ late \subseteq Cells /\ image \in ImageIds
    OBVIOUS
  <2>4. accepted \in BOOLEAN /\ spi \in BOOLEAN /\ overrode \in BOOLEAN
    OBVIOUS
  <2> QED
    BY <2>1, <2>2, <2>3, <2>4 DEF TypeOK
<1>2. PlanInv /\ FlashInv /\ SuccessIsWhole /\ QuietExit
  BY DEF PlanInv, FlashInv, SuccessIsWhole, QuietExit, Early, Working, Locking, Flashing
<1> QED
  BY <1>1, <1>2 DEF IInv

LEMMA InvokeInv == IInv /\ Invoke => IInv'
<1> SUFFICES ASSUME IInv, Invoke PROVE IInv'
  OBVIOUS
<1> USE ReflashAssumption DEF Invoke, IInv, args, plan, chip
<1>1. TypeOK'
  <2>1. opts' \in Options /\ overrode' \in BOOLEAN
    BY DEF TypeOK, Options
  <2>2. runs' \in 0 .. MaxRuns
    BY DEF TypeOK
  <2> QED
    BY <2>1, <2>2 DEF TypeOK
<1>2. PlanInv'
  BY DEF PlanInv, TypeOK, Early, Working, Locking, Flashing, Indices
<1>3. FlashInv'
  BY DEF FlashInv, PlanInv, TypeOK, DoneRegions, Flashed, Region, Early, Working, Locking,
     Flashing, Indices
<1>4. SuccessIsWhole'
  BY DEF SuccessIsWhole, FlashInv, PlanInv, TypeOK, DoneRegions, Flashed, Region, Early,
     Working, Locking, Flashing
<1>5. QuietExit'
  BY DEF QuietExit, FlashInv, PlanInv, TypeOK, DoneRegions, Flashed, Region, Early,
     Working, Locking, Flashing
<1> QED
  BY <1>1, <1>2, <1>3, <1>4, <1>5

LEMMA CheckBeforeInv == IInv /\ CheckBefore => IInv'
<1> SUFFICES ASSUME IInv, CheckBefore PROVE IInv'
  OBVIOUS
<1> USE ReflashAssumption DEF CheckBefore, CheckReady, Leave, IInv, args, plan, chip
<1>1. TypeOK'
  BY DEF TypeOK, PlanInv, Contents, Indices, Region, Flashing, Working, Locking
<1>2. PlanInv'
  BY DEF PlanInv, TypeOK, Early, Working, Locking, Flashing, Indices
<1>3. FlashInv'
  BY DEF FlashInv, PlanInv, TypeOK, DoneRegions, Flashed, Region, Early, Working, Locking,
     Flashing, Indices
<1>4. SuccessIsWhole'
  BY DEF SuccessIsWhole, FlashInv, PlanInv, TypeOK, DoneRegions, Flashed, Region, Early,
     Working, Locking, Flashing
<1>5. QuietExit'
  BY DEF QuietExit, FlashInv, PlanInv, TypeOK, DoneRegions, Flashed, Region, Early,
     Working, Locking, Flashing
<1> QED
  BY <1>1, <1>2, <1>3, <1>4, <1>5

LEMMA CheckAgainInv == IInv /\ CheckAgain => IInv'
<1> SUFFICES ASSUME IInv, CheckAgain PROVE IInv'
  OBVIOUS
<1> USE ReflashAssumption DEF CheckAgain, CheckReady, Leave, IInv, args, plan, chip
<1>1. TypeOK'
  BY DEF TypeOK, PlanInv, Contents, Indices, Region, Flashing, Working, Locking
<1>2. PlanInv'
  BY DEF PlanInv, TypeOK, Early, Working, Locking, Flashing, Indices
<1>3. FlashInv'
  BY DEF FlashInv, PlanInv, TypeOK, DoneRegions, Flashed, Region, Early, Working, Locking,
     Flashing, Indices
<1>4. SuccessIsWhole'
  BY DEF SuccessIsWhole, FlashInv, PlanInv, TypeOK, DoneRegions, Flashed, Region, Early,
     Working, Locking, Flashing
<1>5. QuietExit'
  BY DEF QuietExit, FlashInv, PlanInv, TypeOK, DoneRegions, Flashed, Region, Early,
     Working, Locking, Flashing
<1> QED
  BY <1>1, <1>2, <1>3, <1>4, <1>5

LEMMA LoadInv == IInv /\ Load => IInv'
<1> SUFFICES ASSUME IInv, Load PROVE IInv'
  OBVIOUS
<1> USE ReflashAssumption DEF Load, Leave, IInv, args, plan, chip
<1>1. TypeOK'
  BY DEF TypeOK, PlanInv, Contents, Indices, Region, Flashing, Working, Locking
<1>2. PlanInv'
  BY DEF PlanInv, TypeOK, Early, Working, Locking, Flashing, Indices
<1>3. FlashInv'
  BY DEF FlashInv, PlanInv, TypeOK, DoneRegions, Flashed, Region, Early, Working, Locking,
     Flashing, Indices
<1>4. SuccessIsWhole'
  BY DEF SuccessIsWhole, FlashInv, PlanInv, TypeOK, DoneRegions, Flashed, Region, Early,
     Working, Locking, Flashing
<1>5. QuietExit'
  BY DEF QuietExit, FlashInv, PlanInv, TypeOK, DoneRegions, Flashed, Region, Early,
     Working, Locking, Flashing
<1> QED
  BY <1>1, <1>2, <1>3, <1>4, <1>5

LEMMA MatchInv == IInv /\ Match => IInv'
<1> SUFFICES ASSUME IInv, Match PROVE IInv'
  OBVIOUS
<1> USE ReflashAssumption DEF Match, Leave, IInv, args, plan, chip
<1>1. TypeOK'
  BY DEF TypeOK, PlanInv, FlashMaps
<1>2. PlanInv'
  BY DEF PlanInv, TypeOK, Early, Working, Locking, Flashing
<1>3. FlashInv'
  BY DEF FlashInv, PlanInv, TypeOK, DoneRegions, Flashed, Region, Early, Working, Locking,
     Flashing, Indices
<1>4. SuccessIsWhole'
  BY DEF SuccessIsWhole, FlashInv, PlanInv, TypeOK, DoneRegions, Flashed, Region, Early,
     Working, Locking, Flashing
<1>5. QuietExit'
  BY DEF QuietExit, FlashInv, PlanInv, TypeOK, DoneRegions, Flashed, Region, Early,
     Working, Locking, Flashing
<1> QED
  BY <1>1, <1>2, <1>3, <1>4, <1>5

LEMMA MaskInv == IInv /\ Mask => IInv'
<1> SUFFICES ASSUME IInv, Mask PROVE IInv'
  OBVIOUS
<1> USE ReflashAssumption DEF Mask, IInv, args, plan, chip
<1>1. TypeOK'
  <2>1. \A all, ro, rw : DesireMask(map, all, ro, rw) \subseteq Indices(map)
    BY DEF DesireMask
  <2>2. todo' \subseteq Indices(map) /\ desired' = todo'
    BY <2>1
  <2>3. map # NoMap /\ unread = {}
    BY DEF PlanInv, Early
  <2> QED
    BY <2>2, <2>3 DEF TypeOK, Indices
<1>2. PlanInv'
  BY DEF PlanInv, TypeOK, Early, Working, Locking, Flashing, Indices
<1>3. FlashInv'
  BY DEF FlashInv, PlanInv, TypeOK, DoneRegions, Flashed, Region, Early, Working, Locking,
     Flashing, Indices
<1>4. SuccessIsWhole'
  BY DEF SuccessIsWhole, FlashInv, PlanInv, TypeOK, DoneRegions, Flashed, Region, Early,
     Working, Locking, Flashing
<1>5. QuietExit'
  BY DEF QuietExit, FlashInv, PlanInv, TypeOK, DoneRegions, Flashed, Region, Early,
     Working, Locking, Flashing
<1> QED
  BY <1>1, <1>2, <1>3, <1>4, <1>5

LEMMA CountdownInv == IInv /\ Countdown => IInv'
<1> SUFFICES ASSUME IInv, Countdown PROVE IInv'
  OBVIOUS
<1> USE ReflashAssumption DEF Countdown, Leave, IInv, args, plan, chip
<1>1. TypeOK'
  BY DEF TypeOK, PlanInv, Contents, Indices, Region, Flashing, Working, Locking
<1>2. PlanInv'
  BY DEF PlanInv, TypeOK, Early, Working, Locking, Flashing, Indices
<1>3. FlashInv'
  BY DEF FlashInv, PlanInv, TypeOK, DoneRegions, Flashed, Region, Early, Working, Locking,
     Flashing, Indices
<1>4. SuccessIsWhole'
  BY DEF SuccessIsWhole, FlashInv, PlanInv, TypeOK, DoneRegions, Flashed, Region, Early,
     Working, Locking, Flashing
<1>5. QuietExit'
  BY DEF QuietExit, FlashInv, PlanInv, TypeOK, DoneRegions, Flashed, Region, Early,
     Working, Locking, Flashing
<1> QED
  BY <1>1, <1>2, <1>3, <1>4, <1>5

\* A notification of the EC, wherever the command goes on.
LEMMA NotifyType ==
  ASSUME TypeOK, NEW at, NEW next \in {"unlock2", "pick", "lock2", "finish"},
         NEW access \in BOOLEAN, Notify(at, next, access)
  PROVE  TypeOK'
<1>1. UNCHANGED <<args, plan, flash, late, accepted>>
  BY DEF Notify
<1>2. spi' \in BOOLEAN
  BY DEF Notify, TypeOK
<1>3. \/ pc' = next /\ exit' = exit
      \/ pc' = "done" /\ exit' = "device_error"
  BY DEF Notify, Leave
<1> QED
  BY <1>1, <1>2, <1>3 DEF TypeOK, args, plan, Indices

LEMMA UnlockInv == IInv /\ Unlock => IInv'
<1> SUFFICES ASSUME IInv, Unlock PROVE IInv'
  OBVIOUS
<1> USE ReflashAssumption DEF Unlock, Notify, Leave, IInv, args, plan, chip
<1>1. TypeOK'
  <2> HIDE DEF Notify, Leave
  <2>1. spi \in BOOLEAN /\ TypeOK
    BY DEF TypeOK
  <2>2. CASE Notify("unlock", "unlock2", TRUE) \/ Notify("unlock2", "pick", spi)
    BY <2>1, <2>2, NotifyType
  <2>3. CASE pc' = "pick" /\ UNCHANGED <<args, plan, chip, exit>>
    BY <2>1, <2>3 DEF TypeOK, Indices
  <2> QED
    BY <2>2, <2>3
<1>2. PlanInv'
  BY DEF PlanInv, TypeOK, Early, Working, Locking, Flashing, Indices
<1>3. FlashInv'
  BY DEF FlashInv, PlanInv, TypeOK, DoneRegions, Flashed, Region, Early, Working, Locking,
     Flashing, Indices
<1>4. SuccessIsWhole'
  BY DEF SuccessIsWhole, FlashInv, PlanInv, TypeOK, DoneRegions, Flashed, Region, Early,
     Working, Locking, Flashing
<1>5. QuietExit'
  BY DEF QuietExit, FlashInv, PlanInv, TypeOK, DoneRegions, Flashed, Region, Early,
     Working, Locking, Flashing
<1> QED
  BY <1>1, <1>2, <1>3, <1>4, <1>5

LEMMA PickRegionInv == IInv /\ PickRegion => IInv'
<1> SUFFICES ASSUME IInv, PickRegion PROVE IInv'
  OBVIOUS
<1> USE ReflashAssumption DEF PickRegion, IInv, args, plan, chip
<1>1. TypeOK'
  BY DEF TypeOK, PlanInv, Contents, Indices, Region, Flashing, Working, Locking
<1>2. PlanInv'
  BY DEF PlanInv, TypeOK, Early, Working, Locking, Flashing, Indices
<1>3. FlashInv'
  BY DEF FlashInv, PlanInv, TypeOK, DoneRegions, Flashed, Region, Early, Working, Locking,
     Flashing, Indices
<1>4. SuccessIsWhole'
  BY DEF SuccessIsWhole, FlashInv, PlanInv, TypeOK, DoneRegions, Flashed, Region, Early,
     Working, Locking, Flashing
<1>5. QuietExit'
  BY DEF QuietExit, FlashInv, PlanInv, TypeOK, DoneRegions, Flashed, Region, Early,
     Working, Locking, Flashing
<1> QED
  BY <1>1, <1>2, <1>3, <1>4, <1>5

LEMMA StartEraseInv == IInv /\ StartErase => IInv'
<1> SUFFICES ASSUME IInv, StartErase PROVE IInv'
  OBVIOUS
<1> USE ReflashAssumption DEF StartErase, IInv, args, plan, chip
<1>1. TypeOK'
  BY DEF TypeOK, PlanInv, Contents, Indices, Region, Flashing, Working, Locking
<1>2. PlanInv'
  BY DEF PlanInv, TypeOK, Early, Working, Locking, Flashing, Indices
<1>3. FlashInv'
  BY DEF FlashInv, PlanInv, TypeOK, DoneRegions, Flashed, Region, Early, Working, Locking,
     Flashing, Indices
<1>4. SuccessIsWhole'
  BY DEF SuccessIsWhole, FlashInv, PlanInv, TypeOK, DoneRegions, Flashed, Region, Early,
     Working, Locking, Flashing
<1>5. QuietExit'
  BY DEF QuietExit, FlashInv, PlanInv, TypeOK, DoneRegions, Flashed, Region, Early,
     Working, Locking, Flashing
<1> QED
  BY <1>1, <1>2, <1>3, <1>4, <1>5

LEMMA EraseResultInv == IInv /\ EraseResult => IInv'
<1> SUFFICES ASSUME IInv, EraseResult PROVE IInv'
  OBVIOUS
<1> USE ReflashAssumption DEF EraseResult, Leave, Erased, IInv, args, plan, chip
<1>1. TypeOK'
  BY DEF TypeOK, PlanInv, Contents, Indices, Region, Flashing, Working, Locking
<1>2. PlanInv'
  BY DEF PlanInv, TypeOK, Early, Working, Locking, Flashing, Indices
<1>3. FlashInv'
  BY DEF FlashInv, PlanInv, TypeOK, DoneRegions, Flashed, Region, Early, Working, Locking,
     Flashing, Indices
<1>4. SuccessIsWhole'
  BY DEF SuccessIsWhole, FlashInv, PlanInv, TypeOK, DoneRegions, Flashed, Region, Early,
     Working, Locking, Flashing
<1>5. QuietExit'
  BY DEF QuietExit, FlashInv, PlanInv, TypeOK, DoneRegions, Flashed, Region, Early,
     Working, Locking, Flashing
<1> QED
  BY <1>1, <1>2, <1>3, <1>4, <1>5

LEMMA FinishLateEraseInv == IInv /\ FinishLateErase => IInv'
<1> SUFFICES ASSUME IInv, FinishLateErase PROVE IInv'
  OBVIOUS
<1> USE ReflashAssumption DEF FinishLateErase, Erased, IInv, args, plan, chip
<1>1. TypeOK'
  BY DEF TypeOK, PlanInv, Contents, Indices, Region, Flashing, Working, Locking
<1>2. PlanInv'
  BY DEF PlanInv, TypeOK, Early, Working, Locking, Flashing, Indices
<1>3. FlashInv'
  BY DEF FlashInv, PlanInv, TypeOK, DoneRegions, Flashed, Region, Early, Working, Locking,
     Flashing, Indices
<1>4. SuccessIsWhole'
  BY DEF SuccessIsWhole, FlashInv, PlanInv, TypeOK, DoneRegions, Flashed, Region, Early,
     Working, Locking, Flashing
<1>5. QuietExit'
  <2> SUFFICES ASSUME pc = "done", exit \notin {"device_error", "crash"},
                      NEW c \in Cells, flash'[c] # begun'[c]
               PROVE  exit = "success" /\ \E i \in desired : c \in Region(i).cells /\ Flashed(i)'
    BY DEF QuietExit, Region
  <2>1. c \notin late /\ flash[c] # begun[c]
    BY DEF TypeOK
  <2>2. PICK i \in desired : exit = "success" /\ c \in Region(i).cells /\ Flashed(i)
    BY <2>1 DEF QuietExit
  <2>3. late \intersect Region(i).cells = {}
    BY <2>2 DEF SuccessIsWhole
  <2>4. Region(i).cells \subseteq Cells
    BY <2>2 DEF TypeOK, Region
  <2>5. \A d \in Region(i).cells : flash'[d] = flash[d]
    BY <2>3, <2>4
  <2>6. Flashed(i)'
    BY <2>2, <2>5 DEF Flashed, Region
  <2> QED
    BY <2>2, <2>6
<1> QED
  BY <1>1, <1>2, <1>3, <1>4, <1>5

LEMMA StartWriteInv == IInv /\ StartWrite => IInv'
<1> SUFFICES ASSUME IInv, StartWrite PROVE IInv'
  OBVIOUS
<1> USE ReflashAssumption DEF StartWrite, Leave, IInv, args, plan, chip
<1>1. TypeOK'
  BY DEF TypeOK, PlanInv, Contents, Indices, Region, Flashing, Working, Locking
<1>2. PlanInv'
  BY DEF PlanInv, TypeOK, Early, Working, Locking, Flashing, Indices
<1>3. FlashInv'
  BY DEF FlashInv, PlanInv, TypeOK, DoneRegions, Flashed, Region, Early, Working, Locking,
     Flashing, Indices
<1>4. SuccessIsWhole'
  BY DEF SuccessIsWhole, FlashInv, PlanInv, TypeOK, DoneRegions, Flashed, Region, Early,
     Working, Locking, Flashing
<1>5. QuietExit'
  BY DEF QuietExit, FlashInv, PlanInv, TypeOK, DoneRegions, Flashed, Region, Early,
     Working, Locking, Flashing
<1> QED
  BY <1>1, <1>2, <1>3, <1>4, <1>5

LEMMA WriteResultInv == IInv /\ WriteResult => IInv'
<1> SUFFICES ASSUME IInv, WriteResult PROVE IInv'
  OBVIOUS
<1> USE ReflashAssumption DEF WriteResult, Leave, IInv, args, plan, chip
<1>1. TypeOK'
  BY DEF TypeOK, PlanInv, Contents, Indices, Region, Flashing, Working, Locking
<1>2. PlanInv'
  BY DEF PlanInv, TypeOK, Early, Working, Locking, Flashing, Indices
<1>3. FlashInv'
  BY DEF FlashInv, PlanInv, TypeOK, DoneRegions, Flashed, Region, Early, Working, Locking,
     Flashing, Indices
<1>4. SuccessIsWhole'
  BY DEF SuccessIsWhole, FlashInv, PlanInv, TypeOK, DoneRegions, Flashed, Region, Early,
     Working, Locking, Flashing
<1>5. QuietExit'
  BY DEF QuietExit, FlashInv, PlanInv, TypeOK, DoneRegions, Flashed, Region, Early,
     Working, Locking, Flashing
<1> QED
  BY <1>1, <1>2, <1>3, <1>4, <1>5

LEMMA EmptyWritesInv == IInv /\ EmptyWrites => IInv'
<1> SUFFICES ASSUME IInv, EmptyWrites PROVE IInv'
  OBVIOUS
<1> USE ReflashAssumption DEF EmptyWrites, Leave, IInv, args, plan, chip
<1>1. TypeOK'
  BY DEF TypeOK, PlanInv, Contents, Indices, Region, Flashing, Working, Locking
<1>2. PlanInv'
  BY DEF PlanInv, TypeOK, Early, Working, Locking, Flashing, Indices
<1>3. FlashInv'
  BY DEF FlashInv, PlanInv, TypeOK, DoneRegions, Flashed, Region, Early, Working, Locking,
     Flashing, Indices
<1>4. SuccessIsWhole'
  BY DEF SuccessIsWhole, FlashInv, PlanInv, TypeOK, DoneRegions, Flashed, Region, Early,
     Working, Locking, Flashing
<1>5. QuietExit'
  BY DEF QuietExit, FlashInv, PlanInv, TypeOK, DoneRegions, Flashed, Region, Early,
     Working, Locking, Flashing
<1> QED
  BY <1>1, <1>2, <1>3, <1>4, <1>5

LEMMA VerifyInv == IInv /\ Verify => IInv'
<1> SUFFICES ASSUME IInv, Verify PROVE IInv'
  OBVIOUS
<1> USE ReflashAssumption DEF Verify, Leave, IInv, args, plan, chip
<1>1. TypeOK'
  BY DEF TypeOK, PlanInv, Contents, Indices, Region, Flashing, Working, Locking
<1>2. PlanInv'
  BY DEF PlanInv, TypeOK, Early, Working, Locking, Flashing, Indices
<1>3. FlashInv'
  BY DEF FlashInv, PlanInv, TypeOK, DoneRegions, Flashed, Region, Early, Working, Locking,
     Flashing, Indices
<1>4. SuccessIsWhole'
  BY DEF SuccessIsWhole, FlashInv, PlanInv, TypeOK, DoneRegions, Flashed, Region, Early,
     Working, Locking, Flashing
<1>5. QuietExit'
  BY DEF QuietExit, FlashInv, PlanInv, TypeOK, DoneRegions, Flashed, Region, Early,
     Working, Locking, Flashing
<1> QED
  BY <1>1, <1>2, <1>3, <1>4, <1>5

LEMMA LockInv == IInv /\ Lock => IInv'
<1> SUFFICES ASSUME IInv, Lock PROVE IInv'
  OBVIOUS
<1> USE ReflashAssumption DEF Lock, Notify, Leave, IInv, args, plan, chip
<1>1. TypeOK'
  <2> HIDE DEF Notify
  <2>1. spi \in BOOLEAN /\ TypeOK
    BY DEF TypeOK
  <2>2. CASE Notify("lock", "lock2", FALSE) \/ Notify("lock2", "finish", spi)
    BY <2>1, <2>2, NotifyType
  <2>3. CASE /\ pc' \in {"lock", "finish", "done"}
             /\ exit' \in {exit, "success"}
             /\ UNCHANGED <<args, plan, chip>>
    BY <2>1, <2>3 DEF TypeOK, Indices
  <2> QED
    BY <2>2, <2>3
<1>2. PlanInv'
  BY DEF PlanInv, TypeOK, Early, Working, Locking, Flashing, Indices
<1>3. FlashInv'
  <2> USE DEF FlashInv, PlanInv, TypeOK, DoneRegions, Flashed, Region, Early, Working,
          Locking, Flashing
  <2>1. CASE Notify("lock", "lock2", FALSE)
    BY <2>1
  <2>2. CASE Notify("lock2", "finish", spi)
    BY <2>2
  <2>3. CASE pc = "pick" /\ todo = {}
    BY <2>3
  <2>4. CASE pc = "finish"
    BY <2>4
  <2> QED
    BY <2>1, <2>2, <2>3, <2>4
<1>4. SuccessIsWhole'
  BY DEF SuccessIsWhole, FlashInv, PlanInv, TypeOK, DoneRegions, Flashed, Region, Early,
     Working, Locking, Flashing
<1>5. QuietExit'
  <2> SUFFICES ASSUME pc' = "done", exit' \notin {"device_error", "crash"},
                      NEW c \in Cells, flash'[c] # begun'[c]
               PROVE  exit' = "success" /\ \E i \in desired : c \in Region(i).cells /\ Flashed(i)'
    BY DEF QuietExit, Region
  <2>1. pc = "finish" /\ exit' = "success" /\ UNCHANGED <<args, plan, chip>>
    OBVIOUS
  <2>2. PICK i \in desired \ todo : c \in Region(i).cells
    BY <2>1 DEF FlashInv, Flashing, Locking
  <2>3. i \in DoneRegions /\ pc \in Flashing
    BY <2>1, <2>2 DEF DoneRegions, Working, Flashing, Locking
  <2>4. Flashed(i)
    BY <2>3 DEF FlashInv
  <2> QED
    BY <2>1, <2>2, <2>4 DEF Flashed, Region
<1> QED
  BY <1>1, <1>2, <1>3, <1>4, <1>5

LEMMA NextInv == IInv /\ [Next]_vars => IInv'
<1> SUFFICES ASSUME IInv, [Next]_vars PROVE IInv'
  OBVIOUS
<1>1. CASE Invoke
  BY <1>1, InvokeInv
<1>2. CASE Command
  BY <1>2, CheckBeforeInv, CheckAgainInv, LoadInv, MatchInv, MaskInv, CountdownInv,
     UnlockInv, PickRegionInv, StartEraseInv, EraseResultInv, StartWriteInv,
     WriteResultInv, VerifyInv, LockInv DEF Command
<1>3. CASE EmptyWrites \/ FinishLateErase
  BY <1>3, EmptyWritesInv, FinishLateEraseInv
<1>4. CASE UNCHANGED vars
  BY <1>4 DEF vars, IInv, TypeOK, PlanInv, FlashInv, SuccessIsWhole, QuietExit,
     DoneRegions, Flashed, Region
<1>5. Rest => UNCHANGED vars
  BY DEF Rest
<1> QED
  BY <1>1, <1>2, <1>3, <1>4, <1>5 DEF Next

THEOREM Invariance == Spec => []IInv
  BY InitInv, NextInv, PTL DEF Spec

\* Type correctness of the command and the chip.
THEOREM TypeCorrect == Spec => []TypeOK
  BY Invariance, PTL DEF IInv

\* A reported success is a whole one, whatever failed on the way, in this
\* invocation or an earlier one.
THEOREM SuccessWhole == Spec => []SuccessIsWhole
  BY Invariance, PTL DEF IInv

\* Nothing half-flashed goes unannounced.
THEOREM ExitsQuietly == Spec => []QuietExit
  BY Invariance, PTL DEF IInv

-----------------------------------------------------------------------------
(* The boot block comes last. *)

\* At the first region nothing else is left to do, so all else is done.
LEMMA AllElseDone ==
  ASSUME IInv, pc \in Working, cur = 1
  PROVE  \A i \in desired \ {1} : Flashed(i)
<1>1. todo = {}
  BY DEF IInv, PlanInv, TypeOK, Indices
<1> QED
  BY <1>1 DEF IInv, FlashInv, DoneRegions, Flashing

\* Only the region at hand is changed by a step of the command.
LEMMA OnlyCurrent ==
  ASSUME IInv, Next, late' = late, NEW c \in Cells, flash'[c] # flash[c]
  PROVE  pc \in Working /\ c \in Region(cur).cells
<1> USE DEF chip, args, plan
<1>1. CASE StartErase
  BY <1>1 DEF StartErase, Working, IInv, TypeOK
<1>2. CASE EraseResult
  BY <1>2 DEF EraseResult, Erased, Working, IInv, TypeOK
<1>3. CASE StartWrite
  BY <1>3 DEF StartWrite, Working, IInv, TypeOK
<1>4. CASE WriteResult
  BY <1>4 DEF WriteResult, Working, IInv, TypeOK
<1>5. ~FinishLateErase
  BY DEF FinishLateErase
<1>6. CASE Invoke \/ CheckBefore \/ Load \/ Match \/ Mask \/ Countdown \/ CheckAgain
  BY <1>6 DEF Invoke, CheckBefore, CheckReady, Load, Match, Mask, Countdown, CheckAgain
<1>7. CASE Unlock \/ PickRegion \/ EmptyWrites \/ Verify \/ Lock \/ Rest
  BY <1>7 DEF Unlock, Notify, PickRegion, EmptyWrites, Verify, Lock, Rest, vars
<1> QED
  BY <1>1, <1>2, <1>3, <1>4, <1>5, <1>6, <1>7 DEF Next, Command

\* No step changes a cell of the boot block before every other region to be
\* flashed holds the image, so that no loss of power does either.
THEOREM BootblockIsLast == Spec => BootblockLast
<1>1. IInv /\ [Next]_vars =>
        [(late' = late /\ map # NoMap) =>
           \A c \in Region(1).cells :
             flash'[c] # flash[c] => \A i \in desired \ {1} : Flashed(i)]_vars
  <2> SUFFICES ASSUME IInv, Next, late' = late, map # NoMap,
                      NEW c \in Region(1).cells, flash'[c] # flash[c]
               PROVE  \A i \in desired \ {1} : Flashed(i)
    BY DEF vars
  <2>1. c \in Cells
    <3>1. map \in FlashMaps \ {NoMap} /\ 1 \in Indices(map)
      BY ReflashAssumption DEF IInv, TypeOK, Indices
    <3> QED
      BY <3>1, ReflashAssumption DEF Region
  <2>2. pc \in Working /\ c \in Region(cur).cells
    BY <2>1, OnlyCurrent
  <2>3. cur = 1
    BY <2>2, ReflashAssumption DEF IInv, TypeOK, PlanInv, Region, Indices
  <2> QED
    BY <2>2, <2>3, AllElseDone
<1> QED
  BY <1>1, Invariance, PTL DEF Spec, BootblockLast

-----------------------------------------------------------------------------
(* Vital product data and configuration. *)

\* As long as nobody has said --all or -f -f: the map at hand passed the board
\* check, no region to be flashed has a configuration cell, and neither has an
\* abandoned erase.
ConfigInv ==
  /\ ConfigKept
  /\ ~overrode =>
       /\ ~opts.all /\ opts.force # 2
       /\ map # NoMap => map = Map[image] /\ SameBoard(board, image)
       /\ \A i \in desired : Region(i).cells \intersect ConfigCells(board) = {}
       /\ late \intersect ConfigCells(board) = {}

LEMMA ConfigCellsAreCells ==
  ASSUME board \in Boards
  PROVE  ConfigCells(board) \subseteq Cells
<1>1. CASE Map[board] = NoMap
  BY <1>1 DEF ConfigCells
<1>2. CASE Map[board] # NoMap
  <2>1. Map[board] \in FlashMaps \ {NoMap}
    BY <1>2, ReflashAssumption DEF FlashMaps
  <2>2. \A i \in Indices(Map[board]) : Map[board].regions[i].cells \subseteq Cells
    BY <2>1, ReflashAssumption
  <2> QED
    BY <1>2, <2>2 DEF ConfigCells
<1> QED
  BY <1>1, <1>2

\* A map that passes the board check, masked without --all, spares them.
LEMMA MaskSpares ==
  ASSUME board \in Boards, image \in ImageIds, SameBoard(board, image),
         Map[image] # NoMap, ~opts.all,
         NEW ro \in BOOLEAN, NEW rw \in BOOLEAN,
         NEW i \in DesireMask(Map[image], opts.all, ro, rw)
  PROVE  Map[image].regions[i].cells \intersect ConfigCells(board) = {}
<1>1. i \in Indices(Map[image])
  BY DEF DesireMask
<1>2. ~(Map[image].regions[i].skip /\ Map[image].regions[i].name \notin {"RO", "RW"})
  BY DEF DesireMask
<1> QED
  BY <1>1, <1>2, ConfigAssumption

\* A step leaves the chip outside the region at hand and the abandoned erase.
LEMMA FlashChange ==
  ASSUME IInv, Next, NEW c \in Cells, flash'[c] # flash[c]
  PROVE  c \in late \/ (pc \in Working /\ c \in Region(cur).cells)
<1>1. CASE FinishLateErase
  BY <1>1 DEF FinishLateErase, Erased, IInv, TypeOK
<1>2. CASE late' = late
  BY <1>2, OnlyCurrent
<1>3. CASE ~FinishLateErase /\ late' # late
  <2>1. EraseResult \/ UNCHANGED late
    BY <1>3 DEF Next, Command, Invoke, CheckBefore, CheckReady, Load, Match, Mask,
       Countdown, CheckAgain, Unlock, Notify, PickRegion, StartErase, StartWrite,
       WriteResult, EmptyWrites, Verify, Lock, Rest, vars, chip
  <2> QED
    BY <1>3, <2>1 DEF EraseResult, Erased, Working, IInv, TypeOK
<1> QED
  BY <1>1, <1>2, <1>3

\* And no erase is abandoned but that of the region at hand.
LEMMA LateChange ==
  ASSUME IInv, Next
  PROVE  late' \subseteq late \/ (pc \in Working /\ late' = late \union Region(cur).cells)
  BY DEF Next, Command, Invoke, CheckBefore, CheckReady, Load, Match, Mask,
     Countdown, CheckAgain, Unlock, Notify, PickRegion, StartErase, EraseResult,
     StartWrite, WriteResult, EmptyWrites, Verify, Lock, Rest, FinishLateErase, vars, chip, Working

\* The command line, the image and the plan are fixed by four of the steps.
LEMMA PlanChange ==
  ASSUME Next
  PROVE  \/ Invoke \/ Load \/ Match \/ Mask
         \/ UNCHANGED <<opts, image, overrode, map, desired>>
  BY DEF Next, Command, CheckBefore, CheckReady, Load, Countdown, CheckAgain, Unlock,
     Notify, PickRegion, StartErase, EraseResult, StartWrite, WriteResult, EmptyWrites,
     Verify, Lock, Rest, FinishLateErase, vars, args, plan

LEMMA BoardFixed ==
  ASSUME Next
  PROVE  UNCHANGED board
  BY DEF Next, Command, Invoke, CheckBefore, CheckReady, Load, Match, Mask,
     Countdown, CheckAgain, Unlock, Notify, PickRegion, StartErase, EraseResult,
     StartWrite, WriteResult, EmptyWrites, Verify, Lock, Rest, FinishLateErase, vars, args

LEMMA ConfigNext == IInv /\ ConfigInv /\ [Next]_vars => ConfigInv'
<1>1. CASE UNCHANGED vars
  BY <1>1 DEF vars, ConfigInv, ConfigKept, ConfigCells, Region
<1>2. ASSUME IInv, ConfigInv, Next PROVE ConfigInv'
  <2>0. UNCHANGED board /\ (ConfigCells(board))' = ConfigCells(board)
    BY <1>2, BoardFixed DEF ConfigCells
  <2>1. ~overrode' => ~overrode
    BY <1>2, PlanChange DEF Invoke, Load, Match, Mask, args
  <2>2. SUFFICES ASSUME ~overrode, ~overrode' PROVE ConfigInv'
    BY <2>1 DEF ConfigInv, ConfigKept
  <2>3. pc \in Working => Region(cur).cells \intersect ConfigCells(board) = {}
    BY <1>2, <2>2 DEF IInv, PlanInv, ConfigInv
  <2>4. (late \intersect ConfigCells(board) = {})'
    BY <1>2, <2>0, <2>2, <2>3, LateChange DEF ConfigInv
  <2>5. ConfigKept'
    <3>1. ASSUME NEW c \in ConfigCells(board) PROVE flash'[c] = "old"
      <4>1. c \in Cells
        BY <1>2, ConfigCellsAreCells DEF IInv, TypeOK
      <4>2. flash[c] = "old" /\ c \notin late
        BY <1>2, <2>2 DEF ConfigInv, ConfigKept
      <4> QED
        BY <1>2, <2>3, <4>1, <4>2, FlashChange
    <3> QED
      BY <2>0, <3>1 DEF ConfigKept
  <2>6. (~opts.all /\ opts.force # 2)'
    BY <1>2, <2>2, PlanChange DEF ConfigInv, Invoke, Load, Match, Mask, args
  <2>7. (map # NoMap => map = Map[image] /\ SameBoard(board, image))'
    <3>1. CASE Invoke
      BY <3>1 DEF Invoke
    <3>2. CASE Match
      BY <1>2, <2>0, <2>2, <3>2 DEF ConfigInv, IInv, PlanInv, Match, args, SameBoard
    <3>3. CASE Load
      BY <1>2, <3>3 DEF IInv, PlanInv, Load, plan
    <3>4. CASE UNCHANGED <<image, map>>
      BY <1>2, <2>0, <2>2, <3>4 DEF ConfigInv, SameBoard
    <3> QED
      BY <1>2, <3>1, <3>2, <3>3, <3>4, PlanChange DEF Mask, args
  <2>8. (\A i \in desired : Region(i).cells \intersect ConfigCells(board) = {})'
    <3>1. CASE Invoke
      BY <3>1 DEF Invoke
    <3>2. CASE Match
      BY <1>2, <3>2 DEF IInv, PlanInv, TypeOK, Match
    <3>3. CASE Mask
      <4>1. map # NoMap /\ map = Map[image] /\ SameBoard(board, image) /\ ~opts.all
        BY <1>2, <2>2, <3>3 DEF ConfigInv, IInv, PlanInv, Mask
      <4>2. PICK ro \in BOOLEAN, rw \in BOOLEAN :
              desired' = DesireMask(Map[image], opts.all, ro, rw) /\ map' = map
        BY <3>3, <4>1 DEF Mask
      <4> QED
        BY <1>2, <2>0, <4>1, <4>2, MaskSpares DEF IInv, TypeOK, Region
    <3>4. CASE UNCHANGED <<map, desired>>
      BY <1>2, <2>0, <2>2, <3>4 DEF ConfigInv, Region
    <3> QED
      BY <1>2, <3>1, <3>2, <3>3, <3>4, PlanChange DEF Load, plan
  <2> QED
    BY <2>4, <2>5, <2>6, <2>7, <2>8 DEF ConfigInv
<1> QED
  BY <1>1, <1>2

\* Vital product data and configuration bits survive whatever is done without
\* --all and -f -f, for every table of maps that passes ConfigAssumption.
THEOREM ConfigIsKept == Spec => []ConfigKept
<1>1. Init => ConfigInv
  <2> SUFFICES ASSUME Init PROVE ConfigInv
    OBVIOUS
  <2>1. ConfigCells(board) \subseteq Cells
    BY ConfigCellsAreCells DEF Init
  <2> QED
    BY <2>1 DEF Init, ConfigInv, ConfigKept
<1>2. ConfigInv => ConfigKept
  BY DEF ConfigInv
<1> QED
  BY <1>1, <1>2, ConfigNext, Invariance, PTL DEF Spec

-----------------------------------------------------------------------------
(* The command implements FlashSession. *)

\* The refinement mapping, by name.
Busy == pc # "done"
Regions == IF pc = "done" \/ map = NoMap THEN <<>>
           ELSE [i \in Indices(map) |-> map.regions[i].cells]
Left == IF pc = "done" THEN {}
        ELSE todo \union (IF pc \in Working THEN {cur} ELSE {})
Verdict == IF exit \in {"none", "success", "crash"} THEN exit
           ELSE IF exit = "device_error" THEN "failed" ELSE "refused"

\* A plan is a sequence of sets of cells, with what is left among its indices.
LEMMA MapRegions ==
  ASSUME map \in FlashMaps, map # NoMap
  PROVE  LET s == [i \in Indices(map) |-> map.regions[i].cells] IN
         /\ s \in Seq(SUBSET Cells)
         /\ s # <<>>
         /\ DOMAIN s = Indices(map)
<1> DEFINE s == [i \in Indices(map) |-> map.regions[i].cells]
<1>1. /\ Len(map.regions) \in Nat \ {0}
      /\ \A i \in Indices(map) : map.regions[i].cells \subseteq Cells
  BY ReflashAssumption
<1>2. s \in [1 .. Len(map.regions) -> SUBSET Cells]
  BY <1>1 DEF Indices
<1>3. s \in Seq(SUBSET Cells)
  BY <1>1, <1>2
<1>4. 1 \in DOMAIN s
  BY <1>1 DEF Indices
<1> QED
  BY <1>3, <1>4

LEMMA RegionsTyped ==
  ASSUME IInv
  PROVE  /\ Regions \in Seq(SUBSET Cells)
         /\ Left \subseteq DOMAIN Regions
<1>1. CASE pc = "done"
  BY <1>1 DEF Regions, Left
<1>2. CASE pc # "done" /\ map = NoMap
  BY <1>2 DEF Regions, Left, IInv, TypeOK, PlanInv, Flashing
<1>3. CASE pc # "done" /\ map # NoMap
  BY <1>3, MapRegions DEF Regions, Left, IInv, TypeOK, PlanInv
<1> QED
  BY <1>1, <1>2, <1>3

\* At work, the region at hand is the one FlashSession has at hand.
LEMMA HandIsCurrent ==
  ASSUME IInv, pc \in Working
  PROVE  /\ Session!AtHand = Region(cur).cells
         /\ cur \in Left
         /\ \A j \in Left : j <= cur
         /\ Regions[cur] = Region(cur).cells
         /\ Left \ {cur} = todo
<1>1. /\ pc # "done" /\ map # NoMap
      /\ cur \in Indices(map) /\ cur \notin todo
      /\ \A j \in todo : j < cur
      /\ todo \subseteq Indices(map)
  BY DEF IInv, TypeOK, PlanInv, Flashing, Working
<1>2. Left = todo \union {cur}
  BY <1>1 DEF Left
<1>3. Indices(map) \subseteq Int
  BY DEF Indices
<1>4. \A j \in Left : j <= cur
  BY <1>1, <1>2, <1>3
<1>5. {k \in Left : \A j \in Left : j <= k} = {cur}
  BY <1>1, <1>2, <1>3, <1>4
<1>6. Regions[cur] = Region(cur).cells
  BY <1>1 DEF Regions, Region
<1>7. Session!AtHand = UNION {Regions[i] : i \in {k \in Left : \A j \in Left : j <= k}}
  BY DEF Session!AtHand, Regions, Left
<1> QED
  BY <1>1, <1>2, <1>4, <1>5, <1>6, <1>7

\* The steps of FlashSession, in these names.
LEMMA SessionStep ==
  ASSUME \/ UNCHANGED <<flash, begun, unread, late, Busy, Regions, Left, Verdict>>
         \/ /\ Busy /\ flash = begun
            /\ Regions' \in Seq(SUBSET Cells) /\ Left' \subseteq DOMAIN Regions'
            /\ UNCHANGED <<flash, begun, unread, late, Busy, Verdict>>
         \/ /\ Busy
            /\ flash' \in [Cells -> Contents]
            /\ \A c \in Cells \ Session!AtHand : flash'[c] = flash[c]
            /\ UNCHANGED <<begun, unread, late, Busy, Regions, Left, Verdict>>
         \/ /\ Busy /\ ~Busy' /\ Regions' = <<>> /\ Left' = {}
            /\ \/ Regions # <<>> /\ Left = {} /\ Verdict' = "success" /\ late' = late
               \/ flash = begun /\ Verdict' = "refused" /\ late' = late
               \/ Verdict' = "failed" /\ late' \in {late, late \union Session!AtHand}
               \/ Verdict' = "crash" /\ Left # {} /\ late' = late
            /\ UNCHANGED <<flash, begun, unread>>
  PROVE  [Session!Next]_(Session!vars)
<1> USE DEF Session!vars, Session!Next, Session!End, Busy, Regions, Left, Verdict
<1>1. CASE UNCHANGED <<flash, begun, unread, late, Busy, Regions, Left, Verdict>>
  BY <1>1
<1>2. CASE /\ Busy /\ flash = begun
           /\ Regions' \in Seq(SUBSET Cells) /\ Left' \subseteq DOMAIN Regions'
           /\ UNCHANGED <<flash, begun, unread, late, Busy, Verdict>>
  BY <1>2 DEF Session!Choose
<1>3. CASE /\ Busy
           /\ flash' \in [Cells -> Contents]
           /\ \A c \in Cells \ Session!AtHand : flash'[c] = flash[c]
           /\ UNCHANGED <<begun, unread, late, Busy, Regions, Left, Verdict>>
  BY <1>3 DEF Session!Work
<1>4. CASE /\ Busy /\ ~Busy' /\ Regions' = <<>> /\ Left' = {}
           /\ Regions # <<>> /\ Left = {} /\ Verdict' = "success" /\ late' = late
           /\ UNCHANGED <<flash, begun, unread>>
  BY <1>4 DEF Session!Succeed
<1>5. CASE /\ Busy /\ ~Busy' /\ Regions' = <<>> /\ Left' = {}
           /\ flash = begun /\ Verdict' = "refused" /\ late' = late
           /\ UNCHANGED <<flash, begun, unread>>
  BY <1>5 DEF Session!Refuse
<1>6. CASE /\ Busy /\ ~Busy' /\ Regions' = <<>> /\ Left' = {}
           /\ Verdict' = "failed" /\ late' \in {late, late \union Session!AtHand}
           /\ UNCHANGED <<flash, begun, unread>>
  BY <1>6 DEF Session!Fail
<1>7. CASE /\ Busy /\ ~Busy' /\ Regions' = <<>> /\ Left' = {}
           /\ Verdict' = "crash" /\ Left # {} /\ late' = late
           /\ UNCHANGED <<flash, begun, unread>>
  BY <1>7 DEF Session!Crash
<1> QED
  BY <1>1, <1>2, <1>3, <1>4, <1>5, <1>6, <1>7

LEMMA InvokeRefines == IInv /\ Invoke => [Session!Next]_(Session!vars)
<1> SUFFICES ASSUME IInv, Invoke PROVE Session!Start
  BY DEF Session!Next
<1>1. /\ pc = "done" /\ begun' = flash /\ unread' = {} /\ map' = NoMap /\ todo' = {}
      /\ UNCHANGED <<flash, late>>
  BY DEF Invoke, chip
<1>2. \/ pc' = "check1" /\ exit' = "none"
      \/ pc' = "done" /\ exit' = "usage"
  BY DEF Invoke
<1>3. CASE pc' = "check1" /\ exit' = "none"
  BY <1>1, <1>3 DEF Session!Start, Working
<1>4. CASE pc' = "done" /\ exit' = "usage"
  BY <1>1, <1>4 DEF Session!Start
<1> QED
  BY <1>2, <1>3, <1>4

LEMMA LateEraseRefines == IInv /\ FinishLateErase => [Session!Next]_(Session!vars)
<1> SUFFICES ASSUME IInv, FinishLateErase PROVE Session!LateErase
  BY DEF Session!Next
<1> QED
  BY DEF FinishLateErase, Erased, Session!LateErase, IInv, TypeOK, Contents, plan

\* The steps before the flash is touched: plan, carry on, or give up.
LEMMA EarlyRefines ==
  ASSUME IInv, CheckBefore \/ CheckAgain \/ Load \/ Match \/ Mask \/ Countdown \/ Unlock
  PROVE  [Session!Next]_(Session!vars)
<1> USE DEF args, plan, chip
<1>1. pc \in Early /\ exit = "none" /\ flash = begun
  BY DEF CheckBefore, CheckAgain, CheckReady, Load, Match, Mask, Countdown, Unlock, Notify,
     Early, IInv, FlashInv
<1>2. UNCHANGED <<flash, begun, unread, late>>
  BY DEF CheckBefore, CheckAgain, CheckReady, Load, Match, Mask, Countdown, Unlock, Notify
<1>3. CASE pc' = "done"
  <2>1. exit' \notin {"none", "success", "crash"}
    BY <1>1, <1>3 DEF CheckBefore, CheckAgain, CheckReady, Load, Match, Mask, Countdown,
       Unlock, Notify, Leave, Early
  <2> QED
    BY <1>1, <1>2, <1>3, <2>1, SessionStep DEF Busy, Regions, Left, Verdict, Early
<1>4. CASE pc' # "done"
  <2>1. exit' = exit
    BY <1>1, <1>4 DEF CheckBefore, CheckAgain, CheckReady, Load, Match, Mask, Countdown,
       Unlock, Notify, Leave, Early
  <2>2. IInv'
    BY CheckBeforeInv, CheckAgainInv, LoadInv, MatchInv, MaskInv, CountdownInv, UnlockInv
  <2>3. (Regions \in Seq(SUBSET Cells) /\ Left \subseteq DOMAIN Regions)'
    BY <2>2, RegionsTyped, PTL
  <2> QED
    BY <1>1, <1>2, <1>4, <2>1, <2>3, SessionStep DEF Busy, Verdict, Early
<1> QED
  BY <1>3, <1>4

LEMMA PickRegionRefines == IInv /\ PickRegion => [Session!Next]_(Session!vars)
<1> SUFFICES ASSUME IInv, PickRegion PROVE [Session!Next]_(Session!vars)
  OBVIOUS
<1>1. UNCHANGED <<flash, begun, unread, late, Busy, Regions, Verdict>>
  BY DEF PickRegion, args, chip, Busy, Regions, Verdict, Indices
<1>2. Left' = Left
  BY DEF PickRegion, Left, Working
<1> QED
  BY <1>1, <1>2, SessionStep

\* The steps at a region either work on its cells, or give up.
LEMMA WorkRefines ==
  ASSUME IInv, StartErase \/ EraseResult \/ StartWrite \/ WriteResult \/ EmptyWrites
  PROVE  [Session!Next]_(Session!vars)
<1> USE DEF args, plan, chip
<1>1. pc \in Working /\ pc # "done" /\ exit = "none"
  BY DEF StartErase, EraseResult, StartWrite, WriteResult, EmptyWrites, Working, IInv, FlashInv
<1>2. Session!AtHand = Region(cur).cells
  BY <1>1, HandIsCurrent
<1>3. begun' = begun /\ unread' = unread /\ map' = map /\ todo' = todo /\ cur' = cur
  BY DEF StartErase, EraseResult, StartWrite, WriteResult, EmptyWrites
<1>4. CASE pc' # "done"
  <2>1. pc' \in Working /\ exit' = exit /\ late' = late
    BY <1>4 DEF StartErase, EraseResult, StartWrite, WriteResult, EmptyWrites, Leave, Working
  <2>2. flash' \in [Cells -> Contents]
    BY DEF StartErase, EraseResult, StartWrite, WriteResult, EmptyWrites, Erased, IInv, TypeOK, Contents
  <2>3. \A c \in Cells \ Region(cur).cells : flash'[c] = flash[c]
    BY DEF StartErase, EraseResult, StartWrite, WriteResult, EmptyWrites, Erased
  <2>4. UNCHANGED <<Busy, Regions, Left, Verdict>>
    BY <1>1, <1>3, <2>1 DEF Busy, Regions, Left, Verdict, Working, Indices
  <2> QED
    BY <1>1, <1>2, <1>3, <2>1, <2>2, <2>3, <2>4, SessionStep DEF Busy
<1>5. CASE pc' = "done"
  <2>1. exit' \in {"device_error", "crash"} /\ UNCHANGED flash
    BY <1>5 DEF StartErase, EraseResult, StartWrite, WriteResult, EmptyWrites, Leave
  <2>2. /\ late' \in {late, late \union Region(cur).cells}
        /\ exit' = "crash" => late' = late
    BY <1>1 DEF StartErase, EraseResult, StartWrite, WriteResult, EmptyWrites, Leave
  <2>3. Left # {}
    BY <1>1, HandIsCurrent
  <2> QED
    BY <1>1, <1>2, <1>3, <1>5, <2>1, <2>2, <2>3, SessionStep DEF Busy, Regions, Left, Verdict
<1> QED
  BY <1>4, <1>5

\* A region that passes the check holds the image, for good, or is on record as
\* one the check has not seen whole.
LEMMA VerifyRefines == IInv /\ Verify => [Session!Next]_(Session!vars)
<1> SUFFICES ASSUME IInv, Verify PROVE [Session!Next]_(Session!vars)
  OBVIOUS
<1> USE DEF args, plan, chip
<1>1. /\ pc = "verify" /\ exit = "none" /\ late = {}
      /\ \A c \in Region(cur).cells : flash[c] \in {"image", "junk"}
  BY DEF Verify, IInv, FlashInv
<1>2. UNCHANGED <<flash, begun, late, map, todo, cur>>
  BY DEF Verify
<1>3. CASE Leave("device_error") /\ UNCHANGED unread
  BY <1>1, <1>2, <1>3, SessionStep DEF Leave, Busy, Regions, Left, Verdict
<1>4. CASE /\ \/ (\A c \in Region(cur).cells : flash[c] = "image") /\ UNCHANGED unread
              \/ unread' = unread \union {cur}
           /\ pc' = "pick" /\ UNCHANGED exit
  <2>1. UNCHANGED <<Busy, Regions, Verdict>>
    BY <1>1, <1>2, <1>4 DEF Busy, Regions, Verdict, Indices
  <2>2. Left' = todo
    BY <1>2, <1>4 DEF Left, Working
  <2>3. /\ cur \in Left /\ \A j \in Left : j <= cur
        /\ Left \ {cur} = todo /\ Regions[cur] = Region(cur).cells
    BY <1>1, HandIsCurrent DEF Working
  <2>4. Session!Finish
    BY <1>1, <1>2, <1>4, <2>1, <2>2, <2>3 DEF Session!Finish, Busy, Regions, Left, Verdict
  <2> QED
    BY <2>4 DEF Session!Next
<1> QED
  BY <1>3, <1>4 DEF Verify

\* With nothing left the command locks the flash, and fails at that or succeeds.
LEMMA LockRefines == IInv /\ Lock => [Session!Next]_(Session!vars)
<1> SUFFICES ASSUME IInv, Lock PROVE [Session!Next]_(Session!vars)
  OBVIOUS
<1> USE DEF args, plan, chip
<1>1. pc \in {"pick", "lock", "lock2", "finish"} /\ exit = "none"
  BY DEF Lock, Notify, IInv, FlashInv
<1>2. todo = {} /\ map # NoMap /\ Left = {}
  BY <1>1 DEF Lock, Notify, IInv, PlanInv, Locking, Flashing, Left, Working
<1>3. UNCHANGED <<flash, begun, unread, late, map, todo>>
  BY DEF Lock, Notify
<1>4. Regions # <<>>
  BY <1>1, <1>2, MapRegions DEF Regions, IInv, TypeOK
<1>5. \/ pc' \in {"lock", "lock2", "finish"} /\ exit' = exit
      \/ pc' = "done" /\ exit' \in {"device_error", "success"}
  BY DEF Lock, Notify, Leave
<1>6. CASE pc' \in {"lock", "lock2", "finish"} /\ exit' = exit
  <2>1. UNCHANGED <<Busy, Regions, Left, Verdict>>
    BY <1>1, <1>2, <1>3, <1>6 DEF Busy, Regions, Left, Verdict, Indices, Working
  <2> QED
    BY <1>3, <2>1, SessionStep
<1>7. CASE pc' = "done" /\ exit' \in {"device_error", "success"}
  <2>1. Busy /\ ~Busy' /\ Regions' = <<>> /\ Left' = {}
    BY <1>1, <1>7 DEF Busy, Regions, Left
  <2>2. CASE exit' = "success"
    BY <1>2, <1>3, <1>4, <2>1, <2>2, SessionStep DEF Verdict
  <2>3. CASE exit' = "device_error"
    BY <1>3, <2>1, <2>3, SessionStep DEF Verdict
  <2> QED
    BY <1>7, <2>2, <2>3
<1> QED
  BY <1>5, <1>6, <1>7

LEMMA NextRefines == IInv /\ [Next]_vars => [Session!Next]_(Session!vars)
<1> SUFFICES ASSUME IInv, [Next]_vars PROVE [Session!Next]_(Session!vars)
  OBVIOUS
<1>1. CASE Command \/ EmptyWrites
  BY <1>1, EarlyRefines, PickRegionRefines, WorkRefines, VerifyRefines, LockRefines
     DEF Command
<1>2. CASE UNCHANGED vars
  BY <1>2 DEF vars, Session!vars
<1>3. Rest => UNCHANGED vars
  BY DEF Rest
<1> QED
  BY <1>1, <1>2, <1>3, InvokeRefines, LateEraseRefines DEF Next

\* cmd_reflash does to the chip, and says of it, nothing but what FlashSession
\* allows, for every table of flash maps and every number of invocations.
THEOREM ImplementsSession == Spec => FlashSpec
<1>1. Init => Session!Init
  BY DEF Init, Session!Init
<1> QED
  BY <1>1, NextRefines, Invariance, PTL DEF Spec, FlashSpec, Session!Spec
-----------------------------------------------------------------------------
(* Why an invocation ends *)

BeforeMask == {"check1", "load", "match", "mask"}

\* Before the regions are chosen; the regions to come; the steps of this one.
Stage == IF pc \in BeforeMask THEN 1 ELSE 0

RegionsLeft == Cardinality(todo)

StepsLeft ==
  CASE pc = "check1" -> 4 [] pc = "load" -> 3 [] pc = "match" -> 2 [] pc = "mask" -> 1
    [] pc = "countdown" -> 8 [] pc = "check2" -> 7 [] pc = "unlock" -> 6 [] pc = "unlock2" -> 5
    [] pc = "erase" -> 9 [] pc = "erasing" -> 8 [] pc = "write" -> 7 [] pc = "writing" -> 6
    [] pc \in {"verify", "endless"} -> 5
    [] pc = "pick" -> 4
    [] pc = "lock" -> 3 [] pc = "lock2" -> 2 [] pc = "finish" -> 1
    [] pc = "done" -> 0

Nearer ==
  \/ Stage' < Stage
  \/ Stage' = Stage /\ RegionsLeft' < RegionsLeft
  \/ Stage' = Stage /\ RegionsLeft' = RegionsLeft /\ StepsLeft' < StepsLeft

LEMMA TodoFinite == IInv => IsFiniteSet(todo)
<1> SUFFICES ASSUME IInv PROVE IsFiniteSet(todo)
  OBVIOUS
<1>1. CASE map = NoMap
  BY <1>1, FS_EmptySet DEF IInv, TypeOK
<1>2. CASE map # NoMap
  <2>1. todo \subseteq 1 .. Len(map.regions) /\ Len(map.regions) \in Nat
    BY <1>2, ReflashAssumption DEF IInv, TypeOK, Indices
  <2>2. IsFiniteSet(1 .. Len(map.regions))
    BY <2>1, FS_Interval
  <2> QED
    BY <2>1, <2>2, FS_Subset
<1> QED
  BY <1>1, <1>2

LEMMA Leaving ==
  ASSUME IInv, pc # "done", pc' = "done", UNCHANGED todo
  PROVE  Nearer
<1>1. Stage' = 0 /\ Stage \in {0, 1} /\ RegionsLeft' = RegionsLeft /\ StepsLeft' = 0
  BY DEF Stage, BeforeMask, RegionsLeft, StepsLeft
<1>2. StepsLeft > 0
  BY DEF IInv, TypeOK, StepsLeft
<1> QED
  BY <1>1, <1>2 DEF Nearer

LEMMA CommandGetsNearer == IInv /\ Command => Nearer
<1> SUFFICES ASSUME IInv, Command PROVE Nearer
  OBVIOUS
<1> USE DEF plan, args, chip, Leave
<1>1. CASE pc' = "done"
  <2>1. pc # "done" /\ UNCHANGED todo
    BY <1>1 DEF Command, CheckBefore, CheckAgain, CheckReady, Load, Match, Mask, Countdown,
           Unlock, Notify, PickRegion, StartErase, EraseResult, StartWrite, WriteResult, Verify,
           Lock
  <2> QED
    BY <1>1, <2>1, Leaving
<1>2. CASE Mask
  BY <1>2 DEF Mask, Stage, BeforeMask, Nearer
<1>3. CASE PickRegion
  <2>1. PICK i \in todo : todo' = todo \ {i}
    BY <1>3 DEF PickRegion
  <2>2. RegionsLeft' = RegionsLeft - 1 /\ RegionsLeft \in Nat
    BY <2>1, TodoFinite, FS_RemoveElement, FS_CardinalityType DEF RegionsLeft
  <2>3. Stage' = Stage
    BY <1>3 DEF PickRegion, Stage, BeforeMask
  <2> QED
    BY <2>2, <2>3 DEF Nearer
<1>4. CASE pc' # "done" /\ (CheckBefore \/ Load \/ Match \/ Countdown \/ CheckAgain \/ Unlock)
  <2>1. UNCHANGED todo
    BY <1>4 DEF CheckBefore, CheckAgain, CheckReady, Load, Match, Countdown, Unlock, Notify
  <2>2. \/ pc = "check1" /\ pc' = "load"
        \/ pc = "load" /\ pc' = "match"
        \/ pc = "match" /\ pc' = "mask"
        \/ pc = "countdown" /\ pc' = "check2"
        \/ pc = "check2" /\ pc' = "unlock"
        \/ pc = "unlock" /\ pc' \in {"unlock2", "pick"}
        \/ pc = "unlock2" /\ pc' = "pick"
    BY <1>4 DEF CheckBefore, CheckAgain, CheckReady, Load, Match, Countdown, Unlock, Notify
  <2>3. Stage' = Stage
    BY <2>2 DEF Stage, BeforeMask
  <2>4. StepsLeft' < StepsLeft
    BY <2>2 DEF StepsLeft
  <2> QED
    BY <2>1, <2>3, <2>4 DEF Nearer, RegionsLeft
<1>5. CASE pc' # "done" /\ (StartErase \/ EraseResult \/ StartWrite \/ WriteResult \/ Verify \/ Lock)
  <2>1. UNCHANGED todo
    BY <1>5 DEF StartErase, EraseResult, StartWrite, WriteResult, Verify, Lock, Notify
  <2>2. \/ pc = "erase" /\ pc' = "erasing"
        \/ pc = "erasing" /\ pc' = "write"
        \/ pc = "write" /\ pc' \in {"writing", "endless"}
        \/ pc = "writing" /\ pc' = "verify"
        \/ pc = "verify" /\ pc' = "pick"
        \/ pc = "pick" /\ pc' \in {"lock", "finish"}
        \/ pc = "lock" /\ pc' = "lock2"
        \/ pc = "lock2" /\ pc' = "finish"
    BY <1>5 DEF StartErase, EraseResult, StartWrite, WriteResult, Verify, Lock, Notify
  <2>3. Stage' = Stage
    BY <2>2 DEF Stage, BeforeMask
  <2>4. StepsLeft' < StepsLeft
    BY <2>2 DEF StepsLeft
  <2> QED
    BY <2>1, <2>3, <2>4 DEF Nearer, RegionsLeft
<1> QED
  BY <1>1, <1>2, <1>3, <1>4, <1>5 DEF Command

\* Every step of cmd_reflash brings it nearer to its end, but the empty write the
\* EC accepts, which changes nothing at all: no region is taken twice and no
\* failure is tried again, and an erase that ends late does not take it back.
\* Into the loop of empty writes there is one way, from flash_write's beginning.
\* This is what EveryRunEnds needs besides fairness, for flash maps of any length.
THEOREM EveryStepCounts ==
  Spec => /\ [](Stage \in Nat /\ RegionsLeft \in Nat /\ StepsLeft \in Nat)
          /\ [][/\ Command \/ EmptyWrites => Nearer
                /\ FinishLateErase => UNCHANGED <<pc, todo>>
                /\ pc' = "endless" /\ pc # "endless" => StartWrite]_vars
<1>1. IInv => Stage \in Nat /\ RegionsLeft \in Nat /\ StepsLeft \in Nat
  <2> SUFFICES ASSUME IInv PROVE Stage \in Nat /\ RegionsLeft \in Nat /\ StepsLeft \in Nat
    OBVIOUS
  <2>1. RegionsLeft \in Nat
    BY TodoFinite, FS_CardinalityType DEF RegionsLeft
  <2>2. StepsLeft \in Nat
    BY DEF IInv, TypeOK, StepsLeft
  <2> QED
    BY <2>1, <2>2 DEF Stage
<1>2. ASSUME IInv, Next, vars' # vars
      PROVE  /\ Command \/ EmptyWrites => Nearer
             /\ FinishLateErase => UNCHANGED <<pc, todo>>
             /\ pc' = "endless" /\ pc # "endless" => StartWrite
  <2>1. EmptyWrites => Nearer
    <3> SUFFICES ASSUME EmptyWrites PROVE Nearer
      OBVIOUS
    <3>1. pc = "endless" /\ UNCHANGED todo
      BY DEF EmptyWrites, plan
    <3>2. pc' = "done"
      BY <1>2 DEF EmptyWrites, Leave, vars, args, plan, chip
    <3> QED
      BY <1>2, <3>1, <3>2, Leaving
  <2>2. pc' = "endless" /\ pc # "endless" => StartWrite
    BY <1>2 DEF Next, Command, Invoke, CheckBefore, CheckReady, Load, Match, Mask,
       Countdown, CheckAgain, Unlock, Notify, PickRegion, StartErase, EraseResult,
       WriteResult, EmptyWrites, Verify, Lock, Rest, FinishLateErase, Leave, vars
  <2> QED
    BY <1>2, <2>1, <2>2, CommandGetsNearer DEF FinishLateErase, plan
<1>3. IInv /\ [Next]_vars =>
        [/\ Command \/ EmptyWrites => Nearer
         /\ FinishLateErase => UNCHANGED <<pc, todo>>
         /\ pc' = "endless" /\ pc # "endless" => StartWrite]_vars
  BY <1>2
<1> QED
  BY Invariance, <1>1, <1>3, PTL DEF Spec
=============================================================================
