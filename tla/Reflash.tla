------------------------------ MODULE Reflash ------------------------------
(***************************************************************************)
(* cmd_reflash (Application/ECTool/FWUpdate.c): one or more invocations of *)
(* "ectool reflash" against the EC's flash chip.                           *)
(*                                                                         *)
(* The chip is a set of cells, one for every stretch between two borders   *)
(* of the flash maps.  The contents of a cell are abstracted to what the   *)
(* command can tell or the EC could boot from.  A region is erased,        *)
(* written and verified as in Flash.c; of an erase, what FlashErase leaves *)
(* possible may happen: one that failed may be reported as a success, and  *)
(* one that was given up may still be under way when the command returns.  *)
(*                                                                         *)
(* A loss of power between two steps is the end of a behaviour: every      *)
(* state reached is one the machine may be left in, and what must hold     *)
(* then is stated as an invariant or of single steps.                      *)
(***************************************************************************)
EXTENDS Integers, Sequences, FiniteSets

CONSTANTS
  Cells,         \* the pieces of the flash chip
  Boards,        \* boards a machine may be
  ImageIds,      \* board names an image's RO_FRID may begin with
  Map,           \* Map[b]: the flash map of flash_maps for board b, or NoMap
  UnknownMap,    \* unknown_board_flash_map
  NoMap,         \* no entry of flash_maps has this name
  EmptyId,       \* an RO_FRID that begins with a delimiter
  MaxRuns        \* bound on the invocations of one behaviour

FlashMaps == {Map[b] : b \in ImageIds} \union {UnknownMap}
Indices(m) == 1 .. Len(m.regions)

\* A map is a nonempty sequence of regions that do not overlap.
ASSUME ReflashAssumption ==
  /\ MaxRuns \in Nat
  /\ EmptyId \in ImageIds
  /\ Boards \subseteq ImageIds
  /\ UnknownMap # NoMap
  /\ \A m \in FlashMaps \ {NoMap} :
       /\ Len(m.regions) \in Nat \ {0}
       /\ \A i \in Indices(m) : m.regions[i].cells \subseteq Cells
       /\ \A i, j \in Indices(m) :
            i # j => m.regions[i].cells \intersect m.regions[j].cells = {}

\* The command line, less what is used in one place only: see Invoke and Mask.
Options == [force : 0 .. 2, all : BOOLEAN]

\* What a cell holds.  "partial" is an erased cell being written; "junk" may be
\* anything, bytes of the image included.
Contents == {"old", "erased", "partial", "image", "junk"}

VARIABLES
  board,      \* the board of this machine; never changes
  pc,         \* where cmd_reflash is
  runs,       \* invocations so far
  opts,       \* the command line of this one
  image,      \* the board name in the firmware file last loaded
  map,        \* FinalFlashMap
  todo,       \* RegionFlashMask, as a set of indices into the map
  desired,    \* ghost: RegionFlashMask as it was before the loop
  cur,        \* index of the region at hand
  exit,       \* what the invocation returned, and why
  flash,      \* contents of the chip
  begun,      \* ghost: contents of the chip when the invocation began
  unread,     \* ghost: regions that passed the check although the EC answered
              \* one of the reads with fewer bytes than asked for
  accepted,   \* the EC took the erase command flash_erase waits for
  late,       \* cells of an erase the EC is still busy with after the command
              \* that asked for it has given up
  spi,        \* the EC has handed out access to the SPI flash
  overrode    \* ghost: some invocation said --all or -f -f

vars == <<board, pc, runs, opts, image, map, todo, desired, cur, exit, flash, begun,
          unread, accepted, late, spi, overrode>>

chip == <<flash, accepted, late, spi>>
args == <<board, runs, opts, image, begun, unread, overrode>>
plan == <<map, todo, desired, cur>>

Init ==
  /\ board \in Boards
  /\ pc = "done"
  /\ runs = 0
  /\ opts = [force |-> 0, all |-> FALSE]
  /\ image = EmptyId
  /\ map = NoMap
  /\ todo = {}
  /\ desired = {}
  /\ cur = 0
  /\ exit = "none"
  /\ flash = [c \in Cells |-> "old"]
  /\ begun = flash
  /\ unread = {}
  /\ accepted = FALSE
  /\ late = {}
  /\ spi = FALSE
  /\ overrode = FALSE

-----------------------------------------------------------------------------
(* Before the flash is touched *)

\* The user runs the command; a command line without a file prints the usage.
Invoke ==
  /\ pc = "done"
  /\ runs < MaxRuns
  /\ runs' = runs + 1
  /\ begun' = flash
  /\ unread' = {}
  /\ map' = NoMap
  /\ todo' = {} /\ desired' = {} /\ cur' = 0
  /\ \/ /\ opts' \in Options
        /\ overrode' = (overrode \/ opts'.all \/ opts'.force = 2)
        /\ pc' = "check1" /\ exit' = "none"
     \/ /\ UNCHANGED <<opts, overrode>>
        /\ pc' = "done" /\ exit' = "usage"
  /\ UNCHANGED <<board, image, chip>>

\* "goto Out" and its neighbours: the invocation is over.
Leave(why) ==
  /\ pc' = "done"
  /\ exit' = why

\* CheckReadyForECFlash, at both places.  The EC refreshes its memory map
\* whenever it likes, so that each of the four reads sees what it sees: the
\* ID, then the flags, the capacity when last full, the charge.
CheckReady(at, next) ==
  /\ pc = at
  /\ \/ opts.force > 0 /\ pc' = next /\ UNCHANGED exit
     \/ opts.force = 0 /\ Leave("no_ec")
     \/ \E ac, present, fullKnown, enough \in BOOLEAN :
          /\ opts.force = 0
          /\ \/ ~ac /\ Leave("not_ready")
             \/ ac /\ present /\ ~fullKnown /\ Leave("fault")  \* batteryCap / 0
             \/ ac /\ present /\ fullKnown /\ ~enough /\ Leave("not_ready")
             \/ ac /\ (present => fullKnown /\ enough) /\ pc' = next /\ UNCHANGED exit
  /\ UNCHANGED <<args, plan, chip>>

CheckBefore == CheckReady("check1", "load")
CheckAgain == CheckReady("check2", "unlock")

\* Open, size, allocate and read the file, ask the EC for its version, find
\* the flash map and the RO_FRID area in the image: each may fail.
Load ==
  /\ pc = "load"
  /\ \/ image' \in ImageIds /\ pc' = "match" /\ UNCHANGED exit
     \/ \E why \in {"bad_file", "no_fmap", "device_error"} : Leave(why) /\ UNCHANGED image
  /\ UNCHANGED <<board, runs, opts, begun, unread, overrode, plan, chip>>

\* AsciiStrnCmp over the length of the image's board name: no characters
\* compare equal to anything.
SameBoard(b, id) == id = EmptyId \/ b = id

\* The cells that hold vital product data and configuration on board b.
ConfigCells(b) ==
  IF Map[b] = NoMap THEN {}
  ELSE UNION {Map[b].regions[i].cells :
                i \in {j \in Indices(Map[b]) : Map[b].regions[j].skip}}

\* Of the flash maps: whatever passes the board check without force, even the
\* image without a board name, is flashed by a map that skips these cells.
ASSUME ConfigAssumption ==
  \A b \in Boards, id \in ImageIds :
    SameBoard(b, id) /\ Map[id] # NoMap =>
      \A i \in Indices(Map[id]) :
        LET r == Map[id].regions[i] IN
        \/ r.cells \intersect ConfigCells(b) = {}
        \/ r.skip /\ r.name \notin {"RO", "RW"}

\* No board check, no refusal of unknown boards.
Match_unchecked ==
  /\ pc = "match"
  /\ map' = IF Map[image] # NoMap THEN Map[image] ELSE UnknownMap
  /\ pc' = "mask"
  /\ UNCHANGED <<args, todo, desired, cur, chip, exit>>

\* The board check and the choice of the map, both waived by -f -f.
Match ==
  /\ pc = "match"
  /\ \/ /\ opts.force < 2
        /\ ~SameBoard(board, image)
        /\ Leave("mismatch")
        /\ UNCHANGED map
     \/ /\ opts.force = 2 \/ SameBoard(board, image)
        /\ Map[image] # NoMap
        /\ map' = Map[image]
        /\ pc' = "mask"
        /\ UNCHANGED exit
     \/ /\ opts.force = 2 \/ SameBoard(board, image)
        /\ Map[image] = NoMap
        /\ opts.force < 2
        /\ Leave("unknown")
        /\ UNCHANGED map
     \/ /\ Map[image] = NoMap
        /\ opts.force = 2
        /\ map' = UnknownMap
        /\ pc' = "mask"
        /\ UNCHANGED exit
  /\ UNCHANGED <<args, todo, desired, cur, chip>>

Region(i) == map.regions[i]

\* The mask not cut down to the regions there are.
DesireMask_unrestricted(m, all, ro, rw) ==
  IF all THEN 1 .. 16
  ELSE {i \in Indices(m) : ~m.regions[i].skip}

\* RegionFlashDesireMask: all regions, or none when --ro or --rw is given;
\* less the skipped ones; plus those asked for by name; --all overrules.
DesireMask(m, all, ro, rw) ==
  IF all THEN Indices(m)
  ELSE {i \in Indices(m) :
          \/ ~(ro \/ rw) /\ ~m.regions[i].skip
          \/ ro /\ m.regions[i].name = "RO"
          \/ rw /\ m.regions[i].name = "RW"}

Mask ==
  /\ pc = "mask"
  /\ \E ro, rw \in BOOLEAN : todo' = DesireMask(map, opts.all, ro, rw)
  /\ desired' = todo'
  /\ pc' = "countdown"
  /\ UNCHANGED <<args, map, cur, chip, exit>>

\* Seven seconds in which any key cancels.
Countdown ==
  /\ pc = "countdown"
  /\ \/ Leave("cancelled")
     \/ pc' = "check2" /\ UNCHANGED exit
  /\ UNCHANGED <<args, plan, chip>>

-----------------------------------------------------------------------------
(* The flash *)

\* A FLASH_NOTIFIED command: it succeeds, or it fails having had its effect
\* or not (a call that times out may still run).
Notify(at, next, access) ==
  /\ pc = at
  /\ \/ spi' = access /\ pc' = next /\ UNCHANGED exit
     \/ spi' \in {spi, access} /\ Leave("device_error")
  /\ UNCHANGED <<args, plan, flash, accepted, late>>

\* FLASH_ACCESS_SPI and FLASH_FIRMWARE_START, on boards that need them.
Unlock ==
  \/ Notify("unlock", "unlock2", TRUE) /\ map.unlock
  \/ Notify("unlock2", "pick", spi)
  \/ /\ pc = "unlock"
     /\ ~map.unlock
     /\ pc' = "pick"
     /\ UNCHANGED <<args, plan, chip, exit>>

\* The lowest bit first.
PickRegion_lowest ==
  /\ pc = "pick"
  /\ \E i \in todo :
       /\ \A j \in todo : i <= j
       /\ cur' = i
       /\ todo' = todo \ {i}
  /\ pc' = "erase"
  /\ UNCHANGED <<args, map, desired, chip, exit>>

\* The highest bit of RegionFlashMask: the boot block, bit 0, comes last.
PickRegion ==
  /\ pc = "pick"
  /\ \E i \in todo :
       /\ \A j \in todo : j <= i
       /\ cur' = i
       /\ todo' = todo \ {i}
  /\ pc' = "erase"
  /\ UNCHANGED <<args, map, desired, chip, exit>>

\* flash_erase hands the erase to the EC, which takes it - if it is still at
\* an earlier one, perhaps when that is over - or refuses it.
StartErase ==
  /\ pc = "erase"
  /\ \/ /\ accepted' = TRUE
        /\ flash' = [c \in Cells |-> IF c \in Region(cur).cells THEN "junk" ELSE flash[c]]
     \/ /\ accepted' = FALSE
        /\ UNCHANGED flash
  /\ pc' = "erasing"
  /\ UNCHANGED <<args, plan, late, spi, exit>>

Erased(S, f) == [c \in Cells |-> IF c \in S THEN "erased" ELSE f[c]]

\* A failed erase is tried again, and again.
EraseResult_retries ==
  /\ pc = "erasing"
  /\ \/ /\ accepted
        /\ flash' = Erased(Region(cur).cells, flash)
        /\ pc' = "write"
     \/ /\ pc' = "erase"
        /\ UNCHANGED flash
  /\ UNCHANGED <<args, plan, accepted, late, spi, exit>>

\* flash_erase returns.  "ok": the EC is through with the erase, and with any
\* before it (FlashErase, OkIsOver); or, on the synchronous path, the erase
\* failed and a HELLO covered that up.  Failure: an accepted erase may go on.
EraseResult ==
  /\ pc = "erasing"
  /\ \/ /\ accepted
        /\ late = {}
        /\ flash' = Erased(Region(cur).cells, flash)
        /\ pc' = "write"
        /\ UNCHANGED <<late, exit>>
     \/ /\ pc' = "write"
        /\ UNCHANGED <<flash, late, exit>>
     \/ /\ late' = late \/ (accepted /\ late' = late \union Region(cur).cells)
        /\ Leave("device_error")
        /\ UNCHANGED flash
  /\ accepted' = FALSE
  /\ UNCHANGED <<args, plan, spi>>

\* An erase nobody waits for any more comes to its end: not the doing of the
\* invocation at hand, which finds its result as it found the rest.
FinishLateErase ==
  /\ late # {}
  /\ flash' = Erased(late, flash)
  /\ begun' = Erased(late, begun)
  /\ late' = {}
  /\ UNCHANGED <<board, pc, runs, opts, image, unread, overrode, plan, exit, accepted, spi>>

\* flash_write begins: FLASH_INFO or the first block fails (as it does while
\* the EC is erasing), or the cells change; only erased ones take the image.
\* What FLASH_INFO reports decides as well: the division by a write_ideal_size
\* of 0 faults, and some other sizes have the first block overrun the command
\* buffer (FlashIO); one above G_EC_MAX_REQUEST gives steps of 0 bytes.
StartWrite ==
  /\ pc = "write"
  /\ \/ \E why \in {"device_error", "crash"} : Leave(why) /\ UNCHANGED flash
     \/ pc' = "endless" /\ UNCHANGED <<flash, exit>>
     \/ /\ late = {}
        /\ flash' = [c \in Cells |->
                       IF c \notin Region(cur).cells THEN flash[c]
                       ELSE IF flash[c] = "erased" THEN "partial" ELSE "junk"]
        /\ pc' = "writing"
        /\ UNCHANGED exit
  /\ UNCHANGED <<args, plan, accepted, late, spi>>

\* flash_write returns: all blocks acknowledged - but unless all of the region
\* was erased and written well, nothing is known of it - or one was not.
WriteResult ==
  /\ pc = "writing"
  /\ \/ /\ \E what \in {"image", "junk"} :
             /\ what = "image" => \A c \in Region(cur).cells : flash[c] = "partial"
             /\ flash' = [c \in Cells |-> IF c \in Region(cur).cells THEN what ELSE flash[c]]
        /\ pc' = "verify"
        /\ UNCHANGED exit
     \/ Leave("device_error") /\ UNCHANGED flash
  /\ UNCHANGED <<args, plan, accepted, late, spi>>

\* With steps of 0 bytes the loop of flash_write sends empty writes, until the
\* EC refuses one - which it need not do.
EmptyWrites ==
  /\ pc = "endless"
  /\ UNCHANGED <<pc, exit>> \/ Leave("device_error")
  /\ UNCHANGED <<args, plan, chip>>

\* A mismatch is reported, but its error code is lost on the way out.
Verify_rvLost ==
  /\ pc = "verify"
  /\ IF \A c \in Region(cur).cells : flash[c] = "image"
       THEN pc' = "pick" /\ UNCHANGED exit
       ELSE Leave("success")
  /\ UNCHANGED <<args, plan, chip>>

\* flash_read and CompareMem: a failed read, a mismatch, or a match.  A match is
\* the image, unless some answer was short: flash_read does not notice, copies
\* what its buffer still holds - the chunk before, or zeros - in place of the
\* bytes that are missing, and where the image repeats itself that matches
\* whatever the flash holds.
Verify ==
  /\ pc = "verify"
  /\ \/ Leave("device_error") /\ UNCHANGED unread
     \/ /\ \A c \in Region(cur).cells : flash[c] = "image"
        /\ pc' = "pick"
        /\ UNCHANGED <<exit, unread>>
     \/ /\ unread' = unread \union {cur}
        /\ pc' = "pick"
        /\ UNCHANGED exit
  /\ UNCHANGED <<board, runs, opts, image, begun, overrode, plan, chip>>

\* The flash is left unlocked.
Lock_forgotten ==
  /\ pc = "pick"
  /\ todo = {}
  /\ Leave("success")
  /\ UNCHANGED <<args, plan, chip>>

\* All regions are done: SPI_DONE and FIRMWARE_DONE on boards that need them.
Lock ==
  \/ Notify("lock", "lock2", FALSE)
  \/ Notify("lock2", "finish", spi)
  \/ /\ pc = "pick"
     /\ todo = {}
     /\ pc' = IF map.unlock THEN "lock" ELSE "finish"
     /\ UNCHANGED <<args, plan, chip, exit>>
  \/ /\ pc = "finish"
     /\ Leave("success")
     /\ UNCHANGED <<args, plan, chip>>

Command ==
  \/ CheckBefore \/ Load \/ Match \/ Mask \/ Countdown \/ CheckAgain \/ Unlock
  \/ PickRegion \/ StartErase \/ EraseResult \/ StartWrite \/ WriteResult
  \/ Verify \/ Lock

Rest ==
  /\ pc = "done"
  /\ runs = MaxRuns
  /\ UNCHANGED vars

Next == Invoke \/ Command \/ EmptyWrites \/ FinishLateErase \/ Rest

\* The command is straight-line code, but for the loop of EmptyWrites, and its
\* calls all return (HostCommand).  The user need not run it, the EC need not
\* finish an abandoned erase and need not refuse an empty write.
Spec == Init /\ [][Next]_vars /\ WF_vars(Command)

-----------------------------------------------------------------------------
(* Properties *)

\* The type invariant.
TypeOK ==
  /\ board \in Boards
  /\ pc \in {"check1", "load", "match", "mask", "countdown", "check2", "unlock",
             "unlock2", "pick", "erase", "erasing", "write", "writing", "endless",
             "verify", "lock", "lock2", "finish", "done"}
  /\ runs \in 0 .. MaxRuns
  /\ opts \in Options
  /\ image \in ImageIds
  /\ map \in FlashMaps \union {NoMap}
  /\ map = NoMap => todo = {} /\ desired = {}
  /\ map # NoMap => todo \subseteq Indices(map) /\ desired \subseteq Indices(map)
  /\ unread \subseteq desired
  /\ exit \in {"none", "usage", "no_ec", "not_ready", "fault", "bad_file", "no_fmap",
               "mismatch", "unknown", "cancelled", "device_error", "crash", "success"}
  /\ flash \in [Cells -> Contents] /\ begun \in [Cells -> Contents]
  /\ late \subseteq Cells
  /\ accepted \in BOOLEAN /\ spi \in BOOLEAN /\ overrode \in BOOLEAN

\* Region i holds the image.  All that is known of one whose read-back had a
\* short answer is that every block of it was acknowledged.
Flashed(i) ==
  \A c \in Region(i).cells : flash[c] = "image" \/ (i \in unread /\ flash[c] = "junk")

\* The boot block comes last: a step of the command that changes a cell of RO
\* is taken only when every other region this invocation is to flash has been
\* written and verified - as far as the check can tell, which is to the last
\* byte unless an answer was short.  Until then, whatever step the machine loses
\* power at, "bailing out after RW but before RO" leaves RO as it was.
BootblockLast ==
  [][(late' = late /\ map # NoMap) =>
       \A c \in Region(1).cells :
         flash'[c] # flash[c] => \A i \in desired \ {1} : Flashed(i)]_vars

\* Success means that every region to be flashed holds the image, to stay -
\* no erase, of this invocation or an abandoned one, is still to hit it -
\* and that the EC has been told to close the SPI flash again.  A region of
\* which the EC gave fewer bytes than asked for is excepted by name: it was
\* written, but may not hold the image.
SuccessIsWhole ==
  exit = "success" =>
    /\ \A i \in desired : Flashed(i)
    /\ \A i \in desired : late \intersect Region(i).cells = {}
    /\ map.unlock => ~spi

\* An invocation that returns anything but "*** YOUR COMPUTER MAY NO LONGER
\* BOOT ***" has left every cell as it found it or, on success, flashed it:
\* refusals, cancelling and a fault in the battery check touch nothing, and
\* nothing half-flashed goes unannounced - by an invocation that returns.  The
\* fault of flash_write, after the erase, is the end without a word.
QuietExit ==
  pc = "done" /\ exit \notin {"device_error", "crash"} =>
    \A c \in Cells :
      \/ flash[c] = begun[c]
      \/ exit = "success" /\ \E i \in desired : c \in Region(i).cells /\ Flashed(i)

\* Vital product data and configuration bits survive every history of
\* invocations without --all or -f -f, on every board, whatever image is
\* offered - the one without a board name, which passes the board check on
\* every machine and is flashed by the first map of the table, included.
ConfigKept == ~overrode => \A c \in ConfigCells(board) : flash[c] = "old"

\* What the usage text says, without its exceptions.
ConfigPreserved ==
  ~opts.all => \A c \in ConfigCells(board) : flash[c] = "old"

\* The command as its user sees it: FlashSession, with the regions taken from
\* FinalFlashMap, those left from RegionFlashMask and the region at hand, and
\* the doomed cells those of an erase the EC is still busy with.
Working == {"erase", "erasing", "write", "writing", "endless", "verify"}

Session ==
  INSTANCE FlashSession WITH
    busy <- pc # "done",
    regions <- IF pc = "done" \/ map = NoMap THEN <<>>
               ELSE [i \in Indices(map) |-> map.regions[i].cells],
    left <- IF pc = "done" THEN {}
            ELSE todo \union (IF pc \in Working THEN {cur} ELSE {}),
    doomed <- late,
    verdict <- IF exit \in {"none", "success", "crash"} THEN exit
               ELSE IF exit = "device_error" THEN "failed" ELSE "refused"

\* Whatever the command does to the chip and says of it, FlashSession allows:
\* in particular, no cell changes outside the region at hand, the regions fall,
\* and what leaves work undone is "device_error" - the warning in capitals - or
\* the fault of flash_write with a region at hand.
FlashSpec == Session!Spec

\* Every invocation ends, whatever fails and whatever erase is late - except one
\* whose flash_write was told a write_ideal_size above G_EC_MAX_REQUEST and whose
\* empty writes the EC does not refuse.
EveryRunEnds == pc # "done" ~> pc \in {"done", "endless"}
=============================================================================
