# FrameworkHacksPkg in TLA+

A verification development for FrameworkHacksPkg, a set of UEFI applications and
drivers that talk to the embedded controller (EC) of a Framework Laptop. It
models the host side as the C code has it, the EC as far as the code relies on
it, and asks what can go wrong between the two: late answers, hung controllers,
half-flashed chips, lost power.

## 1. The system

| Part | Source | State | Operations |
| --- | --- | --- | --- |
| Busy wait | `ECWaitForReady`, in both EC libraries and in ECTest | time spent, delay | pause, poll, back off, give up |
| Host command protocol | `ECSendCommandMecLpc`, `ECSendCommand` (Azalea) | packet buffer, result byte, status register, all shared with the EC | build, wait, write, start, wait, read result, header and payload |
| MEC172x transfer | `ECTransfer` (Microchip) | EMI address register, position, address | head bytes, auto-increment words, tail bytes |
| Azalea transfer | `ECTransfer` (Azalea) | none | port arithmetic, byte loop |
| Memory map | `ECReadMemory*` | none (the EC refreshes the map at will) | bound check, block read, string read |
| Installation | constructors and destructors of the libraries | the protocol database, a handle per image | install if an EC answers, uninstall |
| Null library | `ECNull.c` | simulated flash, console cursor, counters | eight host commands |
| FmapLib | `Fmap.c` | none | find the flash map, find an area |
| ectool reflash | `FWUpdate.c` | plan (map, mask), flash chip, SPI lock | check, load, match, mask, countdown, unlock, erase/write/verify, lock |
| Flash erase | `flash_erase`, `flash_erase_async` | tries; the EC's erase | probe, erase, HELLO or poll |
| Flash read and write | `flash_read`, `flash_write` | chunk position | a command per chunk |
| ectool version, flashread, console, reboot | `ECTool.c` | SPI unlocked or not; console cursor in the EC | one or a few commands each |
| ECTest | `ECTest.c` | none | probe both transports, one command |
| Panic capture driver | `FrameworkPanicCaptureDriver` | the variable SavedPanic; the EC's panic record and flag | ask, ask again, check, save |
| Chassis intrusion driver, key map driver, CrosECDriver, ACPI node patcher | `Drivers/` | none of their own (TPM, EC, protocol and ACPI tables belong to others) | straight-line entry points |

How they interact. Every application and driver finds `EFI_CROSEC_PROTOCOL` in
the protocol database and calls `SendCommand` and `ReadMemory`; which library's
functions stand behind it was decided when the first image of the package was
loaded. `SendCommand` is two busy waits around a transfer. `flash_erase`,
`flash_write` and `flash_read` are sequences of `SendCommand`; `cmd_reflash` is
a sequence of those, of `ReadMemory` in its readiness check, and of `FmapLib`
on the file. There are no threads and no callbacks in the host: concurrency is
between the host and the EC, which runs on its own and answers when it likes.

What is hard in it:

- *Ordering without a lock.* Host and EC share one buffer. Two busy bits and
  the order of the host's accesses are all that keeps them apart, and the wait
  for them can give up while the EC is still at work.
- *Retries and late effects.* A command that timed out may still run. For a
  flash erase that means a chip changing after the command has returned.
- *Partial failure and power loss.* `reflash` may stop anywhere, and what is left
  on the chip decides whether the machine starts again.
- *Time.* Pauses, tries and timeouts nest three deep: the wait's back-off in
  `SendCommand`, the tries around it, and the EC's own erase time.
- *State outside the program.* Panic record, reported flag, SPI lock, flash and
  installed protocol survive the program that changed them, and the next one
  finds them; so does a packet that its sender has given up.
- *Boundaries.* Alignment, packet sizes, region masks and sizes the EC reports.

`PROJECT.json` lists the hazards at their lines ("hazards") and the properties
that cover each, or why none does yet.

### What makes each part correct

- Busy wait: it ends; it never takes longer than its timeout; it does not give
  up early.
- Protocol: exclusive use of the buffer; no call is given another call's answer;
  no command runs twice, or without having been started; every call returns.
- Transfer and memory map: exactly the bytes asked for, each to its place, and
  none outside the map, the packet or, of an answer, what the caller has room for;
  a read leaves what it counts.
- Installation: whoever locates the protocol finds one that points into a loaded
  image and to the right library, and every image on a machine with an EC has one.
- reflash: the boot block last; a success is whole and lasting, but for what the
  EC's short answers kept from the check; nothing half-flashed is left unannounced
  by an invocation that returns; configuration survives; one region at a time.
- Erase: "OK" means that the erase is over, and was done if it was accepted; it
  is given the time the comments promise.
- Flash read and write: every byte to its place and none left out, whatever size
  the EC reports; the check passes if and only if the region holds the image,
  when no answer is short.
- version, flashread: the flash is read unlocked, and locked again on every path.
- console: nothing of the log is lost between the EC and the screen.
- Panic capture: no panic saved twice; a saved one gives way only in a boot that
  read a later one, to that or, if the second question fails, to a bare header.

## 2. Modules

| Module | Models | Proofs |
| --- | --- | --- |
| `ECWait` | `ECWaitForReady` | in `CrosECLpcProofs` |
| `ECTransfer` | `ECTransfer` of both libraries, access by access | in `CrosECLpcProofs` |
| `CrosECLpc` | `SendCommand` and `ReadMemory` of both libraries, composed of these two | `CrosECLpcProofs` |
| `HostCommandSpec` | abstract: an at-most-once remote call | |
| `HostCommand` | `SendCommand` and the EC on the shared buffer; implements `HostCommandSpec` | `HostCommandProofs` |
| `FlashErase` | `flash_erase`, `flash_erase_async`, in time | `FlashEraseProofs` |
| `FlashIO` | `flash_write`, `flash_read` and the comparison on one region, chunk by chunk, on the Null library's flash | `FlashIOProofs` |
| `FlashSession` | abstract: regions flashed one by one, from the highest down | |
| `Reflash` | `cmd_reflash`, several invocations on one chip; implements `FlashSession` | `ReflashProofs` |
| `MCReflash` | the flash maps of `FWUpdate.c` as constants for `Reflash` | |
| `PanicCapture` | the panic capture driver over several boots | `PanicCaptureProofs` |
| `CrosECLifecycle` | images that come and go, and the protocol database | in `ECToolProofs` |
| `Console` | `cmd_console` and `PrintLogBuffer` | `ConsoleProofs` |
| `ECTool` | the programs of the package one after the other, on one EC: `CrosECLifecycle`, `Console` and the calls of all commands and drivers | `ECToolProofs` |

The modules form layers, each using of the one below what that one shows:

    PanicCapture   Reflash (FlashSession)     ECTool            programs
          |           |                      /      \
          |       /       \      CrosECLifecycle   Console
          |   FlashErase  FlashIO         |                     sequences of calls
          |    /      |    /              |
       HostCommand (HostCommandSpec) -----+                     one call, host against EC
              |
          CrosECLpc                                             one call, byte by byte
           /       \
     ECTransfer   ECWait                                        registers; one wait

`CrosECLpc` EXTENDS its two parts and takes their actions as its own; `ECTool`
EXTENDS `CrosECLifecycle` and instantiates `Console`. The other layers are used
by what they show. `HostCommand` takes from `CrosECLpc` that a wait ends after a
bounded number of turns, and that a transfer moves what it should
(`WaitBounds`, `Exact`); it counts turns instead of microseconds. `FlashErase`
takes from `HostCommand` that a call is given its own answer or an error, that a
command runs at most once and perhaps late, and that the next call's first wait
holds it back until the last command is out of the buffer; it counts time in the
waits. `ECTool` takes the same, as one step per call, and keeps the one packet
that may be in flight when its sender is gone. `Reflash` takes from `FlashErase`
what a return of `flash_erase` may mean: success that may not be one
(`StartErase` refused, then a HELLO answered), an error with the erase done, half
done or still to come, but never "OK" with this erase still running
(`OkIsOver`). From `FlashIO` it takes that a write that returns 0 has put the
whole region where it belongs and that a failed one has left a first part of it
(`WritesInOrder`); that for some sizes the EC may report a write faults, overruns
its buffer or has no end (`crash`, `endless`); and that the check tells a region
that holds the image from one that does not only if no answer was short
(`VerifiedHolds`): with a short one any region may pass, and `unread` remembers
which. `FlashIO` itself starts on any flash, erased
or not: that it is erased is not its caller's to promise (see
`flash_erase_hello`).

`FlashSession` is what a user of `ectool reflash` would want to be told: a
session is refused before it has touched the chip, or it works on one region at
a time, from the highest down, and goes on to the next only when the last one
holds the image - or was written and is on record as one the check has seen only
in part - and nothing is left that could change it. It may fail and say so; over a
region at hand it may also crash, and say nothing. `Reflash` shows that
`cmd_reflash` does this (`FlashSpec`), with an erase given up by an earlier
invocation as the one thing that may still change a region.

Definitions ending in a suffix (`Send_unwaited`, `Match_unchecked`, ...) are
variants of the definition that follows them, each with one mistake somebody
might make. They are not part of any specification; they show that the property
named with them in `PROJECT.json` ("mutants") does find that mistake.

### From code to actions

- `ECWait`: `elapsed`, `delay` are the C variables `i`, `delay`, `stalled` is the
  sum of the `Stall` arguments. `Busy` is a turn of the loop that reads a busy
  status, `Ready` one that does not, `GiveUp` the loop's end. The EC is the choice
  between the first two.
- `ECTransfer`: one action per access to a data register or a port; `moved`
  collects pairs of buffer index and EC address. `reg` is the EMI's address
  register, which the hardware advances when the upper half of a word is
  accessed. `Port` is the Azalea library's arithmetic.
- `CrosECLpc`: `at` names the wait or transfer a call is at; `Fails` and the guard
  of `ReadMemory` are the two bound checks, `Return` is every exit of
  `SendCommand` after its first wait, `StringByte` one turn of the string loop.
  The response's header, with any `data_len`, its result byte and the memory map
  are choices.
- `HostCommand`: `pc` names the statement `SendCommand` is at; `BeginCall` is
  everything up to the first wait, with the TRUNCATED return; `WaitFree` and
  `WaitDone` are turns of the two waits; `WriteHeader`/`WriteData` the transfer
  of the request in its two parts, between which the EC may act; `Start` the
  command byte, which makes hardware raise FROM_HOST in the same step;
  `ReadResult`, `ReadHeader`, `ReadPayload` the rest, with every error return.
  The buffer is two pieces, header and body, each with its writer, and the
  header's fields as both packed structs see them: a request read back as a
  response means to the model what it would mean to the code. The EC's actions
  are external: it takes the packet, runs it or refuses it, writes body, header
  and result in that order, lowers PROCESSING, each when it likes or never.
- `FlashErase`: `call` and `phase` say which `SendCommand` the code is in and
  where in it; `Return` is the code after it. `Pause`, `Wait` take time,
  and only those do.
- `FlashIO`: `pc` is "write" or "read" in the loop of either function, `i` and
  `step` are its variables, `check` is `VerifyBuffer`. `Info` is `flash_write` up
  to its loop. A chunk that does not fit the stack buffer behind its parameters
  is `WriteOverrun`. A byte is a bit; `Programmed` is the Null library's FLASH_WRITE.
- `Reflash`: one action per phase of `cmd_reflash`; `CheckReady` is used at its
  two places, `Notify` at its four. `opts` has the options that matter at more than
  one place; `--ro` and `--rw` are chosen in `Mask`, the image in `Load`. `todo` is
  `RegionFlashMask`, `desired` the same mask before the loop. The flash is a
  function from cells to what is in them; a cell is a stretch between two borders
  of the flash maps. "junk" is any content, the image's by chance included, of a
  cell that was written over. Leaving through any `goto` is `Leave(why)`.
  `EmptyWrites` is the loop of `flash_write` with a step of 0 bytes,
  `FinishLateErase` an erase the command gave up on. The ghost `unread` collects
  the regions that passed the check with a short answer.
- `PanicCapture`: `Boot` to `Save` are the entry point; `EcPanics`, `EcForgets`,
  `OthersAsk`, `PowerLoss` the rest of the world. `size` is `PanicSize` as the
  second, unchecked question has left it: of a record, zero, or an error code,
  small or large. `Save` makes of it what `SetVariable` does with
  `sizeof(struct SavedPanicInfo) + PanicSize` bytes: the record, the bare header
  (whole or in part), or a refusal. `saved` is the panic whose record is stored,
  0 if no byte of any is.
- `CrosECLifecycle`: `Load` to `Unload` are the firmware's image services around
  one constructor and one destructor per library (`Construct`, `Destruct`), in any
  order; `handles` are the `mProtocolHandle`s that are not NULL; `Install` is
  `InstallMultipleProtocolInterfaces` on a device path all images share.
- `Console`: `Snapshot`, `Read` are the calls and what the loop does with them;
  `PrintLog` is `PrintLogBuffer` as a function of the buffer and what the stack
  holds behind it. `PrintLog` prints what the C expressions say, negative
  precisions included.
- `ECTool`: `pc` is the place of a program between two calls; `Call` is one
  `SendCommand`, which succeeds (`Ok`) or fails (`Bad`: unsent, refused, run with
  the answer garbled, or left in flight). `WriteSize` is what a reported
  `write_ideal_size` may do to `flash_write`, and `EmptyWrites` its endless loop;
  `PowerCycle` is the user's answer to either. `EcTakes`, `EcRuns` are the EC with a
  packet whose sender has gone. `lost` remembers that a notification of this
  program failed, `before` how it found the SPI lock.

## 3. Runs

| Run | Checks | Shows |
| --- | --- | --- |
| `lpc` | `TypeOK WaitBounds Exact WithinRegion ReadIsRight CallsReturn` | with the code's numbers: waits keep their bounds, transfers move what they should and stay inside packet, map and `insize`, reads are right, calls return |
| `host_command` | `TypeOK BufferExclusive OwnAnswer AtMostOnce EveryCallReturns RpcSpec` | the two waits suffice: whatever the EC delays or garbles, the calls are at-most-once calls |
| `flash_erase` | `TypeOK OkIsOver OkIsErased SyncPatience EraseReturns` | what a return of `flash_erase` is worth, for four kinds of EC |
| `flash_io` | `TypeOK WritesInOrder VerifiedHolds Ends` | bytes, chunks and sizes of the write and the check, over good and bad sizes reported by the EC |
| `reflash` | `TypeOK SuccessIsWhole QuietExit ConfigKept BootblockLast FlashSpec EveryRunEnds` | two invocations, every option, image and failure, short answers and bad sizes, late erases between them; all of it implements `FlashSession` |
| `panic_capture` | `TypeOK SavedOnce NeverBack EveryBootEnds` | three boots, two panics, in any order with failures and empty second answers |
| `session` | `TypeOK ProtocolSound Served RunsAsSent ReadsUnlocked Relocked ConsoleComplete EveryImageEnds` | three programs in a row out of all twelve, with packets in flight between them, on a machine with either EC or none |

Five more runs each end in a counterexample to what a comment or the usage text
says of the code, recorded under "findings":

| Run | The text | What the code does |
| --- | --- | --- |
| `reflash_force` | `-f`: "Skip the battery and AC check"; "Preserves vital product data" | `-f -f` also waives the board check, and another board's map overwrites the VPD |
| `flash_erase_hello` | HELLOs "if the Erase command times out" | on every error; an erase the EC refused then counts as done, by its HELLO |
| `read_memory_unaligned` | "Read specified bytes directly" | a short read off a multiple of four writes past its size, as the string mode does at three offsets of four |
| `panic_capture_old` | "already reported ... so it is not new" | it was reported to this driver, a moment ago: the driver asks twice, and on an EC that sets the flag when it has answered, the second answer always has it |
| `console_overscan` | "Prints a string" | `PrintLogBuffer` scans as far again as the answer is long, and prints older answers or stack up to a line feed it finds there |

On `flash_erase_hello`: a refused erase that counts as done is not an unnoticed
failure of `reflash`, because every region is read back and compared
(`SuccessIsWhole` holds); it means that the chip is then written unerased.
On `panic_capture_old`: that the EC sets OLD_HOSTCMD when it has answered is the
reading the flag's name and the driver's comment suggest; the EC's code is not here.

### Bounds, and why they are enough

- `CrosECLpc.cfg`: the code's numbers for waits, packets and the map. Requests and
  answers empty, short, odd and as long as the packet allows, and longer; room for
  248 bytes of an answer and, as `FrameworkKeyMapDriver` has it, for 256, with a
  `data_len` of 248, 249, 256 and 257;
  offsets that `cmd_reflash` uses, one of every alignment, and the last bytes of
  the map; strings that end at once, within a word, over a word's end, or only
  with the map. The proofs hold for any of them.
- `HostCommand.cfg`: three calls, so that one answer can be late for two later
  calls; two polls per wait, so that a wait can succeed at once, succeed late or
  fail; request sizes nothing, fitting and too long; answers with each header
  field right or wrong. The proofs hold for any number of any of them.
- `FlashErase.cfg`: the code's tries and pauses in units of half a second, and
  erases that fit a wait, take several tries, and outlast all of them. Time is
  counted up to the twenty seconds that the properties ask about
  (`TwentySeconds`). The 100 ms pause rounds to nothing: time is never
  overcounted, which is the safe side for `SyncPatience`.
- `FlashIO.cfg`: a packet of three, answers of two, a flash of four: a region takes
  one or two chunks either way, whole and half ones. Of the sizes the EC may
  report, 0 divides by zero, 1 fills the packet so that the parameters do not
  fit, 2 is a good one, 4 leaves no step at all. The last chunk of a region may
  fit where the first did not, so that size 1 also writes. Every image, every
  content of flash and of `VerifyBuffer` is an initial state.
- `Reflash.cfg`: the maps of an hx20, of an NPCX board and of an unknown one;
  five cells, the borders of all three maps; two invocations, so that the second
  finds what the first left. Every region may be read with short answers, and every
  write may meet a bad size. `ReflashForce.cfg` needs one invocation.
- `PanicCapture.cfg`: three boots and two panics.
- `ECTool.cfg`: three programs: the second finds what the first has left in
  flight or resident, the third what the second has made of it. Answers of three
  bytes and a log of three cut lines at every place; `ConsoleOverscan.cfg` has one
  byte more. The proofs hold for any number of programs.

No symmetry is used: cells and boards are told apart by the maps.

### Power loss and crashes

In `Reflash` a loss of power ends the behaviour, and every reachable state is one
it may end in: what must hold after it is stated of all states or of all steps
(`BootblockLast`). In `PanicCapture` the machine starts again, and `PowerLoss` is
an action. In `ECTool` a reboot of the EC resets the machine, at once or when the
packet that asks for it, given up long ago, is taken after all (`EcReboots`).

## 4. Fairness

Each specification has weak fairness of the host's (or driver's) steps and of
nothing else. The host is straight-line code with loops that spin on time; it
runs to completion unless the machine stops, so an enabled step is taken. The one
loop without an end is that of `flash_write` with a step of 0 bytes: it goes on
until the EC refuses an empty write. `EmptyWrites` is therefore an action without
fairness, in `Reflash` and in `ECTool`, and `EveryRunEnds` and `EveryImageEnds`
name it as their exception (the latter also the fault, after which the image never
returns); nobody is forced to `PowerCycle`. The EC
is given no fairness anywhere: it may hang for good, and the liveness properties
say that the host returns nevertheless. Starting another call, invocation,
program or boot is never forced. `Console` states no fairness of its own; its loop
ends under that of `ECTool` (`EveryImageEnds`).

## 5. What is proved

For all values of the constants (`PROJECT.json`, "theorems"):

| Module | Properties that runs check | Beyond the runs |
| --- | --- | --- |
| `CrosECLpcProofs` | type correctness, `WaitBounds`, `Exact`, `WithinRegion`, `ReadIsRight` | `EveryStepCounts` |
| `HostCommandProofs` | type correctness, `BufferExclusive`, `OwnAnswer`, `AtMostOnce`, `RpcSpec`: the refinement of `HostCommandSpec` | `StepsAreCounted` |
| `FlashEraseProofs` | type correctness, `OkIsOver`, `OkIsErased`, `SyncPatience` | `EveryStepCounts`, `HostIsNeverStuck` |
| `FlashIOProofs` | type correctness, `WritesInOrder`, `VerifiedHolds` | `WritingKeepsElsewhere`, `ErasedRegionPasses`, `StepsAreCounted` |
| `ReflashProofs` | type correctness, `SuccessIsWhole`, `QuietExit`, `BootblockLast`, `ConfigKept`, `FlashSpec`: the refinement of `FlashSession` | `EveryStepCounts` |
| `PanicCaptureProofs` | type correctness, `SavedOnce`, `NeverBack` | |
| `ECToolProofs` | type correctness, `ProtocolSound`, `Served`, `RunsAsSent`, `ReadsUnlocked`, `Relocked` | `SessionIsLifecycle` |
| `ConsoleProofs` | `ConsoleComplete` | `PrintLogShows`, `EveryImageStepCounts` |

Every safety property, action property and refinement of a passing run has its
theorem.

The arguments, which the header of each module gives in a few lines:

- *HostCommand.* At most one call is in flight, from its command byte until the
  EC lowers PROCESSING; it is the youngest call started, and until the EC takes
  it the buffer holds its request (`EcInv`). The host starts another only after
  its first wait has found nothing in flight, and what it reads after the second
  was written for the call that was in flight until then (`HostInv`). The
  properties themselves are not inductive: none of them says what the EC is
  holding. The refinement follows step by step from the same invariant.
- *Reflash.* The regions are those still to do, the one at hand and those done,
  in falling order (`PlanInv`), so that nothing is left when the boot block's
  turn comes. A region done holds the image, or is on record as unread and holds
  what was written, and no erase is outstanding (`FlashInv`): a write succeeds only on an EC that is through with earlier
  erases, and an erase outlives its command only by ending the invocation. The
  refinement of `FlashSession` needs the same invariant and that the flash is as
  the invocation found it until the first erase; each step of `cmd_reflash` is a
  step of the session or none.
- *FlashErase.* A synchronous erase holds the bus until it is over, so an
  answered HELLO proves it over; after an asynchronous one the EC is asked for
  nothing but results, so the result is that of this erase. While the erase
  command has not been answered every HELLO waits in vain, and for its whole
  timeout (`PatienceInv`).
- *FlashIO.* Writing n bytes of the image and then m more is writing n + m
  (`ProgrammedMore`), so that between two chunks the flash holds the first `i`
  bytes. The first `i` bytes of `VerifyBuffer` are those of the region unless an
  answer was short (`ReadInv`), and after the last chunk all are. From the two:
  a byte outside the region keeps its value on every path
  (`WritingKeepsElsewhere`), and over an erased region the check passes
  (`ErasedRegionPasses`), so that the mismatch `cmd_reflash` reports tells of a
  region that was not erased or of a short answer, never of the chunking.
- *CrosECLpc.* The wait: until the deadline `stalled` is `elapsed` less the next
  pause, plus the first (`Account`). The transfer: what has been moved is always
  the first `Counted` bytes of the request, with register, address and position
  in step (`TransferInv`); at the end this is the size, or the head alone if that
  overshot it. The calls: `Requests` says which transfer each of them makes, from
  which the regions follow; a string has filled the bytes before `off`, and each
  further one brings at most two more. `TransferInv` is an invariant of the parts'
  steps alone, so that each action of a call has to establish it only where it
  starts a transfer.
- *ECTool.* What a session does to the images are steps of theirs
  (`SessionIsLifecycle`), so that `Owned` (what is installed is what the loaded images'
  handles say, and at most one of it) and `Provided` are proved without the
  commands. Between the unlock and the lock of one program nothing is in flight
  that could change the flash, for the unlock's own first wait has waited for it
  (`SessionInv`). A probe puts 0x120 over the command's bytes; no command in use
  has the same sum of bytes, so that the checksum fails (`CodeFacts`).
- *Console.* `PrintLogBuffer` is a function that recurs on the next line. Nothing
  is assumed of it: solutions of the recursion grow from the end of the buffer
  to its beginning (`SolutionMore`), and a least number for which they did not
  would contradict itself (`LeastNat`), so that it may be unfolded line by line.
  A line prints its text but for one carriage return (`LineShows`), so the whole
  shows the answer, in order, with whatever the scan found behind it
  (`PrintLogShows`). Of `cmd_console` it is kept that what the EC has answered is
  on the screen and is a first part of the log (`ConsoleInv`); it ends well only
  on an empty answer, with all of the log answered.
- *PanicCapture.* At most one run at a time holds a panic as new, and once it
  is saved none can (`OnlyNew`): what a run holds as new was never saved, which
  makes it another than the saved one. The EC's record is of its latest panic or
  of none (`Latest`), so that it is a later one.

Why things end. Liveness needs fairness and stays with TLC, but what it rests on
is proved for all constants: a measure that every step of the host lowers and no
step of the EC raises.

- `HostCommand`, `FlashIO`: a number of steps with a bound, `2 * MaxPolls + 8` for
  a call, `2 * size + 3` for a region. The latter says what it takes: a
  positive step of `flash_write`, without which it has no end.
- `FlashErase`: the calls left, and the turns of the one at hand. `HostIsNeverStuck`
  says besides that there always is a next step.
- `CrosECLpc`: the parts of a call left, and of the one at hand what is left of
  the timeout or of the bytes.
- `Reflash`: the regions left to do, and the steps of the one at hand. The loop of
  empty writes has no measure; `StartWrite` alone leads there.
- `ECTool`: the stages of an image, the places of its program and, in the loop
  of `cmd_console`, the answers with something in them: it goes on only after
  such an answer, and a log has only so many bytes. What the measure leaves out are
  the fault and the empty writes, to which `WriteSize` alone leads.

`PanicCapture` has no loop within a boot.

Assumptions: those on the constants in the modules (`HostAssumption`,
`ReflashAssumption`, `ConfigAssumption`, `LpcAssumption`, `ConsoleAssumption`, ...), which every run
evaluates.
`ReflashAssumption` says that the regions of a map do not overlap, and
`ConfigAssumption` that any map a board name can select without force skips the
cells with configuration; the real tables satisfy both, as `MCReflash` shows.
`PatienceAssumption` says that the tries of HELLO and the wait of each amount to
twenty seconds, as twenty tries of a second do; `LpcAssumption` that packets and
memory map have at most 256 bytes and that no client has room for more than 256
bytes of an answer. The EC's `data_len` may be any number of 16 bits.

Only model-checked: the liveness properties (`CallsReturn`, `EveryCallReturns`,
`Ends`, `EraseReturns`, `EveryRunEnds`, `EveryBootEnds`, `EveryImageEnds`), for
they need fairness and what is enabled.

## 6. What the models leave out

- Bytes. A packet is its writer and four header fields; a checksum detects
  every mixture of two writers (real ones collide once in 256).
- BUSY is raised by hardware in the same step as the write of the command byte,
  as the comment in `ECWaitForReady` believes. Everything rests on it: a request
  read back before the EC has answered passes for a response without data.
- An EC that resets in the middle of a command is an EC that never answers.
- Board names are compared whole. The code compares as many characters as the
  image's name has, so that a prefix would match too; of these only the empty
  name is modelled (`EmptyId`), for it matches every board.
- What happens after an overrun of `flash_write`'s stack buffer. With the code's
  numbers it takes a reported size whose largest multiple up to 248 is more than
  240 (1, 2, 31, 241 to 248, for instance) and a region of more than 240 bytes;
  sizes above 248 leave a step of nothing, and zero divides by zero. The Null
  library reports 240, a good size. Nothing in the repository says what a real
  EC reports, so that none of these counts as a finding. To `Reflash` and `ECTool`
  the overrun and the division are one outcome, the end of the invocation without a
  word (`crash`, `r_fault`), and the step of nothing another (`endless`,
  `r_endless`): both leave the region at hand as the erase left it.
- What an answer of more than 248 bytes does to `SendCommand`. Its check is against
  `insize` only, which of all clients `FrameworkKeyMapDriver` (`Driver.c:45`) gives
  as 256: a header that says 249 to 256 has the transfer read up to 8 bytes behind
  the packet and write them behind `r.data`. `WithinRegion` bounds the access; what
  it does to the stack is not modelled.
- The bytes of a short answer. `flash_read` does not look at the number of bytes
  `SendCommand` returns and copies its uncleared buffer; `FlashIO` has what is in
  it, `Reflash` only that such a region may pass the check, which `unread` records.
- The file, memory and the screen: a failure of theirs is an exit.
- The sum in the bound check of `ReadMemory` does not wrap: nobody in the
  repository passes an offset that is not a constant of the memory map.
- In `ECTool` a call is one step, and of several flash commands in a row one
  stands for all; what was written where is `Reflash`'s. A program's answer to an
  error is modelled as far as it calls the EC again.
- Nobody holds the protocol open by OpenProtocol, and only one image runs at a
  time; a driver that stays is not unloaded by hand. A machine's EC answers one of
  the two ways of looking at its memory map, and the other finds no "EC" there.

Some things met on the way that no text contradicts and that are therefore no
findings, or are contradicted by a wrong comment only:

- `Flash.c:60` says "Up to 20 seconds at 500ms/piece" of four tries: a busy EC is
  given up after about two seconds and the time of four calls.
- `FrameworkPanicCaptureDriver/Driver.c:103` says that with no panic the one saved
  before is left alone. That is so of the first question; if the second is answered
  by nothing, or fails with a small error code, a bare header takes the place of the
  panic saved before, and of the new one too. `NeverBack` states exactly this.
- `cmd_console` reads RECENT once and then NEXT. By the text at
  `CrosECLib.h:4204` the second starts at the beginning of the snapshot, so that
  what was recent is printed twice.
- `cmd_flashread` parses its numbers unsigned, tests them for less than zero, and
  passes them on as `int`.
- The package's dsc names `Drivers/ECStatDriver`, which the repository does not
  have.

## 7. Not modelled

`PROJECT.json` lists every component with its status.

- Messages (`EC.c`, `Output.c`): wording and colour.
- `FmapLib`: a search for eight bytes and a comparison of names. What could go
  wrong is a read behind a truncated file, whose outcome is memory the model
  knows nothing of; `Reflash` has the two outcomes the caller tells apart.
- The Null library's version strings, memory map and statistics are data, and the
  library is not linked by the package's dsc.
- What TPM and ACPI do with a measurement or a table; the binding of
  `CrosECDriver`, whose Start only asks whether the protocol is there.
- `CrosECLib.h` is for the most part the command list of the EC project. The
  modules have the commands, structs and bits that the C code uses.

## 8. Plan

The order is by how much depends on the part.

1. Done: `ECWait`, `ECTransfer` and `CrosECLpc` over them; `HostCommand` over
   `HostCommandSpec`; `Reflash` over `FlashSession`; `FlashErase`, `FlashIO`,
   `PanicCapture`; `ECTool` with `CrosECLifecycle` and `Console`.
2. Done: the proofs of every safety property and refinement the runs check, what
   follows from them for `FlashIO`, and the measures behind the liveness properties.
3. That `HostCommand`'s host steps are those of `CrosECLpc`, with the two halves
   of the buffer as sets of its bytes: a refinement between the two views of
   `SendCommand`.
4. The Null library as a whole: its eight commands as an EC for `ECTool`.
