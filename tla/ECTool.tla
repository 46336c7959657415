------------------------------- MODULE ECTool -------------------------------
(***************************************************************************)
(* A machine's firmware session: the applications and drivers of the       *)
(* package, one after the other, on one EC.  The commands of ectool        *)
(* (Application/ECTool), ECTest and the drivers are their calls of the EC  *)
(* in order, with every early return; cmd_reflash is its calls around the  *)
(* flash (see Reflash for the rest), cmd_console is Console.               *)
(*                                                                         *)
(* A call is HostCommandSpec's, in one step: the first wait fails while an *)
(* earlier packet is in flight; a packet that is sent is answered, refused *)
(* or outlasts the second wait, and then the EC runs it later or never.    *)
(* Between the two anything may happen that the package does, the          *)
(* constructors' probes of the hardware included.                          *)
(***************************************************************************)
EXTENDS CrosECLifecycle, Sequences

CONSTANTS BufMax, LogMax    \* see Console

ASSUME ConsoleAssumption == BufMax \in Nat \ {0} /\ LogMax \in Nat

VARIABLES
  kind,      \* which program the latest image is
  pc,        \* where it is; "off" when it does not run
  unlocked,  \* the variable of cmd_version and cmd_flashread
  spi,       \* the EC has handed out access to the SPI flash
  packet,    \* the packet in flight, NoPacket when there is none
  before,    \* ghost: spi as this image found it, less what others undid
  lost,      \* ghost: a FLASH_NOTIFIED of this image failed
  cpc, null, log, recent, next, sub, buf, text, printed, seen

Con == INSTANCE Console

ec == <<spi, packet, before>>
con == <<cpc, null, log, recent, next, sub, buf, text, printed, seen>>
run == <<kind, pc, unlocked, lost>>
vars == <<life, run, ec, con>>

NoPacket == [request |-> "", code |-> 0, at |-> "none"]

FlashRequests == {"FlashRead", "FlashWrite", "FlashErase"}

\* EC_CMD_FLASH_NOTIFIED, by what it says.
Notifies == {"Unlock", "Lock"}

\* Host commands.  Of those of cmd_reflash that do nothing to SPI access three
\* stand for all.
Requests ==
  FlashRequests \union Notifies \union
  {"ProtoVersion", "GetVersion", "GetBuildInfo", "ConsoleSnapshot", "ConsoleRead",
   "RebootEc", "GetPanicInfo", "ChassisIntrusion", "UpdateKeyboardMatrix"}

Code ==
  [r \in Requests |->
     CASE r = "ProtoVersion" -> 0
       [] r = "GetVersion" -> 2
       [] r = "GetBuildInfo" -> 4
       [] r = "FlashRead" -> 17
       [] r = "FlashWrite" -> 18
       [] r = "FlashErase" -> 19
       [] r = "ConsoleSnapshot" -> 151
       [] r = "ConsoleRead" -> 152
       [] r = "RebootEc" -> 210
       [] r = "GetPanicInfo" -> 211
       [] r \in Notifies -> 15873
       [] r = "ChassisIntrusion" -> 15881
       [] r = "UpdateKeyboardMatrix" -> 15884]

Programs ==
  {"version", "flashread", "reboot", "console", "reflash", "help", "ectest", "panic",
   "chassis", "keymap", "crosec", "acpi"}

Init ==
  /\ LifecycleInit
  /\ kind = "help" /\ pc = "off" /\ unlocked = FALSE /\ lost = FALSE
  /\ spi = FALSE /\ packet = NoPacket /\ before = FALSE
  /\ Con!Init

-----------------------------------------------------------------------------
(* The EC *)

\* What the SPI flash may be after a request has run.
Access(r, s) ==
  IF r = "Unlock" THEN {TRUE}
  ELSE IF r = "Lock" THEN {FALSE}
  ELSE IF r = "RebootEc" THEN {s, FALSE}
  ELSE {s}

\* A probe of the Microchip way writes the EMI address 0x120 to the port
\* 0x802.  On the other machine this is where the packet has its command.
ProbeWord == 288

Probed(l) ==
  packet' = IF l = "mec" /\ machine = "npcx" /\ packet.at = "buffer"
              THEN [packet EXCEPT !.code = ProbeWord] ELSE packet

\* A checksum of what follows the header.
Valid_data(p) == TRUE

\* The checksum adds up all bytes of the packet.
Sum(word) == ((word % 256) + (word \div 256)) % 256
Valid(p) == Sum(p.code) = Sum(Code[p.request])

EcTakes ==
  /\ packet.at = "buffer"
  /\ packet' = [packet EXCEPT !.at = "taken"]
  /\ UNCHANGED <<life, run, spi, before, con>>

\* A packet that outlasted its call is run, or refused, after all: not the
\* doing of the image at hand, unless it sent it.
EcRuns ==
  /\ packet.at = "taken"
  /\ packet' = NoPacket
  /\ \/ /\ Valid(packet)
        /\ spi' \in Access(packet.request, spi)
        /\ before' = IF spi' = spi /\ packet.request \notin Notifies THEN before ELSE spi'
     \/ UNCHANGED <<spi, before>>
  /\ UNCHANGED <<life, run, con>>

ConsoleOff ==
  /\ cpc' = "off" /\ null' = FALSE /\ log' = <<>> /\ recent' = 0 /\ next' = 0
  /\ sub' = "recent" /\ buf' = <<>> /\ text' = <<>> /\ printed' = <<>> /\ seen' = {}

\* The machine starts again.
Boot ==
  /\ Restart
  /\ kind' = "help" /\ pc' = "off" /\ unlocked' = FALSE /\ lost' = FALSE
  /\ ConsoleOff

\* A cold reboot of the EC takes the machine with it.
Reset ==
  /\ Boot
  /\ spi' = FALSE /\ packet' = NoPacket /\ before' = FALSE

EcReboots ==
  /\ packet.at = "taken" /\ packet.request = "RebootEc" /\ Valid(packet)
  /\ Reset

-----------------------------------------------------------------------------
(* A call *)

\* No first wait: an earlier packet is run after this one.
Ok_unwaited(at, r, then) ==
  /\ pc = at
  /\ spi' \in Access(r, spi)
  /\ pc' = then
  /\ UNCHANGED <<packet, before, lost>>

\* A call of r, at one place of the program, that succeeds ...
Ok(at, r, then) ==
  /\ pc = at
  /\ packet = NoPacket
  /\ spi' \in Access(r, spi)
  /\ pc' = then
  /\ UNCHANGED <<packet, before, lost>>

Sent(r) == [request |-> r, code |-> Code[r], at |-> "buffer"]

\* ... and one that fails: not sent, or refused; run, but the answer garbled;
\* or still in flight.
Bad(at, r, then) ==
  /\ pc = at
  /\ \/ UNCHANGED <<spi, packet>>
     \/ packet = NoPacket /\ spi' \in Access(r, spi) /\ UNCHANGED packet
     \/ packet = NoPacket /\ packet' = Sent(r) /\ UNCHANGED spi
  /\ pc' = then
  /\ lost' = (lost \/ r \in Notifies)
  /\ UNCHANGED before

Call(at, r, ok, bad) == Ok(at, r, ok) \/ Bad(at, r, bad)

quiet == <<life, kind, con>>

-----------------------------------------------------------------------------
(* Images *)

\* Some image of the package is started.
Start ==
  /\ Load
  /\ kind' \in Programs
  /\ lost' = FALSE
  /\ before' = spi
  /\ UNCHANGED <<pc, unlocked, spi, packet, con>>

Constructor ==
  /\ \E l \in Libs : Construct(l) /\ Probed(l)
  /\ UNCHANGED <<run, spi, before, con>>

EntryPoint ==
  /\ Enter
  /\ pc' = "start"
  /\ UNCHANGED <<kind, unlocked, lost, ec, con>>

\* Where a client of the protocol goes on when it has found it.
First ==
  [version |-> "v_build", flashread |-> "f_open", reboot |-> "ask",
   console |-> "c_snapshot", reflash |-> "r_check", panic |-> "p_ask",
   chassis |-> "ask", keymap |-> "ask"]

\* LocateProtocol, and ectool's dispatch; without a command ectool prints help.
Locate ==
  /\ pc = "start"
  /\ \/ kind \in DOMAIN First /\ db # {} /\ pc' = First[kind]
     \/ kind \in DOMAIN First /\ db = {} /\ pc' = "exit"
     \/ kind = "help" /\ pc' = "exit"
  /\ IF pc' = "c_snapshot" THEN \E stack \in {"x", "lf"} : Con!Start(stack)
                           ELSE UNCHANGED con
  /\ UNCHANGED <<life, kind, unlocked, lost, ec>>

\* ECTest brings its own copies of both ways and probes with them, the
\* Microchip way first; the one that finds an EC last is used.
TestProbes ==
  /\ pc = "start" /\ kind = "ectest"
  /\ \/ Probed("mec") /\ pc' = IF machine = "none" THEN "exit" ELSE "ask"
     \/ UNCHANGED packet /\ pc' = "exit"
  /\ UNCHANGED <<quiet, unlocked, lost, spi, before>>

\* CrosECDriver installs a driver binding, the ACPI patcher a table.
DriverStays ==
  /\ pc = "start" /\ kind \in {"crosec", "acpi"}
  /\ \/ Stay /\ pc' = "off"
     \/ UNCHANGED life /\ pc' = "exit"
  /\ UNCHANGED <<kind, unlocked, lost, ec, con>>

\* Programs that are one call, whose result they only print, or extend a PCR
\* by: what they return is never success, or they are applications.
Once ==
  [reboot |-> "RebootEc", chassis |-> "ChassisIntrusion",
   keymap |-> "UpdateKeyboardMatrix", ectest |-> "ProtoVersion"]

AskOnce ==
  /\ kind \in DOMAIN Once
  /\ Call("ask", Once[kind], "exit", "exit")
  /\ UNCHANGED <<quiet, unlocked>>

\* "UNREACHABLE ON SUCCESS ON THE FRAMEWORK LAPTOP"
Reboot ==
  /\ pc = "ask" /\ kind = "reboot"
  /\ packet = NoPacket
  /\ Reset

\* The panic driver's two questions.
AskPanic ==
  /\ \/ Call("p_ask", "GetPanicInfo", "p_again", "exit")
     \/ Call("p_again", "GetPanicInfo", "exit", "exit")
  /\ UNCHANGED <<quiet, unlocked>>

-----------------------------------------------------------------------------
(* cmd_version and cmd_flashread *)

VersionBuildInfo ==
  /\ Call("v_build", "GetBuildInfo", "v_unlock", "out")
  /\ UNCHANGED <<quiet, unlocked>>

\* The file is opened before the flash is unlocked.
FlashreadOpen ==
  /\ pc = "f_open"
  /\ pc' \in {"f_unlock", "out"}
  /\ UNCHANGED <<quiet, unlocked, lost, ec>>

Unlock ==
  /\ \/ Call("v_unlock", "Unlock", "v_version", "out")
     \/ Call("f_unlock", "Unlock", "f_read", "out")
  /\ unlocked' = (pc' # "out")
  /\ UNCHANGED quiet

VersionRead ==
  /\ Call("v_version", "GetVersion", "out", "out")
  /\ UNCHANGED <<quiet, unlocked>>

\* flash_read; FlashIO has its chunks.
FlashreadRead ==
  /\ Call("f_read", "FlashRead", "f_file", "out")
  /\ UNCHANGED <<quiet, unlocked>>

\* An error of the file returned at once.
FlashreadFile_returns ==
  /\ pc = "f_file"
  /\ pc' \in {"out", "exit"}
  /\ UNCHANGED <<quiet, unlocked, lost, ec>>

\* The file is written and closed, or not.
FlashreadFile ==
  /\ pc = "f_file"
  /\ pc' = "out"
  /\ UNCHANGED <<quiet, unlocked, lost, ec>>

\* Locking is tried until it works.
LockAgain_insists ==
  /\ \/ unlocked /\ Call("out", "Lock", "exit", "out") /\ unlocked' = (pc' = "out")
     \/ /\ pc = "out" /\ ~unlocked /\ pc' = "exit"
        /\ UNCHANGED <<unlocked, lost, ec>>
  /\ UNCHANGED quiet

\* "last ditch effort: tell the EC we're done with SPI"
LockAgain ==
  /\ \/ unlocked /\ Call("out", "Lock", "exit", "exit")
     \/ pc = "out" /\ ~unlocked /\ pc' = "exit" /\ UNCHANGED <<lost, ec>>
  /\ unlocked' = FALSE
  /\ UNCHANGED quiet

-----------------------------------------------------------------------------
(* cmd_reflash, cmd_console *)

\* All that comes before the flash; boards with an NPCX need no unlocking.  A
\* battery without a known capacity is a division by zero.
ReflashBegin ==
  /\ pc = "r_check"
  /\ pc' \in {"exit", "r_unlock", "r_flash", "r_fault"}
  /\ UNCHANGED <<quiet, unlocked, lost, ec>>

\* Of the flash commands one stands for all: those that fail and are followed
\* by another are polls, asked again, or are covered up by a HELLO (FlashErase).
\* Locked again on success only.
Reflash ==
  /\ \/ Call("r_unlock", "Unlock", "r_work", "exit")
     \/ \E r \in FlashRequests : Call("r_work", r, "r_lock", "exit")
     \/ \E r \in FlashRequests : Call("r_flash", r, "exit", "exit")
     \/ Call("r_lock", "Lock", "exit", "exit")
  /\ UNCHANGED <<quiet, unlocked>>

\* FLASH_INFO is answered, and flash_write cannot do with the write_ideal_size
\* the EC reports: it faults, or goes on for ever in steps of 0 bytes.
WriteSize ==
  /\ pc \in {"r_work", "r_flash"}
  /\ packet = NoPacket
  /\ pc' \in {"r_fault", "r_endless"}
  /\ UNCHANGED <<quiet, unlocked, lost, ec>>

\* The EC need not refuse an empty write.
EmptyWrites ==
  /\ Call("r_endless", "FlashWrite", "r_endless", "exit")
  /\ UNCHANGED <<quiet, unlocked>>

\* A machine that hangs is switched off and on, the EC with it or not.
PowerCycle ==
  /\ pc \in {"r_fault", "r_endless"}
  /\ Boot
  /\ spi' \in {spi, FALSE} /\ packet' \in {packet, NoPacket} /\ before' = spi'

Console ==
  /\ \/ Ok("c_snapshot", "ConsoleSnapshot", "c_read") /\ Con!Snapshot
     \/ Bad("c_snapshot", "ConsoleSnapshot", "exit") /\ Con!Fail
     \/ Con!Answer /\ Ok("c_read", "ConsoleRead", IF cpc' = "read" THEN "c_read" ELSE "exit")
     \/ Bad("c_read", "ConsoleRead", "exit") /\ Con!Fail
  /\ UNCHANGED <<life, kind, unlocked>>

-----------------------------------------------------------------------------

\* The entry point returns.
Return ==
  /\ pc = "exit"
  /\ End
  /\ pc' = "off"
  /\ ConsoleOff
  /\ UNCHANGED <<kind, unlocked, lost, ec>>

Destructor ==
  /\ (\E l \in Libs : Destruct(l)) \/ Unload
  /\ UNCHANGED <<run, ec, con>>

Image ==
  \/ Constructor \/ EntryPoint \/ Locate \/ TestProbes \/ DriverStays \/ AskOnce
  \/ Reboot \/ AskPanic \/ VersionBuildInfo \/ FlashreadOpen \/ Unlock \/ VersionRead
  \/ FlashreadRead \/ FlashreadFile \/ LockAgain \/ ReflashBegin \/ Reflash
  \/ WriteSize \/ Console \/ Return \/ Destructor

Rest ==
  /\ stage = "idle" /\ image = MaxImages
  /\ UNCHANGED vars

Next ==
  \/ Start \/ Image \/ EmptyWrites \/ PowerCycle \/ EcTakes \/ EcRuns \/ EcReboots
  \/ Rest

\* An image that has been started runs on; the EC need not do anything, refuse
\* an empty write included, and nobody need switch the machine off.
Spec == Init /\ [][Next]_vars /\ WF_vars(Image)

-----------------------------------------------------------------------------
(* Properties *)

\* The type invariant.
TypeOK ==
  /\ LifecycleTypeOK
  /\ kind \in Programs
  /\ pc \in {"off", "start", "ask", "p_ask", "p_again", "v_build", "v_unlock", "v_version",
             "f_open", "f_unlock", "f_read", "f_file", "out", "r_check", "r_unlock",
             "r_work", "r_flash", "r_endless", "r_fault", "r_lock", "c_snapshot", "c_read",
             "exit"}
  /\ pc # "off" <=> stage = "run"
  /\ unlocked \in BOOLEAN /\ lost \in BOOLEAN
  /\ spi \in BOOLEAN /\ before \in BOOLEAN
  /\ \/ packet = NoPacket
     \/ packet \in [request : Requests, code : Nat, at : {"buffer", "taken"}]

\* Whoever finds the protocol finds one that works: it points into an image
\* that is loaded, to the library for this machine's EC, and there is one.
ProtocolSound ==
  /\ \A p \in db : p.image \in Loaded /\ p.lib = machine
  /\ \A p, q \in db : p = q

\* No image is without the protocol on a machine with an EC, whichever images
\* came and went before it, unless its own installation failed; and none loses
\* the protocol it has installed, a driver that stays least of all.
Served ==
  /\ stage = "run" /\ machine # "none" /\ ~missed => db # {}
  /\ handles \subseteq db

\* The EC runs no packet but as it was sent: one that the next image's
\* constructor writes over before the EC has taken it fails its checksum.
RunsAsSent == packet # NoPacket /\ Valid(packet) => packet.code = Code[packet.request]

\* "It's necessary to unlock SPI to read the RW version": when the version or
\* the flash is read the SPI flash is unlocked, whatever earlier images have
\* left in flight.
ReadsUnlocked == pc \in {"v_version", "f_read"} => spi

\* ectool version and flashread leave the SPI flash locked, or as they found
\* it, on every path on which their own notifications succeed.
Relocked ==
  stage = "destruct" /\ kind \in {"version", "flashread"} /\ ~lost => (spi => before)

ConsoleComplete == Con!ConsoleComplete

\* Every image comes to its end, or stays as a driver, however the EC answers -
\* except a reflash that faults, or to which the EC reports a write_ideal_size
\* above G_EC_MAX_REQUEST and then acknowledges empty writes for ever.
EveryImageEnds ==
  stage # "idle" ~> stage = "idle" \/ pc \in {"r_fault", "r_endless"}
=============================================================================
