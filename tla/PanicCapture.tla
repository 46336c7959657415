---------------------------- MODULE PanicCapture ----------------------------
(***************************************************************************)
(* FrameworkPanicCaptureDriver: at every boot, ask the EC for the record   *)
(* of its last panic and keep a new one in the variable SavedPanic.        *)
(*                                                                         *)
(* The EC marks a panic as reported when it answers EC_CMD_GET_PANIC_INFO  *)
(* (the flag OLD_HOSTCMD, as the driver's comment reads it).  The driver   *)
(* asks twice.  The EC may panic or forget its record, and the machine may *)
(* lose power, between any two steps; the operating system may ask between *)
(* two boots.                                                              *)
(*                                                                         *)
(* What is stored is sizeof(struct SavedPanicInfo) + PanicSize bytes, and  *)
(* PanicSize is what the second question returned: a record if it returned *)
(* one, and the header or less of it if not.                               *)
(***************************************************************************)
EXTENDS Integers

CONSTANTS
  MaxBoots,     \* bound on the boots of one behaviour
  MaxPanics     \* bound on the panics of one behaviour

ASSUME PanicAssumption == MaxBoots \in Nat /\ MaxPanics \in Nat

Panics == 1 .. MaxPanics

VARIABLES
  pc,        \* where the driver is; "off" when it is not running
  boots,     \* boots so far
  panics,    \* panics of the EC so far, which number them
  panic,     \* the EC's record of its last panic (0: none): reported or not
  buf,       \* what Saved + 1 holds: a panic record (0: zeroes) and its flag
  size,      \* PanicSize: of a whole record, zero, the library's error code (at
             \* most 20 below zero) or the EC's (more than 1000 below)
  saved,     \* whose record the variable SavedPanic holds (0: no byte of any)
  exit,      \* how the latest boot's run ended
  told,      \* ghost: panics reported to anyone before this run began
  saves      \* ghost: how often each panic's record was saved

vars == <<pc, boots, panics, panic, buf, size, saved, exit, told, saves>>

Blank == [id |-> 0, old |-> FALSE]

Init ==
  /\ pc = "off"
  /\ boots = 0
  /\ panics = 0
  /\ panic = [id |-> 0, reported |-> FALSE]
  /\ buf = Blank
  /\ size = "whole"
  /\ saved = 0
  /\ exit = "none"
  /\ told = {}
  /\ saves = [p \in Panics |-> 0]

-----------------------------------------------------------------------------
(* The driver *)

Boot ==
  /\ pc = "off"
  /\ boots < MaxBoots
  /\ boots' = boots + 1
  /\ pc' = "setup"
  /\ buf' = Blank
  /\ exit' = "none"
  /\ told' = IF panic.reported THEN told \union {panic.id} ELSE told
  /\ UNCHANGED <<panics, panic, size, saved, saves>>

Leave(why) == pc' = "off" /\ exit' = why

\* Locate the protocol, tell the time, allocate and clear the record, ask the
\* EC for its version: each may fail.
Setup ==
  /\ pc = "setup"
  /\ \/ Leave("error")
     \/ pc' = "read1" /\ UNCHANGED exit
  /\ UNCHANGED <<boots, panics, panic, buf, size, saved, told, saves>>

\* The EC is asked and answers with its record, which counts as reported.
Answered ==
  /\ panic.id # 0
  /\ buf' = [id |-> panic.id, old |-> panic.reported]
  /\ panic' = [panic EXCEPT !.reported = TRUE]

\* The call fails, before or after the EC has run it.
Failed ==
  /\ \/ UNCHANGED panic
     \/ panic.id # 0 /\ panic' = [panic EXCEPT !.reported = TRUE]
  /\ UNCHANGED buf

\* An empty answer is saved like any other.
Read1_emptyToo ==
  /\ pc = "read1"
  /\ \/ Answered /\ pc' = "read2" /\ UNCHANGED exit
     \/ panic.id = 0 /\ pc' = "read2" /\ UNCHANGED <<exit, panic, buf>>
     \/ Failed /\ Leave("error")
  /\ UNCHANGED <<boots, panics, size, saved, told, saves>>

\* The first EC_CMD_GET_PANIC_INFO, whose result decides.
Read1 ==
  /\ pc = "read1"
  /\ \/ Answered /\ pc' = "read2" /\ UNCHANGED exit
     \/ panic.id = 0 /\ Leave("no_panic") /\ UNCHANGED <<panic, buf>>
     \/ Failed /\ Leave("error")
  /\ UNCHANGED <<boots, panics, size, saved, told, saves>>

\* The second, which sets PanicSize again and is not checked.
Read2 ==
  /\ pc = "read2"
  /\ \/ Answered /\ size' = "whole"
     \/ panic.id = 0 /\ size' = "zero" /\ UNCHANGED <<panic, buf>>
     \/ Failed /\ size' \in {"library_error", "ec_error"}
  /\ pc' = "check"
  /\ UNCHANGED <<boots, panics, saved, exit, told, saves>>

\* Whatever the flag says, the record is saved.
Check_noFlag ==
  /\ pc = "check"
  /\ pc' = "save"
  /\ UNCHANGED <<boots, panics, panic, buf, size, saved, exit, told, saves>>

\* The driver asks until it gets an answer.
Check_again ==
  /\ pc = "check"
  /\ pc' = IF buf.old THEN "read2" ELSE "save"
  /\ UNCHANGED <<boots, panics, panic, buf, size, saved, exit, told, saves>>

\* A panic that was reported before is left alone.
Check ==
  /\ pc = "check"
  /\ IF buf.old THEN Leave("old") ELSE pc' = "save" /\ UNCHANGED exit
  /\ UNCHANGED <<boots, panics, panic, buf, size, saved, told, saves>>

\* SetVariable with what PanicSize makes of FinalSize: the record, the header
\* alone, the beginning of the header, or more bytes than there are, which it
\* refuses.  It may fail in any case.
Save ==
  /\ pc = "save"
  /\ \/ /\ size = "whole"
        /\ saved' = buf.id
        /\ saves' = [p \in Panics |-> IF p = buf.id THEN saves[p] + 1 ELSE saves[p]]
        /\ Leave("saved")
     \/ /\ size \in {"zero", "library_error"}
        /\ saved' = 0
        /\ Leave("saved")
        /\ UNCHANGED saves
     \/ /\ Leave("error")
        /\ UNCHANGED <<saved, saves>>
  /\ UNCHANGED <<boots, panics, panic, buf, size, told>>

Driver == Setup \/ Read1 \/ Read2 \/ Check \/ Save

-----------------------------------------------------------------------------
(* Everything else *)

\* The EC panics; the record of an older panic is lost.
EcPanics ==
  /\ panics < MaxPanics
  /\ panics' = panics + 1
  /\ panic' = [id |-> panics + 1, reported |-> FALSE]
  /\ UNCHANGED <<pc, boots, buf, size, saved, exit, told, saves>>

\* The EC loses its record, as it does with its power.
EcForgets ==
  /\ panic.id # 0
  /\ panic' = [id |-> 0, reported |-> FALSE]
  /\ UNCHANGED <<pc, boots, panics, buf, size, saved, exit, told, saves>>

\* Someone else asks for the record.
OthersAsk ==
  /\ pc = "off"
  /\ panic.id # 0
  /\ panic' = [panic EXCEPT !.reported = TRUE]
  /\ UNCHANGED <<pc, boots, panics, buf, size, saved, exit, told, saves>>

PowerLoss ==
  /\ pc # "off"
  /\ Leave("power_loss")
  /\ UNCHANGED <<boots, panics, panic, buf, size, saved, told, saves>>

Rest ==
  /\ pc = "off"
  /\ boots = MaxBoots
  /\ UNCHANGED vars

Next == Boot \/ Driver \/ EcPanics \/ EcForgets \/ OthersAsk \/ PowerLoss \/ Rest

\* The driver is straight-line code whose calls all return (HostCommand).
Spec == Init /\ [][Next]_vars /\ WF_vars(Driver)

-----------------------------------------------------------------------------
(* Properties *)

\* The type invariant.
TypeOK ==
  /\ pc \in {"off", "setup", "read1", "read2", "check", "save"}
  /\ boots \in 0 .. MaxBoots
  /\ panics \in 0 .. MaxPanics
  /\ panic \in [id : 0 .. MaxPanics, reported : BOOLEAN]
  /\ buf \in [id : 0 .. MaxPanics, old : BOOLEAN]
  /\ size \in {"whole", "zero", "library_error", "ec_error"}
  /\ saved \in 0 .. MaxPanics
  /\ exit \in {"none", "error", "no_panic", "old", "saved", "power_loss"}
  /\ told \subseteq Panics
  /\ saves \in [Panics -> Nat]
  /\ pc \in {"read2", "check", "save"} => buf.id # 0

\* No panic is saved twice, by however many boots: saving it again would give
\* an old panic the date of a later boot and the version of a later firmware.
SavedOnce == \A p \in Panics : saves[p] <= 1

\* The saved panic gives way only in a boot that has read a later one, though
\* the EC may have forgotten it, panicked again or failed since: to that one,
\* or, when the second question did not return a record, to a header without
\* one.  The first question is all that keeps to "There was no panic, so we
\* should leave the existing one alone"; a bare header loses both panics.
NeverBack ==
  [][saved' # saved =>
       /\ buf.id > saved
       /\ saved' = IF size = "whole" THEN buf.id ELSE 0]_vars

\* What the driver says of itself when it leaves a panic alone: "This panic
\* was already reported by the host command interface, so it is not new."
OldIsOld == exit = "old" => buf.id \in told

\* The driver ends, at every boot.
EveryBootEnds == pc # "off" ~> pc = "off"
=============================================================================
