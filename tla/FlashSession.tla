---------------------------- MODULE FlashSession ----------------------------
(***************************************************************************)
(* What "ectool reflash" promises about the EC's flash chip, with nothing  *)
(* said of how: no boards, options, commands or retries.  An invocation    *)
(* either refuses, having touched nothing; or it chooses regions while the *)
(* chip is still as it was, and works on them one after the other, from    *)
(* the highest down, touching no cell but those of the region at hand, and *)
(* leaving a region only when it holds the image for good - or when the EC *)
(* gave part of it only to the check: then it is on record as unread, and  *)
(* all that is known is that it was written.  It reports success only with *)
(* no region left.  It may fail at any time, and say so; and it may crash  *)
(* over a region at hand, and say nothing.  Cells an earlier failure has   *)
(* doomed may change once more at any time.                                *)
(*                                                                         *)
(* Reflash is shown to implement this specification.                       *)
(***************************************************************************)
EXTENDS Integers, Sequences

CONSTANTS
  Cells,      \* the pieces of the flash chip
  Contents    \* what a cell may hold; among them "image" and, for a cell written but
              \* with what is not known, "junk"

VARIABLES
  flash,      \* contents of the chip
  begun,      \* contents of the chip when the invocation began
  busy,       \* an invocation is under way
  regions,    \* the flash map chosen: a sequence of sets of cells
  left,       \* indices of the regions the invocation is not through with
  unread,     \* indices of the regions the check has seen only in part
  doomed,     \* cells an erase that was given up may still change
  verdict     \* what the last invocation said: "none" while it is under way

vars == <<flash, begun, busy, regions, left, unread, doomed, verdict>>

Init ==
  /\ flash = [c \in Cells |-> "old"]
  /\ begun = flash
  /\ busy = FALSE
  /\ regions = <<>>
  /\ left = {}
  /\ unread = {}
  /\ doomed = {}
  /\ verdict = "none"

\* The cells of the region at hand: the highest that is left.
AtHand == UNION {regions[i] : i \in {k \in left : \A j \in left : j <= k}}

End(v) ==
  /\ busy' = FALSE
  /\ verdict' = v
  /\ regions' = <<>>
  /\ left' = {}

Start ==
  /\ ~busy
  /\ begun' = flash
  /\ regions' = <<>>
  /\ left' = {}
  /\ unread' = {}
  /\ \/ busy' = TRUE /\ verdict' = "none"
     \/ busy' = FALSE /\ verdict' = "refused"
  /\ UNCHANGED <<flash, doomed>>

\* The plan is made, and changed, only while the chip is as it was found.
Choose ==
  /\ busy
  /\ flash = begun
  /\ regions' \in Seq(SUBSET Cells)
  /\ left' \subseteq DOMAIN regions'
  /\ UNCHANGED <<flash, begun, busy, unread, doomed, verdict>>

Work ==
  /\ busy
  /\ flash' \in [Cells -> Contents]
  /\ \A c \in Cells \ AtHand : flash'[c] = flash[c]
  /\ UNCHANGED <<begun, busy, regions, left, unread, doomed, verdict>>

\* A region is finished only if no erase can still hit the chip.
Finish ==
  /\ busy
  /\ \E i \in left :
       /\ \A j \in left : j <= i
       /\ left' = left \ {i}
       /\ \/ /\ \A c \in regions[i] : flash[c] = "image"
             /\ UNCHANGED unread
          \/ /\ \A c \in regions[i] : flash[c] \in {"image", "junk"}
             /\ unread' = unread \union {i}
  /\ doomed = {}
  /\ UNCHANGED <<flash, begun, busy, regions, doomed, verdict>>

Succeed ==
  /\ busy
  /\ regions # <<>>
  /\ left = {}
  /\ End("success")
  /\ UNCHANGED <<flash, begun, unread, doomed>>

Refuse ==
  /\ busy
  /\ flash = begun
  /\ End("refused")
  /\ UNCHANGED <<flash, begun, unread, doomed>>

\* A failure may leave an erase of the region at hand behind.
Fail ==
  /\ busy
  /\ doomed' \in {doomed, doomed \union AtHand}
  /\ End("failed")
  /\ UNCHANGED <<flash, begun, unread>>

\* An exception of the processor: the region at hand is left as it is.
Crash ==
  /\ busy
  /\ left # {}
  /\ End("crash")
  /\ UNCHANGED <<flash, begun, unread, doomed>>

\* Such an erase ends: not the doing of the invocation that is under way.
LateErase ==
  /\ flash' \in [Cells -> Contents]
  /\ \A c \in Cells \ doomed : flash'[c] = flash[c]
  /\ begun' = [c \in Cells |-> IF c \in doomed THEN flash'[c] ELSE begun[c]]
  /\ doomed' = {}
  /\ UNCHANGED <<busy, regions, left, unread, verdict>>

Next ==
  \/ Start \/ Choose \/ Work \/ Finish \/ Succeed \/ Refuse \/ Fail \/ Crash
  \/ LateErase

Spec == Init /\ [][Next]_vars
=============================================================================
