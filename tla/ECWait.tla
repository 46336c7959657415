------------------------------- MODULE ECWait -------------------------------
(***************************************************************************)
(* ECWaitForReady (Library/MicrochipCrosECLib/EC.c, the same text in       *)
(* Library/AzaleaCrosECLib/EC.c): wait, with a growing pause, until the    *)
(* EC's status register shows neither busy bit, or give up.                *)
(*                                                                         *)
(* One action is one turn of the for loop.  The register is read after the *)
(* pause, so what it shows is a fresh choice at every turn.  CrosECLpc     *)
(* waits this way before and after a request.                              *)
(***************************************************************************)
EXTENDS Integers

CONSTANTS
  Timeout,       \* timeoutUsec, 1000000 at both call sites
  FirstDelay,    \* 5
  QuickUntil,    \* 20: no back-off while i is at most this
  MaxDelay       \* 10000

ASSUME WaitAssumption ==
  /\ Timeout \in Nat \ {0}
  /\ FirstDelay \in Nat \ {0}
  /\ QuickUntil \in Nat
  /\ MaxDelay \in Nat
  /\ FirstDelay <= MaxDelay

VARIABLES
  elapsed,   \* the loop variable i
  delay,     \* the pause of the next turn, in microseconds
  stalled,   \* ghost: the microseconds really spent in gBS->Stall
  outcome    \* "waiting", "ready" (return 0) or "timeout" (return -1)

waitVars == <<elapsed, delay, stalled, outcome>>

Lesser(a, b) == IF a <= b THEN a ELSE b

WaitInit ==
  /\ elapsed = 0
  /\ delay = FirstDelay
  /\ stalled = 0
  /\ outcome = "waiting"

\* A new call of ECWaitForReady.
StartWait ==
  /\ elapsed' = 0
  /\ delay' = FirstDelay
  /\ stalled' = 0
  /\ outcome' = "waiting"

\* MAX for MIN: the whole of what is left, at once.
Pause_longest == IF delay <= Timeout - elapsed THEN Timeout - elapsed ELSE delay

\* MIN(delay, timeoutUsec - i): the pause never runs past the deadline.
Pause == Lesser(delay, Timeout - elapsed)

\* if(i > 20) delay = MIN(delay * 2, 10000)
BackOff == IF elapsed > QuickUntil THEN Lesser(delay * 2, MaxDelay) ELSE delay

\* The register is clear after the pause.
Ready ==
  /\ outcome = "waiting"
  /\ elapsed < Timeout
  /\ stalled' = stalled + Pause
  /\ outcome' = "ready"
  /\ UNCHANGED <<elapsed, delay>>

\* The register shows busy: back off, then "i += delay" with the NEW delay.
Busy ==
  /\ outcome = "waiting"
  /\ elapsed < Timeout
  /\ stalled' = stalled + Pause
  /\ delay' = BackOff
  /\ elapsed' = elapsed + delay'
  /\ UNCHANGED outcome

\* A wait that starts over instead of giving up.
GiveUp_startsOver ==
  /\ outcome = "waiting"
  /\ elapsed >= Timeout
  /\ elapsed' = 0
  /\ delay' = FirstDelay
  /\ stalled' = 0
  /\ UNCHANGED outcome

\* The loop condition fails.
GiveUp ==
  /\ outcome = "waiting"
  /\ elapsed >= Timeout
  /\ outcome' = "timeout"
  /\ UNCHANGED <<elapsed, delay, stalled>>

\* A turn of the loop, or its end.
Turn == Ready \/ Busy \/ GiveUp

-----------------------------------------------------------------------------
(* Properties *)

\* The type invariant, with the ceiling of the back-off.
WaitTypeOK ==
  /\ elapsed \in Nat
  /\ delay \in FirstDelay .. MaxDelay
  /\ stalled \in Nat
  /\ outcome \in {"waiting", "ready", "timeout"}

\* The wait never holds the caller for longer than the timeout it was given,
\* although i advances by the next pause and not by the one just made.  A wait
\* that gives up has been patient: it falls short of its timeout by less than
\* the longest pause (i counts the next pause, so that the loop gives up one
\* pause early).
WaitBounds ==
  /\ stalled <= Timeout
  /\ outcome = "timeout" => stalled >= Timeout - MaxDelay + FirstDelay
=============================================================================
