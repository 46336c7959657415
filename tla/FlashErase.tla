----------------------------- MODULE FlashErase -----------------------------
(***************************************************************************)
(* flash_erase and flash_erase_async (Application/ECTool/Flash.c): erase a *)
(* range of the EC's flash, by whichever erase command the EC has, on a    *)
(* bus the EC may or may not serve while it erases.                        *)
(*                                                                         *)
(* Time matters here and is counted in units of half a second, which pass  *)
(* in the host's pauses and waits only; the 100 ms before a HELLO round    *)
(* down to none, so that the count never exceeds the time gone by.  A      *)
(* SendCommand is its two waits (ECWait) with the EC in between, which     *)
(* takes the command when it gets to it - perhaps after the host has given *)
(* up, perhaps never (HostCommand).                                        *)
(***************************************************************************)
EXTENDS Integers

CONSTANTS
  WaitTime,     \* ECWaitForReady's second, in units
  HelloTries,   \* 20, "asyncTries" of flash_erase
  HelloPause,   \* gBS->Stall(100000)
  AsyncTries,   \* 4, "asyncTries" of flash_erase_async
  AsyncPause,   \* gBS->Stall(500000)
  EraseTimes    \* how long an erase may take

ASSUME EraseAssumption ==
  /\ {WaitTime, HelloTries, AsyncTries, AsyncPause} \subseteq Nat \ {0}
  /\ HelloPause \in Nat
  /\ EraseTimes \subseteq Nat \ {0}

\* 20 seconds: what both comments on asyncTries say the tries amount to.
TwentySeconds == 40

\* The tries of HELLO amount to that if each of them waits for the bus in vain.
ASSUME PatienceAssumption == HelloTries * WaitTime >= TwentySeconds

VARIABLES
  hasV1,     \* the EC knows the asynchronous erase; never changes
  deaf,      \* the EC takes no command while it erases; never changes
  call,      \* the call flash_erase is in, or "done"
  phase,     \* "pause" before it, "wait" for a free bus, "answer"
  spent,     \* units spent in this wait
  tries,     \* asyncTries
  rv,        \* what the latest call returned, in the end flash_erase itself
  elapsed,   \* ghost: units since flash_erase began
  verdict,   \* ghost: what the erase command itself returned
  bus,       \* "free", a command not yet taken, or a v0 erase being "served"
  answer,    \* the EC's latest answer
  left,      \* units the EC is still going to erase, 0 when it is not
  mine,      \* the erase the EC is at, or did last, is the one asked for
  good       \* its result: what FLASH_ERASE_GET_RESULT tells

ecKind == <<hasV1, deaf>>
ghosts == <<elapsed, verdict>>
host == <<call, phase, spent, tries, rv>>
ec == <<bus, answer, left, mine, good>>
vars == <<ecKind, host, ghosts, ec>>

\* An erase that an earlier invocation gave up may still be under way.
Init ==
  /\ hasV1 \in BOOLEAN /\ deaf \in BOOLEAN
  /\ call = "probe" /\ phase = "wait" /\ spent = 0 /\ tries = 0 /\ rv = "none"
  /\ elapsed = 0 /\ verdict = "none"
  /\ bus = "free" /\ answer = "none"
  /\ left \in EraseTimes \union {0}
  /\ mine = FALSE
  /\ good \in BOOLEAN

-----------------------------------------------------------------------------
(* The host *)

\* d units go by, and with them the erase.  (elapsed is counted no further
\* than the properties look.)
Pass(d) ==
  /\ elapsed' = IF elapsed + d < TwentySeconds THEN elapsed + d ELSE TwentySeconds
  /\ left' = IF left > d THEN left - d ELSE 0

\* Stall before a HELLO or a FLASH_ERASE_GET_RESULT.
Pause ==
  /\ phase = "pause"
  /\ Pass(IF call = "hello" THEN HelloPause ELSE AsyncPause)
  /\ phase' = "wait"
  /\ UNCHANGED <<ecKind, call, spent, tries, rv, verdict, bus, answer, mine, good>>

\* A turn of either wait of SendCommand.
Wait ==
  /\ phase \in {"wait", "answer"}
  /\ bus # "free"
  /\ spent < WaitTime
  /\ spent' = spent + 1
  /\ Pass(1)
  /\ UNCHANGED <<ecKind, call, phase, tries, rv, verdict, bus, answer, mine, good>>

\* The first wait left out.
Send_unwaited ==
  /\ phase = "wait"
  /\ bus' = call
  /\ phase' = "answer"
  /\ spent' = 0
  /\ UNCHANGED <<ecKind, call, tries, rv, ghosts, answer, left, mine, good>>

\* The first wait is over: the command is written.
Send ==
  /\ phase = "wait"
  /\ bus = "free"
  /\ bus' = call
  /\ phase' = "answer"
  /\ spent' = 0
  /\ UNCHANGED <<ecKind, call, tries, rv, ghosts, answer, left, mine, good>>

\* SendCommand returns r: the EC's answer, or -EC_RES_TIMEOUT from a wait.
Result(r) ==
  \/ phase = "answer" /\ bus = "free" /\ r = answer
  \/ phase \in {"wait", "answer"} /\ bus # "free" /\ spent = WaitTime /\ r = "timeout"

Goto(c, ph) == call' = c /\ phase' = ph /\ spent' = 0

\* "if(rv < 0)": a probe that fails for whatever reason means version 0.
ProbeReturns(r) ==
  /\ call = "probe"
  /\ Goto(IF r = "v1" THEN "erase1" ELSE "erase0", "wait")
  /\ UNCHANGED <<tries, verdict>>

\* The tries of the other loop.
Erase0Returns_fewTries(r) ==
  /\ call = "erase0"
  /\ verdict' = r
  /\ tries' = AsyncTries
  /\ IF r = "ok" THEN Goto("done", "wait") ELSE Goto("hello", "pause")

\* The result of a synchronous erase is taken for success, or for a reason to
\* say HELLO.
Erase0Returns(r) ==
  /\ call = "erase0"
  /\ verdict' = r
  /\ tries' = HelloTries
  /\ IF r = "ok" THEN Goto("done", "wait") ELSE Goto("hello", "pause")

\* An erase that is queued is taken for one that is done.
Erase1Returns_trusted(r) ==
  /\ call = "erase1"
  /\ verdict' = r
  /\ tries' = AsyncTries
  /\ Goto("done", "wait")

\* A queued erase is asked after.
Erase1Returns(r) ==
  /\ call = "erase1"
  /\ verdict' = r
  /\ tries' = AsyncTries
  /\ IF r = "ok" THEN Goto("poll", "pause") ELSE Goto("done", "wait")

\* One try too many.
Again_oneMore(c, r) ==
  /\ call = c
  /\ tries' = tries - 1
  /\ IF r # "ok" /\ tries' >= 0 THEN Goto(c, "pause") ELSE Goto("done", "wait")
  /\ UNCHANGED verdict

\* The tries not counted.
Again_uncounted(c, r) ==
  /\ call = c
  /\ IF r # "ok" THEN Goto(c, "pause") ELSE Goto("done", "wait")
  /\ UNCHANGED <<tries, verdict>>

\* "while(rv < 0 && asyncTries)", at the foot of both loops.
Again(c, r) ==
  /\ call = c
  /\ tries' = tries - 1
  /\ IF r # "ok" /\ tries' > 0 THEN Goto(c, "pause") ELSE Goto("done", "wait")
  /\ UNCHANGED verdict

Return ==
  \E r \in {"ok", "v1", "error", "busy", "timeout"} :
    /\ Result(r)
    /\ rv' = r
    /\ \/ ProbeReturns(r)
       \/ Erase0Returns(r)
       \/ Erase1Returns(r)
       \/ Again("hello", r)
       \/ Again("poll", r)
    /\ UNCHANGED <<ecKind, elapsed, ec>>

Host == call # "done" /\ (Pause \/ Wait \/ Send \/ Return)

-----------------------------------------------------------------------------
(* The EC, as far as the code relies on it: it may take a command late or   *)
(* never.                                                                    *)

Takes(c) == bus = c /\ ~(deaf /\ left > 0)

Answers(r) ==
  /\ answer' = r
  /\ bus' = "free"
  /\ UNCHANGED <<left, mine, good>>

\* A command that leaves the flash alone: done, or not.
TakeQuery ==
  \/ Takes("probe") /\ Answers(IF hasV1 THEN "v1" ELSE "ok")
  \/ Takes("hello") /\ Answers("ok")
  \/ \E c \in {"probe", "hello", "poll", "erase0", "erase1"} : Takes(c) /\ Answers("error")

\* FLASH_ERASE_GET_RESULT: "ask for last erase result".
TakePoll ==
  /\ Takes("poll")
  /\ Answers(IF left > 0 THEN "busy" ELSE IF good THEN "ok" ELSE "error")

\* "an existing erase operation is in progress".
TakeEraseBusy ==
  /\ Takes("erase0") \/ Takes("erase1")
  /\ left > 0
  /\ Answers("busy")

\* An erase is queued (v1) or served (v0: answered when it is over).
TakeErase ==
  /\ Takes("erase0") \/ Takes("erase1")
  /\ left = 0
  /\ left' \in EraseTimes
  /\ mine' = TRUE
  /\ good' \in BOOLEAN
  /\ IF bus = "erase1"
       THEN bus' = "free" /\ answer' = "ok"
       ELSE bus' = "served" /\ UNCHANGED answer

EraseServed ==
  /\ bus = "served"
  /\ left = 0
  /\ Answers(IF good THEN "ok" ELSE "error")

Ec ==
  /\ TakeQuery \/ TakePoll \/ TakeEraseBusy \/ TakeErase \/ EraseServed
  /\ UNCHANGED <<ecKind, host, ghosts>>

Over ==
  /\ call = "done"
  /\ UNCHANGED vars

Next == Host \/ Ec \/ Over

\* flash_erase is straight-line code; the EC promises nothing.
Spec == Init /\ [][Next]_vars /\ WF_vars(Host)

-----------------------------------------------------------------------------
(* Properties *)

\* The type invariant.
TypeOK ==
  /\ hasV1 \in BOOLEAN /\ deaf \in BOOLEAN
  /\ call \in {"probe", "erase0", "hello", "erase1", "poll", "done"}
  /\ phase \in {"pause", "wait", "answer"}
  /\ spent \in 0 .. WaitTime
  /\ tries \in 0 .. HelloTries \union 0 .. AsyncTries
  /\ rv \in {"none", "ok", "v1", "error", "busy", "timeout"}
  /\ elapsed \in 0 .. TwentySeconds
  /\ verdict \in {"none", "ok", "v1", "error", "busy", "timeout"}
  /\ bus \in {"free", "probe", "erase0", "hello", "erase1", "poll", "served"}
  /\ answer \in {"none", "ok", "v1", "error", "busy"}
  /\ left \in Nat
  /\ mine \in BOOLEAN /\ good \in BOOLEAN

\* flash_erase says OK only when the erase it asked for, if the EC took it, is
\* over: the write that follows does not run into it, not even when a HELLO
\* is all the host has to go by.  (Reflash relies on it.)
OkIsOver == call = "done" /\ rv = "ok" /\ mine => left = 0

\* If the EC accepted the erase in so many words, OK means that it erased the
\* range, and did it well.
OkIsErased == call = "done" /\ rv = "ok" /\ verdict = "ok" => mine /\ good

\* A synchronous erase that the host gives up on has had the twenty seconds
\* of the comment.
SyncPatience ==
  call = "done" /\ rv # "ok" /\ bus = "served" => elapsed >= TwentySeconds

\* The comment on the loop of HELLOs: it is for an erase that times out.
HelloAfterTimeout == call = "hello" => verdict = "timeout"

\* flash_erase returns, whatever the EC does.
EraseReturns == <>(call = "done")
=============================================================================
