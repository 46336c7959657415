-------------------------- MODULE FlashEraseProofs --------------------------
(***************************************************************************)
(* Proofs about FlashErase, for all pauses, tries and erase times.         *)
(*                                                                         *)
(* The argument.  With the synchronous command an erase that the EC has    *)
(* taken holds the bus until it is over, so a HELLO that gets an answer    *)
(* proves it over; with the asynchronous one the EC is asked for nothing   *)
(* but results once it has taken the erase, so the result it tells is that *)
(* of this erase.  And when flash_erase returns OK the bus is free, so     *)
(* that nothing it left there can start an erase later.                    *)
(* An erase that is still served when the host gives up has held the bus   *)
(* for as long as there were HELLOs, each of which waited in vain.         *)
(*                                                                         *)
(* The end of flash_erase is near when few calls, of tries that only fall, *)
(* and few turns of the call at hand are left (CallsLeft, StepsLeft).      *)
(***************************************************************************)
EXTENDS FlashErase, TLAPS

\* What may be on the bus in which call, and what holds it.
BusInv ==
  /\ call = "probe" => bus \in {"free", "probe"} /\ ~mine
  /\ call = "erase0" => bus \in {"free", "probe", "erase0", "served"}
  /\ call = "hello" => bus \in {"free", "probe", "erase0", "served", "hello"}
  /\ call = "erase1" => bus \in {"free", "erase1"}
  /\ call = "poll" => bus \in {"free", "poll"}
  /\ call \in {"probe", "erase0", "hello"} /\ mine /\ left > 0 => bus = "served"
  /\ bus = "served" => mine
  /\ phase = "answer" => bus \in {"free", call} \/ (bus = "served" /\ call = "erase0")

\* What an answer the host is about to read says.
AnswerInv ==
  phase = "answer" /\ bus = "free" /\ answer = "ok" =>
    /\ call = "erase0" => mine /\ good /\ left = 0
    /\ call = "erase1" => mine
    /\ call = "poll" => good /\ left = 0

\* How the host got where it is.
PathInv ==
  /\ call \in {"probe", "erase0", "erase1"} => verdict = "none"
  /\ call = "hello" => verdict # "ok"
  /\ call = "poll" => verdict = "ok" /\ mine
  /\ call \in {"hello", "poll"} => tries > 0
  /\ phase = "pause" => call \in {"hello", "poll"}

\* What OK means, and that it stays true.
DoneInv ==
  call = "done" /\ rv = "ok" =>
    /\ bus = "free"
    /\ mine => left = 0
    /\ verdict = "ok" => mine /\ good

IInv == TypeOK /\ BusInv /\ AnswerInv /\ PathInv /\ DoneInv

LEMMA InitInv == Init => IInv
<1> SUFFICES ASSUME Init PROVE IInv
  OBVIOUS
<1> USE EraseAssumption DEF Init
<1>1. TypeOK
  <2>1. left \in Nat /\ elapsed \in 0 .. TwentySeconds /\ spent \in 0 .. WaitTime
    BY DEF TwentySeconds
  <2>2. tries \in 0 .. HelloTries \union 0 .. AsyncTries
    OBVIOUS
  <2>3. mine \in BOOLEAN /\ good \in BOOLEAN
    OBVIOUS
  <2> QED
    BY <2>1, <2>2, <2>3 DEF TypeOK
<1>2. BusInv /\ AnswerInv /\ PathInv /\ DoneInv
  BY DEF BusInv, AnswerInv, PathInv, DoneInv
<1> QED
  BY <1>1, <1>2 DEF IInv

LEMMA PauseInv == IInv /\ Pause => IInv'
<1> SUFFICES ASSUME IInv, Pause PROVE IInv'
  OBVIOUS
<1> USE EraseAssumption DEF Pause, Pass, IInv, ecKind
<1>1. TypeOK'
  BY DEF TypeOK, TwentySeconds
<1>2. BusInv' /\ AnswerInv' /\ PathInv' /\ DoneInv'
  BY DEF TypeOK, BusInv, AnswerInv, PathInv, DoneInv
<1> QED
  BY <1>1, <1>2

LEMMA WaitInv == IInv /\ Wait => IInv'
<1> SUFFICES ASSUME IInv, Wait PROVE IInv'
  OBVIOUS
<1> USE EraseAssumption DEF Wait, Pass, IInv, ecKind
<1>1. TypeOK'
  BY DEF TypeOK, TwentySeconds
<1>2. BusInv' /\ AnswerInv' /\ PathInv' /\ DoneInv'
  BY DEF TypeOK, BusInv, AnswerInv, PathInv, DoneInv
<1> QED
  BY <1>1, <1>2

LEMMA SendInv == IInv /\ Send /\ call # "done" => IInv'
<1> SUFFICES ASSUME IInv, Send, call # "done" PROVE IInv'
  OBVIOUS
<1> USE EraseAssumption DEF Send, IInv, ecKind, ghosts
<1>1. TypeOK'
  BY DEF TypeOK
<1>2. BusInv' /\ AnswerInv' /\ PathInv' /\ DoneInv'
  BY DEF TypeOK, BusInv, AnswerInv, PathInv, DoneInv
<1> QED
  BY <1>1, <1>2

LEMMA ReturnInv == IInv /\ Return /\ call # "done" => IInv'
<1> SUFFICES ASSUME IInv, call # "done",
                    NEW r \in {"ok", "v1", "error", "busy", "timeout"},
                    Result(r), rv' = r,
                    \/ ProbeReturns(r) \/ Erase0Returns(r) \/ Erase1Returns(r)
                    \/ Again("hello", r) \/ Again("poll", r),
                    UNCHANGED <<ecKind, elapsed, ec>>
             PROVE  IInv'
  BY DEF Return
<1> USE EraseAssumption DEF Result, Goto, IInv, ecKind, ec
<1>1. CASE ProbeReturns(r)
  <2>1. TypeOK'
    BY <1>1 DEF ProbeReturns, TypeOK
  <2>2. BusInv' /\ AnswerInv' /\ PathInv' /\ DoneInv'
    BY <1>1 DEF ProbeReturns, TypeOK, BusInv, AnswerInv, PathInv, DoneInv
  <2> QED
    BY <2>1, <2>2
<1>2. CASE Erase0Returns(r)
  <2>1. TypeOK'
    BY <1>2 DEF Erase0Returns, TypeOK
  <2>2. BusInv' /\ AnswerInv' /\ PathInv' /\ DoneInv'
    BY <1>2 DEF Erase0Returns, TypeOK, BusInv, AnswerInv, PathInv, DoneInv
  <2> QED
    BY <2>1, <2>2
<1>3. CASE Erase1Returns(r)
  <2>1. TypeOK'
    BY <1>3 DEF Erase1Returns, TypeOK
  <2>2. BusInv' /\ AnswerInv' /\ PathInv' /\ DoneInv'
    BY <1>3 DEF Erase1Returns, TypeOK, BusInv, AnswerInv, PathInv, DoneInv
  <2> QED
    BY <2>1, <2>2
<1>4. CASE Again("hello", r)
  <2>1. TypeOK'
    BY <1>4 DEF Again, TypeOK, PathInv
  <2>2. BusInv' /\ AnswerInv' /\ PathInv' /\ DoneInv'
    BY <1>4 DEF Again, TypeOK, BusInv, AnswerInv, PathInv, DoneInv
  <2> QED
    BY <2>1, <2>2
<1>5. CASE Again("poll", r)
  <2>1. TypeOK'
    BY <1>5 DEF Again, TypeOK, PathInv
  <2>2. BusInv' /\ AnswerInv' /\ PathInv' /\ DoneInv'
    BY <1>5 DEF Again, TypeOK, BusInv, AnswerInv, PathInv, DoneInv
  <2> QED
    BY <2>1, <2>2
<1> QED
  BY <1>1, <1>2, <1>3, <1>4, <1>5

LEMMA EcInv == IInv /\ Ec => IInv'
<1> SUFFICES ASSUME IInv, Ec PROVE IInv'
  OBVIOUS
<1> USE EraseAssumption DEF Ec, Takes, Answers, IInv, ecKind, host, ghosts
<1>1. CASE TakeQuery
  <2>1. TypeOK'
    BY <1>1 DEF TakeQuery, TypeOK
  <2>2. BusInv' /\ AnswerInv' /\ PathInv' /\ DoneInv'
    BY <1>1 DEF TakeQuery, TypeOK, BusInv, AnswerInv, PathInv, DoneInv
  <2> QED
    BY <2>1, <2>2
<1>2. CASE TakePoll
  <2>1. TypeOK'
    BY <1>2 DEF TakePoll, TypeOK
  <2>2. BusInv' /\ AnswerInv' /\ PathInv' /\ DoneInv'
    BY <1>2 DEF TakePoll, TypeOK, BusInv, AnswerInv, PathInv, DoneInv
  <2> QED
    BY <2>1, <2>2
<1>3. CASE TakeEraseBusy
  <2>1. TypeOK'
    BY <1>3 DEF TakeEraseBusy, TypeOK
  <2>2. BusInv' /\ AnswerInv' /\ PathInv' /\ DoneInv'
    BY <1>3 DEF TakeEraseBusy, TypeOK, BusInv, AnswerInv, PathInv, DoneInv
  <2> QED
    BY <2>1, <2>2
<1>4. CASE TakeErase
  <2>1. TypeOK'
    BY <1>4 DEF TakeErase, TypeOK
  <2>2. BusInv' /\ AnswerInv' /\ PathInv' /\ DoneInv'
    BY <1>4 DEF TakeErase, TypeOK, BusInv, AnswerInv, PathInv, DoneInv
  <2> QED
    BY <2>1, <2>2
<1>5. CASE EraseServed
  <2>1. TypeOK'
    BY <1>5 DEF EraseServed, TypeOK
  <2>2. BusInv' /\ AnswerInv' /\ PathInv' /\ DoneInv'
    BY <1>5 DEF EraseServed, TypeOK, BusInv, AnswerInv, PathInv, DoneInv
  <2> QED
    BY <2>1, <2>2
<1> QED
  BY <1>1, <1>2, <1>3, <1>4, <1>5

LEMMA Invariance == Spec => []IInv
<1>1. IInv /\ [Next]_vars => IInv'
  <2>1. ASSUME IInv, UNCHANGED vars PROVE IInv'
    BY <2>1 DEF IInv, TypeOK, BusInv, AnswerInv, PathInv, DoneInv, vars, ecKind, host,
       ghosts, ec
  <2>2. ASSUME IInv, Next PROVE IInv'
    BY <2>1, <2>2, PauseInv, WaitInv, SendInv, ReturnInv, EcInv DEF Next, Host, Over
  <2> QED
    BY <2>1, <2>2
<1> QED
  BY InitInv, <1>1, PTL DEF Spec

-----------------------------------------------------------------------------
(* The time of a synchronous erase *)

\* While its command has not been answered, each HELLO has waited in vain.
PatienceInv ==
  bus \in {"erase0", "served"} =>
    /\ call = "hello" =>
         elapsed >= TwentySeconds \/ elapsed >= WaitTime * (HelloTries - tries) + spent
    /\ call = "done" => elapsed >= TwentySeconds

\* One try less is one wait more.
LEMMA OneTry ==
  ASSUME NEW t \in Nat
  PROVE  /\ WaitTime * (HelloTries - t) \in Int
         /\ WaitTime * (HelloTries - (t - 1)) = WaitTime * (HelloTries - t) + WaitTime
         /\ WaitTime * (HelloTries - 0) >= TwentySeconds
         /\ WaitTime * (HelloTries - HelloTries) = 0
  BY EraseAssumption, PatienceAssumption DEF TwentySeconds

\* Time that passes, in a wait or a pause.
LEMMA PatienceTime == IInv /\ PatienceInv /\ (Pause \/ Wait) => PatienceInv'
<1> SUFFICES ASSUME IInv, PatienceInv, Pause \/ Wait PROVE PatienceInv'
  OBVIOUS
<1>1. tries \in Nat /\ spent \in Nat /\ elapsed \in Nat
  BY EraseAssumption DEF IInv, TypeOK, TwentySeconds
<1> DEFINE w == WaitTime * (HelloTries - tries)
<1>2. w \in Int
  BY <1>1, OneTry
<1>3. bus' = bus /\ call' = call /\ WaitTime * (HelloTries - tries') = w
  BY DEF Pause, Wait
<1>4. elapsed >= TwentySeconds => elapsed' >= TwentySeconds
  BY EraseAssumption, <1>1 DEF Pause, Wait, Pass, TwentySeconds
<1>5. elapsed >= w + spent => elapsed' >= TwentySeconds \/ elapsed' >= w + spent'
  BY EraseAssumption, <1>1, <1>2 DEF Pause, Wait, Pass, TwentySeconds
<1> HIDE DEF w
<1>6. CASE bus \in {"erase0", "served"} /\ call = "hello"
  BY <1>3, <1>4, <1>5, <1>6 DEF PatienceInv, w
<1> QED
  BY <1>3, <1>4, <1>6 DEF PatienceInv

\* A wait in vain at the end of which the next HELLO, or the end, comes.
LEMMA PatienceReturn == IInv /\ PatienceInv /\ Return /\ call # "done" => PatienceInv'
<1> SUFFICES ASSUME IInv, PatienceInv, call # "done", bus \in {"erase0", "served"},
                    NEW r \in {"ok", "v1", "error", "busy", "timeout"},
                    Result(r),
                    \/ ProbeReturns(r) \/ Erase0Returns(r) \/ Erase1Returns(r)
                    \/ Again("hello", r) \/ Again("poll", r),
                    UNCHANGED <<ecKind, elapsed, ec>>
             PROVE  PatienceInv'
  BY DEF Return, PatienceInv, ec
<1>1. r = "timeout" /\ spent = WaitTime /\ bus # "free"
  BY DEF Result
<1>2. tries \in Nat /\ elapsed \in Nat /\ WaitTime \in Nat /\ HelloTries \in Nat
  BY EraseAssumption DEF IInv, TypeOK, TwentySeconds
<1>3. elapsed' = elapsed /\ bus' = bus
  BY DEF ec
<1>4. call \in {"erase0", "hello"}
  BY DEF IInv, BusInv, TypeOK
<1>5. CASE call = "erase0"
  <2>1. call' = "hello" /\ tries' = HelloTries /\ spent' = 0
    BY <1>1, <1>5 DEF ProbeReturns, Erase0Returns, Erase1Returns, Again, Goto
  <2>2. WaitTime * (HelloTries - tries') + spent' = 0
    BY <2>1, <1>2, OneTry
  <2> QED
    BY <2>1, <2>2, <1>2, <1>3 DEF PatienceInv
<1>6. CASE call = "hello"
  <2>1. Again("hello", r)
    BY <1>6 DEF ProbeReturns, Erase0Returns, Erase1Returns, Again
  <2>2. tries > 0
    BY <1>6 DEF IInv, PathInv
  <2>3. /\ tries' = tries - 1 /\ spent' = 0
        /\ call' \in {"hello", "done"}
        /\ call' = "done" => tries' = 0
    BY <1>1, <1>2, <2>1, <2>2 DEF Again, Goto
  <2>4. \/ elapsed >= TwentySeconds
        \/ elapsed >= WaitTime * (HelloTries - tries) + WaitTime
    BY <1>1, <1>6 DEF PatienceInv
  <2>5. WaitTime * (HelloTries - tries) + WaitTime = WaitTime * (HelloTries - tries') + spent'
    <3>1. WaitTime * (HelloTries - tries') \in Int
      BY <1>2, <2>2, <2>3, OneTry
    <3> QED
      BY <1>2, <2>3, <3>1, OneTry
  <2>6. elapsed' >= TwentySeconds \/ elapsed' >= WaitTime * (HelloTries - tries') + spent'
    BY <1>3, <2>4, <2>5
  <2>7. call' = "done" => elapsed' >= TwentySeconds
    <3> SUFFICES ASSUME call' = "done" PROVE elapsed' >= TwentySeconds
      OBVIOUS
    <3>1. WaitTime * (HelloTries - tries') >= TwentySeconds
      BY <2>3, OneTry
    <3>2. WaitTime * (HelloTries - tries') \in Int
      BY <2>3, OneTry
    <3> QED
      BY <1>2, <1>3, <2>3, <2>6, <3>1, <3>2 DEF TwentySeconds
  <2> QED
    BY <2>3, <2>6, <2>7 DEF PatienceInv
<1> QED
  BY <1>4, <1>5, <1>6

\* What else the host and the EC do.
LEMMA PatienceOther ==
  ASSUME IInv, PatienceInv, (Send /\ call # "done") \/ Ec \/ UNCHANGED vars
  PROVE  PatienceInv'
<1>1. CASE Send /\ call # "done"
  BY <1>1 DEF Send, PatienceInv, IInv, TypeOK, ghosts
<1>2. CASE Ec
  BY <1>2 DEF Ec, TakeQuery, TakePoll, TakeEraseBusy, TakeErase, EraseServed, Takes, Answers,
              PatienceInv, host, ghosts
<1>3. CASE UNCHANGED vars
  BY <1>3 DEF vars, host, ghosts, ec, PatienceInv
<1> QED
  BY <1>1, <1>2, <1>3

-----------------------------------------------------------------------------

\* The types of the host's and the EC's variables, and the range of the tries.
THEOREM TypeCorrect == Spec => []TypeOK
<1>1. IInv => TypeOK
  BY DEF IInv
<1> QED
  BY Invariance, <1>1, PTL

\* OK is said only when the erase that was asked for, if the EC took it, is
\* over, by either command and however the EC treats the bus.
THEOREM OkMeansOver == Spec => []OkIsOver
<1>1. IInv => OkIsOver
  BY DEF IInv, DoneInv, OkIsOver
<1> QED
  BY Invariance, <1>1, PTL

\* OK after an erase that the EC accepted means that it was done well.
THEOREM OkMeansErased == Spec => []OkIsErased
<1>1. IInv => OkIsErased
  BY DEF IInv, DoneInv, OkIsErased
<1> QED
  BY Invariance, <1>1, PTL

\* A synchronous erase that the host gives up on has had twenty seconds, if the
\* tries of HELLO and the wait of each of them amount to that.
THEOREM SyncIsPatient == Spec => []SyncPatience
<1>1. Init => PatienceInv
  BY DEF Init, PatienceInv
<1>2. IInv /\ PatienceInv /\ [Next]_vars => PatienceInv'
  BY PatienceTime, PatienceReturn, PatienceOther DEF Next, Host, Over
<1>3. PatienceInv => SyncPatience
  BY DEF PatienceInv, SyncPatience
<1> QED
  BY Invariance, <1>1, <1>2, <1>3, PTL DEF Spec
-----------------------------------------------------------------------------
(* Why flash_erase returns: with every step it comes nearer to its end, and  *)
(* no answer of the EC takes it back or leaves it without a step to take.    *)

\* The calls that may be left, ...
CallsLeft ==
  CASE call = "probe" -> HelloTries + AsyncTries + 2
    [] call = "erase0" -> HelloTries + 1
    [] call = "erase1" -> AsyncTries + 1
    [] call \in {"hello", "poll"} -> tries
    [] call = "done" -> 0

\* ... and the steps that may be left of this one.
StepsLeft ==
  CASE phase = "pause" -> 2 * WaitTime + 3
    [] phase = "wait" -> 2 * WaitTime + 2 - spent
    [] phase = "answer" -> WaitTime + 1 - spent

Nearer ==
  \/ CallsLeft' < CallsLeft
  \/ CallsLeft' = CallsLeft /\ StepsLeft' < StepsLeft

\* There is a step to take.
CanGoOn ==
  \/ phase = "pause"
  \/ phase = "wait" /\ bus = "free"
  \/ phase \in {"wait", "answer"} /\ bus # "free" /\ spent < WaitTime
  \/ \E r \in {"ok", "v1", "error", "busy", "timeout"} : Result(r)

Answered == phase = "answer" /\ bus = "free" => answer # "none"

LEMMA NothingToCome == IInv /\ Answered /\ [Next]_vars => Answered'
<1> SUFFICES ASSUME IInv, Answered, [Next]_vars PROVE Answered'
  OBVIOUS
<1>1. CASE Pause \/ Wait \/ Send \/ Over \/ UNCHANGED vars
  BY <1>1 DEF Pause, Wait, Send, Over, vars, host, ec, Answered, IInv, TypeOK
<1>2. CASE Return
  BY <1>2 DEF Return, ProbeReturns, Erase0Returns, Erase1Returns, Again, Goto, Answered
<1>3. CASE Ec
  BY <1>3 DEF Ec, TakeQuery, TakePoll, TakeEraseBusy, TakeErase, EraseServed, Answers, host, Answered
<1> QED
  BY <1>1, <1>2, <1>3 DEF Next, Host

LEMMA NeverStuck == IInv /\ Answered => CanGoOn
<1> SUFFICES ASSUME IInv, Answered PROVE CanGoOn
  OBVIOUS
<1> DEFINE Replies == {"ok", "v1", "error", "busy", "timeout"}
<1> USE DEF IInv, TypeOK, CanGoOn
<1>1. CASE phase = "answer" /\ bus = "free"
  <2>1. answer \in Replies /\ Result(answer)
    BY <1>1 DEF Answered, Result
  <2> QED
    BY <2>1
<1>2. CASE phase \in {"wait", "answer"} /\ bus # "free" /\ spent = WaitTime
  <2>1. "timeout" \in Replies /\ Result("timeout")
    BY <1>2 DEF Result
  <2> QED
    BY <2>1
<1>3. CASE phase \in {"wait", "answer"} /\ bus # "free" /\ spent # WaitTime
  BY <1>3, EraseAssumption
<1> QED
  BY <1>1, <1>2, <1>3

LEMMA Numbers == IInv => CallsLeft \in Nat /\ StepsLeft \in Nat
<1> SUFFICES ASSUME IInv PROVE CallsLeft \in Nat /\ StepsLeft \in Nat
  OBVIOUS
<1> USE EraseAssumption DEF IInv, TypeOK
<1>1. CallsLeft \in Nat
  BY DEF CallsLeft
<1>2. StepsLeft \in Nat
  BY DEF StepsLeft
<1> QED
  BY <1>1, <1>2

LEMMA HostGetsNearer == IInv /\ Host => Nearer
<1> SUFFICES ASSUME IInv, Host PROVE Nearer
  OBVIOUS
<1> USE EraseAssumption DEF IInv, TypeOK
<1>1. CASE Pause \/ Wait \/ Send
  <2>1. CallsLeft' = CallsLeft
    BY <1>1 DEF CallsLeft, Pause, Wait, Send
  <2>2. StepsLeft' < StepsLeft
    BY <1>1 DEF StepsLeft, Pause, Wait, Send
  <2> QED
    BY <2>1, <2>2 DEF Nearer
<1>2. CASE Return
  <2>1. PICK r \in {"ok", "v1", "error", "busy", "timeout"} :
          \/ ProbeReturns(r) \/ Erase0Returns(r) \/ Erase1Returns(r)
          \/ Again("hello", r) \/ Again("poll", r)
    BY <1>2 DEF Return
  <2>2. CASE ProbeReturns(r)
    BY <2>2 DEF ProbeReturns, Goto, CallsLeft, Nearer
  <2>3. CASE Erase0Returns(r)
    BY <2>3 DEF Erase0Returns, Goto, CallsLeft, Nearer
  <2>4. CASE Erase1Returns(r)
    BY <2>4 DEF Erase1Returns, Goto, CallsLeft, Nearer
  <2>5. CASE Again("hello", r) \/ Again("poll", r)
    BY <2>5 DEF Again, Goto, CallsLeft, PathInv, Nearer
  <2> QED
    BY <2>1, <2>2, <2>3, <2>4, <2>5
<1> QED
  BY <1>1, <1>2 DEF Host

\* Every step of flash_erase brings it nearer to its end, in an order in which
\* there is no going down forever, and what the EC does or leaves undone does
\* not take it back: what EraseReturns needs besides fairness.
THEOREM EveryStepCounts ==
  Spec => [][(Host => Nearer) /\ (Ec => UNCHANGED <<CallsLeft, StepsLeft>>)]_vars
<1>1. Ec => UNCHANGED <<CallsLeft, StepsLeft>>
  BY DEF Ec, host, CallsLeft, StepsLeft
<1>2. IInv /\ [Next]_vars =>
        [(Host => Nearer) /\ (Ec => UNCHANGED <<CallsLeft, StepsLeft>>)]_vars
  BY <1>1, HostGetsNearer
<1> QED
  BY Invariance, <1>2, PTL DEF Spec

\* Until it has returned, flash_erase has a step to take, whatever the EC does.
THEOREM HostIsNeverStuck ==
  Spec => [](CallsLeft \in Nat /\ StepsLeft \in Nat /\ (call # "done" => CanGoOn))
<1>1. Init => Answered
  BY DEF Init, Answered
<1> QED
  BY <1>1, Invariance, NothingToCome, NeverStuck, Numbers, PTL DEF Spec
=============================================================================
