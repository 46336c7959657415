------------------------- MODULE HostCommandProofs -------------------------
(***************************************************************************)
(* Proofs about HostCommand, for every number of calls and polls, every    *)
(* packet size and every set of arguments and answers.                     *)
(*                                                                         *)
(* The argument.  At any time at most one call is "in flight": from the    *)
(* command byte until the EC lowers PROCESSING.  It is the youngest call   *)
(* ever started, the buffer holds nothing but its request until the EC has *)
(* taken it, and the EC has not run it before.  The host starts another    *)
(* one only when nothing is in flight, because of its first wait; and what *)
(* it reads after its second wait was written for the call in flight until *)
(* just then, which is its own.                                            *)
(*                                                                         *)
(* The refinement of HostCommandSpec follows from the same invariant; the  *)
(* return of a call is near when few turns of its waits are left           *)
(* (StepsLeft).                                                            *)
(***************************************************************************)
EXTENDS HostCommand, TLAPS

\* The buffer holds a whole request of call c.
RequestOf(c) ==
  /\ hdr.by = HostWrote(c)
  /\ hdr.w6 > 0 => body.by = hdr.by

\* The EC has given its verdict on call c, and, when that is no error, the
\* buffer holds the answer and the call was run.
AnswerTo(c) ==
  /\ result.about = c
  /\ ~result.error => /\ hdr.by = EcWrote(c)
                      /\ body.by = EcWrote(c)
                      /\ ran[c] = 1

\* c is in sent, has not run, and no younger call is in sent.
Fresh(c) ==
  /\ c \in sent
  /\ ran[c] = 0
  /\ \A d \in sent : d <= c

\* What the EC is doing, and what that says of the buffer.
EcInv ==
  /\ processing <=> ec # "idle"
  /\ fromHost => /\ ec = "idle"
                 /\ RequestOf(hdr.by.call)
                 /\ Fresh(hdr.by.call)
  /\ ec # "idle" => ecCall \in sent /\ \A d \in sent : d <= ecCall
  /\ ec = "taken" => ran[ecCall] = 0
  /\ ec \in {"body", "header", "result"} => ran[ecCall] = 1
  /\ ec \in {"header", "result"} => body.by = EcWrote(ecCall)
  /\ ec = "result" => hdr.by = EcWrote(ecCall)
  /\ ec = "answered" => AnswerTo(ecCall)

\* Where the host is, and what that says of the buffer and the EC.
HostInv ==
  /\ pc # "idle" => call \in Calls
  /\ sent \subseteq 1 .. call
  /\ pc \in {"wait1", "write", "data", "start"} => call \notin sent
  /\ pc = "data" => hdr.by = HostWrote(call)
  /\ pc = "start" => RequestOf(call)
  /\ pc \in {"wait2", "result", "header", "payload"} => call \in sent
  /\ pc = "wait2" => \/ fromHost /\ hdr.by = HostWrote(call)
                     \/ ec # "idle" /\ ecCall = call
                     \/ ~Busy /\ AnswerTo(call)
  /\ pc \in {"result", "header", "payload"} => AnswerTo(call)
  /\ pc \in {"header", "payload"} => ~result.error

IInv ==
  /\ TypeOK
  /\ BufferExclusive
  /\ AtMostOnce
  /\ OwnAnswer
  /\ EcInv
  /\ HostInv

\* The invariant holds initially.
LEMMA InitInv == Init => IInv
<1> SUFFICES ASSUME Init PROVE IInv
  OBVIOUS
<1> USE HostAssumption DEF Init, Calls, Busy, EcWrote
<1>1. TypeOK
  <2>1. [who |-> "ec", call |-> 0] \in Writer
    BY DEF Writer
  <2>2. hdr.by \in Writer /\ rhdr.by \in Writer /\ body.by \in Writer
    BY <2>1
  <2>3. ret.call \in 0 .. call
    BY DEF NoReply
  <2>4. polls \in 0 .. MaxPolls /\ call \in 0 .. MaxCalls /\ ecCall \in 0 .. MaxCalls
    OBVIOUS
  <2>5. ran \in [Calls -> Nat] /\ sent \subseteq Calls
    OBVIOUS
  <2>6. fromHost \in BOOLEAN /\ processing \in BOOLEAN
    OBVIOUS
  <2> QED
    BY <2>2, <2>3, <2>4, <2>5, <2>6 DEF TypeOK
<1>2. BufferExclusive /\ AtMostOnce
  BY DEF BufferExclusive, AtMostOnce
<1>3. OwnAnswer
  BY DEF OwnAnswer, NoReply
<1>4. EcInv /\ HostInv
  BY DEF EcInv, HostInv
<1> QED
  BY <1>1, <1>2, <1>3, <1>4 DEF IInv

\* Each action preserves it.
LEMMA BeginCallInv == IInv /\ BeginCall => IInv'
<1> SUFFICES ASSUME IInv, BeginCall PROVE IInv'
  OBVIOUS
<1> USE HostAssumption DEF IInv, BeginCall, ecVars, Calls, Busy
<1>1. TypeOK'
  <2>1. call' \in 0 .. MaxCalls /\ ret'.call \in 0 .. call'
    BY DEF TypeOK
  <2>2. /\ pc' \in {"idle", "wait1"} /\ polls' \in 0 .. MaxPolls
        /\ req' \in [outsize : OutSizes, insize : InSizes, version : CmdVersions]
    BY DEF TypeOK
  <2> QED
    BY <2>1, <2>2 DEF TypeOK
<1>2. BufferExclusive'
  BY DEF TypeOK, BufferExclusive
<1>3. AtMostOnce'
  BY DEF AtMostOnce
<1>4. OwnAnswer'
  BY DEF OwnAnswer, TypeOK
<1>5. EcInv'
  BY DEF EcInv, RequestOf, AnswerTo, Fresh
<1>6. HostInv'
  BY DEF HostInv, RequestOf, AnswerTo, TypeOK
<1> QED
  BY <1>1, <1>2, <1>3, <1>4, <1>5, <1>6

LEMMA WaitFreeInv == IInv /\ WaitFree => IInv'
<1> SUFFICES ASSUME IInv, WaitFree PROVE IInv'
  OBVIOUS
<1> USE HostAssumption DEF IInv, WaitFree, Wait, Return, bufVars, ecVars, Calls, Busy
<1>1. TypeOK'
  <2>1. pc' \in {"idle", "wait1", "write"} /\ polls' \in 0 .. MaxPolls
    BY DEF TypeOK
  <2>2. call' = call /\ ret'.call \in 0 .. call
    BY DEF TypeOK
  <2> QED
    BY <2>1, <2>2 DEF TypeOK
<1>2. BufferExclusive'
  BY DEF TypeOK, BufferExclusive, EcInv
<1>3. AtMostOnce'
  BY DEF AtMostOnce, TypeOK, EcInv
<1>4. OwnAnswer'
  BY DEF OwnAnswer, TypeOK, EcInv, HostInv, AnswerTo
<1>5. EcInv'
  BY DEF EcInv, HostInv, TypeOK, BufferExclusive, RequestOf, AnswerTo, Fresh
<1>6. HostInv'
  BY DEF HostInv, EcInv, TypeOK, BufferExclusive, RequestOf, AnswerTo
<1> QED
  BY <1>1, <1>2, <1>3, <1>4, <1>5, <1>6

LEMMA WriteHeaderInv == IInv /\ WriteHeader => IInv'
<1> SUFFICES ASSUME IInv, WriteHeader PROVE IInv'
  OBVIOUS
<1> USE HostAssumption DEF IInv, WriteHeader, RequestHeader, HostWrote, ecVars, Calls, Busy
<1>1. TypeOK'
  BY DEF TypeOK, Writer
<1>2. BufferExclusive'
  BY DEF TypeOK, BufferExclusive, EcInv
<1>3. AtMostOnce'
  BY DEF AtMostOnce, TypeOK, EcInv
<1>4. OwnAnswer'
  BY DEF OwnAnswer, TypeOK, EcInv, HostInv, AnswerTo
<1>5. EcInv'
  BY DEF EcInv, HostInv, TypeOK, BufferExclusive, RequestOf, AnswerTo, Fresh
<1>6. HostInv'
  BY DEF HostInv, EcInv, TypeOK, BufferExclusive, RequestOf, AnswerTo
<1> QED
  BY <1>1, <1>2, <1>3, <1>4, <1>5, <1>6

LEMMA WriteDataInv == IInv /\ WriteData => IInv'
<1> SUFFICES ASSUME IInv, WriteData PROVE IInv'
  OBVIOUS
<1> USE HostAssumption DEF IInv, WriteData, HostWrote, ecVars, Calls, Busy
<1>1. TypeOK'
  BY DEF TypeOK, Writer
<1>2. BufferExclusive'
  BY DEF TypeOK, BufferExclusive, EcInv
<1>3. AtMostOnce'
  BY DEF AtMostOnce, TypeOK, EcInv
<1>4. OwnAnswer'
  BY DEF OwnAnswer, TypeOK, EcInv, HostInv, AnswerTo
<1>5. EcInv'
  BY DEF EcInv, HostInv, TypeOK, BufferExclusive, RequestOf, AnswerTo, Fresh
<1>6. HostInv'
  BY DEF HostInv, EcInv, TypeOK, BufferExclusive, RequestOf, AnswerTo
<1> QED
  BY <1>1, <1>2, <1>3, <1>4, <1>5, <1>6

LEMMA StartInv == IInv /\ Start => IInv'
<1> SUFFICES ASSUME IInv, Start PROVE IInv'
  OBVIOUS
<1> USE HostAssumption DEF IInv, Start, bufVars, ecVars, Calls, Busy
<1>1. TypeOK'
  BY DEF TypeOK, HostInv
<1>2. BufferExclusive'
  BY DEF TypeOK, BufferExclusive, EcInv
<1>3. AtMostOnce'
  BY DEF AtMostOnce, TypeOK, EcInv
<1>4. OwnAnswer'
  BY DEF OwnAnswer, TypeOK, EcInv, HostInv, AnswerTo
<1>5. EcInv'
  <2>1. RequestOf(call) /\ hdr.by.call = call
    BY DEF HostInv, RequestOf, HostWrote
  <2>2. ec = "idle" /\ ~processing
    BY DEF BufferExclusive
  <2>3. ran[call] = 0
    BY DEF AtMostOnce, HostInv, TypeOK
  <2>4. Fresh(call)'
    BY <2>3 DEF Fresh, HostInv
  <2>5. RequestOf(hdr.by.call)' /\ Fresh(hdr.by.call)'
    BY <2>1, <2>4 DEF RequestOf, Fresh
  <2> QED
    BY <2>2, <2>5 DEF EcInv
<1>6. HostInv'
  BY DEF HostInv, EcInv, TypeOK, BufferExclusive, RequestOf, AnswerTo
<1> QED
  BY <1>1, <1>2, <1>3, <1>4, <1>5, <1>6

LEMMA WaitDoneInv == IInv /\ WaitDone => IInv'
<1> SUFFICES ASSUME IInv, WaitDone PROVE IInv'
  OBVIOUS
<1> USE HostAssumption DEF IInv, WaitDone, Wait, Return, bufVars, ecVars, Calls, Busy
<1>1. TypeOK'
  <2>1. pc' \in {"idle", "wait2", "result"} /\ polls' \in 0 .. MaxPolls
    BY DEF TypeOK
  <2>2. call' = call /\ ret'.call \in 0 .. call
    BY DEF TypeOK
  <2> QED
    BY <2>1, <2>2 DEF TypeOK
<1>2. BufferExclusive'
  BY DEF TypeOK, BufferExclusive, EcInv
<1>3. AtMostOnce'
  BY DEF AtMostOnce, TypeOK, EcInv
<1>4. OwnAnswer'
  BY DEF OwnAnswer, TypeOK, EcInv, HostInv, AnswerTo
<1>5. EcInv'
  BY DEF EcInv, HostInv, TypeOK, BufferExclusive, RequestOf, AnswerTo, Fresh
<1>6. HostInv'
  BY DEF HostInv, EcInv, TypeOK, BufferExclusive, RequestOf, AnswerTo
<1> QED
  BY <1>1, <1>2, <1>3, <1>4, <1>5, <1>6

LEMMA ReadResultInv == IInv /\ ReadResult => IInv'
<1> SUFFICES ASSUME IInv, ReadResult PROVE IInv'
  OBVIOUS
<1> USE HostAssumption DEF IInv, ReadResult, Return, bufVars, ecVars, Calls, Busy
<1>1. TypeOK'
  BY DEF TypeOK, Writer
<1>2. BufferExclusive'
  BY DEF TypeOK, BufferExclusive, EcInv
<1>3. AtMostOnce'
  BY DEF AtMostOnce, TypeOK, EcInv
<1>4. OwnAnswer'
  BY DEF OwnAnswer, TypeOK, EcInv, HostInv, AnswerTo
<1>5. EcInv'
  BY DEF EcInv, HostInv, TypeOK, BufferExclusive, RequestOf, AnswerTo, Fresh
<1>6. HostInv'
  BY DEF HostInv, EcInv, TypeOK, BufferExclusive, RequestOf, AnswerTo
<1> QED
  BY <1>1, <1>2, <1>3, <1>4, <1>5, <1>6

LEMMA ReadHeaderInv == IInv /\ ReadHeader => IInv'
<1> SUFFICES ASSUME IInv, ReadHeader PROVE IInv'
  OBVIOUS
<1> USE HostAssumption DEF IInv, ReadHeader, Return, bufVars, Answers, EcWrote, ecVars, Calls, Busy
<1>1. TypeOK'
  BY DEF TypeOK, Writer
<1>2. BufferExclusive'
  BY DEF TypeOK, BufferExclusive, EcInv
<1>3. AtMostOnce'
  BY DEF AtMostOnce, TypeOK, EcInv
<1>4. OwnAnswer'
  BY DEF OwnAnswer, TypeOK, EcInv, HostInv, AnswerTo
<1>5. EcInv'
  BY DEF EcInv, HostInv, TypeOK, BufferExclusive, RequestOf, AnswerTo, Fresh
<1>6. HostInv'
  BY DEF HostInv, EcInv, TypeOK, BufferExclusive, RequestOf, AnswerTo
<1> QED
  BY <1>1, <1>2, <1>3, <1>4, <1>5, <1>6

LEMMA ReadPayloadInv == IInv /\ ReadPayload => IInv'
<1> SUFFICES ASSUME IInv, ReadPayload PROVE IInv'
  OBVIOUS
<1> USE HostAssumption DEF IInv, ReadPayload, Return, bufVars, Answers, EcWrote, ecVars, Calls, Busy
<1>1. TypeOK'
  BY DEF TypeOK, Writer
<1>2. BufferExclusive'
  BY DEF TypeOK, BufferExclusive, EcInv
<1>3. AtMostOnce'
  BY DEF AtMostOnce, TypeOK, EcInv
<1>4. OwnAnswer'
  BY DEF OwnAnswer, TypeOK, EcInv, HostInv, AnswerTo
<1>5. EcInv'
  BY DEF EcInv, HostInv, TypeOK, BufferExclusive, RequestOf, AnswerTo, Fresh
<1>6. HostInv'
  BY DEF HostInv, EcInv, TypeOK, BufferExclusive, RequestOf, AnswerTo
<1> QED
  BY <1>1, <1>2, <1>3, <1>4, <1>5, <1>6

LEMMA EcTakeInv == IInv /\ EcTake => IInv'
<1> SUFFICES ASSUME IInv, EcTake PROVE IInv'
  OBVIOUS
<1> USE HostAssumption DEF IInv, EcTake, hostVars, bufVars, HostWrote, Calls, Busy
<1>1. TypeOK'
  <2>1. hdr.by.call \in Calls
    BY DEF TypeOK, EcInv, Fresh
  <2>2. ecCall' \in 0 .. MaxCalls
    BY <2>1
  <2> QED
    BY <2>2 DEF TypeOK
<1>2. BufferExclusive'
  BY DEF TypeOK, BufferExclusive, EcInv
<1>3. AtMostOnce'
  BY DEF AtMostOnce, TypeOK, EcInv
<1>4. OwnAnswer'
  BY DEF OwnAnswer, TypeOK, EcInv, HostInv, AnswerTo
<1>5. EcInv'
  BY DEF EcInv, HostInv, TypeOK, BufferExclusive, RequestOf, AnswerTo, Fresh
<1>6. HostInv'
  BY DEF HostInv, EcInv, TypeOK, BufferExclusive, RequestOf, AnswerTo
<1> QED
  BY <1>1, <1>2, <1>3, <1>4, <1>5, <1>6

LEMMA EcRunInv == IInv /\ EcRun => IInv'
<1> SUFFICES ASSUME IInv, EcRun PROVE IInv'
  OBVIOUS
<1> USE HostAssumption DEF IInv, EcRun, hostVars, bufVars, Calls, Busy
<1>1. TypeOK'
  BY DEF TypeOK, Writer
<1>2. BufferExclusive'
  BY DEF TypeOK, BufferExclusive, EcInv
<1>3. AtMostOnce'
  BY DEF AtMostOnce, TypeOK, EcInv
<1>4. OwnAnswer'
  BY DEF OwnAnswer, TypeOK, EcInv, HostInv, AnswerTo
<1>5. EcInv'
  BY DEF EcInv, HostInv, TypeOK, BufferExclusive, RequestOf, AnswerTo, Fresh
<1>6. HostInv'
  BY DEF HostInv, EcInv, TypeOK, BufferExclusive, RequestOf, AnswerTo
<1> QED
  BY <1>1, <1>2, <1>3, <1>4, <1>5, <1>6

LEMMA EcRefuseInv == IInv /\ EcRefuse => IInv'
<1> SUFFICES ASSUME IInv, EcRefuse PROVE IInv'
  OBVIOUS
<1> USE HostAssumption DEF IInv, EcRefuse, hostVars, bufVars, Calls, Busy
<1>1. TypeOK'
  BY DEF TypeOK, Writer
<1>2. BufferExclusive'
  BY DEF TypeOK, BufferExclusive, EcInv
<1>3. AtMostOnce'
  BY DEF AtMostOnce, TypeOK, EcInv
<1>4. OwnAnswer'
  BY DEF OwnAnswer, TypeOK, EcInv, HostInv, AnswerTo
<1>5. EcInv'
  BY DEF EcInv, HostInv, TypeOK, BufferExclusive, RequestOf, AnswerTo, Fresh
<1>6. HostInv'
  BY DEF HostInv, EcInv, TypeOK, BufferExclusive, RequestOf, AnswerTo
<1> QED
  BY <1>1, <1>2, <1>3, <1>4, <1>5, <1>6

LEMMA EcWriteBodyInv == IInv /\ EcWriteBody => IInv'
<1> SUFFICES ASSUME IInv, EcWriteBody PROVE IInv'
  OBVIOUS
<1> USE HostAssumption DEF IInv, EcWriteBody, hostVars, EcWrote, Calls, Busy
<1>1. TypeOK'
  BY DEF TypeOK, Writer
<1>2. BufferExclusive'
  BY DEF TypeOK, BufferExclusive, EcInv
<1>3. AtMostOnce'
  BY DEF AtMostOnce, TypeOK, EcInv
<1>4. OwnAnswer'
  BY DEF OwnAnswer, TypeOK, EcInv, HostInv, AnswerTo
<1>5. EcInv'
  BY DEF EcInv, HostInv, TypeOK, BufferExclusive, RequestOf, AnswerTo, Fresh
<1>6. HostInv'
  BY DEF HostInv, EcInv, TypeOK, BufferExclusive, RequestOf, AnswerTo
<1> QED
  BY <1>1, <1>2, <1>3, <1>4, <1>5, <1>6

LEMMA EcWriteHeaderInv == IInv /\ EcWriteHeader => IInv'
<1> SUFFICES ASSUME IInv, EcWriteHeader PROVE IInv'
  OBVIOUS
<1> USE HostAssumption DEF IInv, EcWriteHeader, hostVars, EcWrote, Calls, Busy
<1>1. TypeOK'
  BY DEF TypeOK, Writer
<1>2. BufferExclusive'
  BY DEF TypeOK, BufferExclusive, EcInv
<1>3. AtMostOnce'
  BY DEF AtMostOnce, TypeOK, EcInv
<1>4. OwnAnswer'
  BY DEF OwnAnswer, TypeOK, EcInv, HostInv, AnswerTo
<1>5. EcInv'
  BY DEF EcInv, HostInv, TypeOK, BufferExclusive, RequestOf, AnswerTo, Fresh
<1>6. HostInv'
  BY DEF HostInv, EcInv, TypeOK, BufferExclusive, RequestOf, AnswerTo
<1> QED
  BY <1>1, <1>2, <1>3, <1>4, <1>5, <1>6

LEMMA EcWriteResultInv == IInv /\ EcWriteResult => IInv'
<1> SUFFICES ASSUME IInv, EcWriteResult PROVE IInv'
  OBVIOUS
<1> USE HostAssumption DEF IInv, EcWriteResult, hostVars, bufVars, Calls, Busy
<1>1. TypeOK'
  BY DEF TypeOK, Writer
<1>2. BufferExclusive'
  BY DEF TypeOK, BufferExclusive, EcInv
<1>3. AtMostOnce'
  BY DEF AtMostOnce, TypeOK, EcInv
<1>4. OwnAnswer'
  BY DEF OwnAnswer, TypeOK, EcInv, HostInv, AnswerTo
<1>5. EcInv'
  BY DEF EcInv, HostInv, TypeOK, BufferExclusive, RequestOf, AnswerTo, Fresh
<1>6. HostInv'
  BY DEF HostInv, EcInv, TypeOK, BufferExclusive, RequestOf, AnswerTo
<1> QED
  BY <1>1, <1>2, <1>3, <1>4, <1>5, <1>6

LEMMA EcDoneInv == IInv /\ EcDone => IInv'
<1> SUFFICES ASSUME IInv, EcDone PROVE IInv'
  OBVIOUS
<1> USE HostAssumption DEF IInv, EcDone, hostVars, bufVars, Calls, Busy
<1>1. TypeOK'
  BY DEF TypeOK, Writer
<1>2. BufferExclusive'
  BY DEF TypeOK, BufferExclusive, EcInv
<1>3. AtMostOnce'
  BY DEF AtMostOnce, TypeOK, EcInv
<1>4. OwnAnswer'
  BY DEF OwnAnswer, TypeOK, EcInv, HostInv, AnswerTo
<1>5. EcInv'
  BY DEF EcInv, HostInv, TypeOK, BufferExclusive, RequestOf, AnswerTo, Fresh
<1>6. HostInv'
  BY DEF HostInv, EcInv, TypeOK, BufferExclusive, RequestOf, AnswerTo
<1> QED
  BY <1>1, <1>2, <1>3, <1>4, <1>5, <1>6

LEMMA NextInv == IInv /\ [Next]_vars => IInv'
<1> SUFFICES ASSUME IInv, [Next]_vars PROVE IInv'
  OBVIOUS
<1>1. CASE BeginCall
  BY <1>1, BeginCallInv
<1>2. CASE Host
  BY <1>2, WaitFreeInv, WriteHeaderInv, WriteDataInv, StartInv, WaitDoneInv,
     ReadResultInv, ReadHeaderInv, ReadPayloadInv DEF Host
<1>3. CASE Ec
  BY <1>3, EcTakeInv, EcRunInv, EcRefuseInv, EcWriteBodyInv, EcWriteHeaderInv,
     EcWriteResultInv, EcDoneInv DEF Ec
<1>4. CASE UNCHANGED vars
  BY <1>4 DEF vars, IInv, TypeOK, BufferExclusive, AtMostOnce, OwnAnswer, EcInv,
     HostInv, RequestOf, AnswerTo, Fresh, Calls, Busy
<1>5. Finished => UNCHANGED vars
  BY DEF Finished
<1> QED
  BY <1>1, <1>2, <1>3, <1>4, <1>5 DEF Next

THEOREM Invariance == Spec => []IInv
  BY InitInv, NextInv, PTL DEF Spec

\* Type correctness of host, EC and the buffer between them, whatever the
\* constants are.
THEOREM TypeCorrect == Spec => []TypeOK
  BY Invariance, PTL DEF IInv

\* The two waits of ECSendCommandMecLpc give the host the buffer to itself.
THEOREM BufferIsExclusive == Spec => []BufferExclusive
  BY Invariance, PTL DEF IInv

\* No call is ever given the answer to another one, and success is reported
\* only for a call the EC ran.
THEOREM AnswersAreOwn == Spec => []OwnAnswer
  BY Invariance, PTL DEF IInv

\* No call runs twice, and no call that was never started runs at all.
THEOREM RunsAtMostOnce == Spec => []AtMostOnce
  BY Invariance, PTL DEF IInv

-----------------------------------------------------------------------------
(* Refinement: every step is a step of HostCommandSpec or a stutter.       *)

LEMMA RpcInit == Init => Rpc!Init
<1> SUFFICES ASSUME Init PROVE Rpc!Init
  OBVIOUS
<1>1. ret.call = 0 /\ ret.code = "none" /\ ret.about = 0
  BY DEF Init, NoReply
<1>2. [call |-> ret.call, ok |-> ret.code = "ok",
       about |-> IF ret.code = "ok" THEN ret.about ELSE 0] = Rpc!NoReply
  BY <1>1 DEF Rpc!NoReply
<1>3. (pc # "idle") = FALSE
  BY DEF Init
<1> QED
  BY <1>2, <1>3 DEF Init, Rpc!Init, Calls, Rpc!Calls

\* A step that leaves the return, the ghosts and "in a call" alone.
LEMMA RpcStutter ==
  ASSUME UNCHANGED <<call, ret, sent, ran>>, (pc # "idle")' = (pc # "idle")
  PROVE  UNCHANGED Rpc!vars
  BY DEF Rpc!vars

\* A return with a code of the host's own is an abstract failure.
LEMMA RpcFail ==
  ASSUME pc # "idle", NEW code, code # "ok", NEW about, NEW len,
         Return(code, about, len), UNCHANGED <<call, sent, ran>>
  PROVE  Rpc!Fail
  BY DEF Return, Rpc!Fail

\* A return of the EC's data is an abstract success.
LEMMA RpcSucceed ==
  ASSUME pc # "idle", NEW len, Return("ok", call, len), ran[call] = 1,
         UNCHANGED <<call, sent, ran>>
  PROVE  Rpc!Succeed
  BY DEF Return, Rpc!Succeed

LEMMA RpcHost == IInv /\ Host => [Rpc!Next]_Rpc!vars
<1> SUFFICES ASSUME IInv, Host PROVE Rpc!Next \/ UNCHANGED Rpc!vars
  OBVIOUS
<1> USE DEF ecVars
<1>1. ASSUME NEW at, NEW next, Wait(at, next), at # "idle", next # "idle"
      PROVE  Rpc!Next \/ UNCHANGED Rpc!vars
  <2>1. CASE Return("timeout", 0, 0)
    BY <1>1, <2>1, RpcFail DEF Wait, Rpc!Next
  <2>2. CASE UNCHANGED ret /\ pc' # "idle"
    <3>1. (pc # "idle") = TRUE /\ (pc' # "idle") = TRUE
      BY <1>1, <2>2 DEF Wait
    <3> QED
      BY <1>1, <2>2, <3>1, RpcStutter DEF Wait
  <2> QED
    BY <1>1, <2>1, <2>2 DEF Wait
<1>2. CASE WaitFree \/ WaitDone
  BY <1>1, <1>2 DEF WaitFree, WaitDone
<1>3. CASE WriteHeader \/ WriteData
  BY <1>3, RpcStutter DEF WriteHeader, WriteData
<1>4. CASE Start
  BY <1>4 DEF Start, IInv, HostInv, Rpc!Next, Rpc!Send
<1>5. CASE ReadResult
  <2>1. CASE result.error
    BY <1>5, <2>1, RpcFail DEF ReadResult, Rpc!Next
  <2>2. CASE ~result.error
    BY <1>5, <2>2, RpcStutter DEF ReadResult
  <2> QED
    BY <2>1, <2>2
<1>6. CASE ReadHeader
  <2> USE DEF ReadHeader
  <2>1. CASE \E code \in {"header_version", "header", "too_big"} : Return(code, 0, 0)
    <3>1. PICK code \in {"header_version", "header", "too_big"} : Return(code, 0, 0)
      BY <2>1
    <3> QED
      BY <1>6, <3>1, RpcFail DEF Rpc!Next
  <2>2. CASE Return("ok", Answers(hdr.by), 0)
    <3>1. Answers(hdr.by) = call /\ ran[call] = 1
      BY <1>6 DEF IInv, HostInv, AnswerTo, Answers, EcWrote
    <3> QED
      BY <1>6, <2>2, <3>1, RpcSucceed DEF Rpc!Next
  <2>3. CASE pc' = "payload" /\ UNCHANGED ret
    BY <1>6, <2>3, RpcStutter
  <2> QED
    BY <1>6, <2>1, <2>2, <2>3
<1>7. CASE ReadPayload
  <2>1. CASE ChecksumZero(rhdr, body)
    <3>1. Answers(body.by) = call /\ ran[call] = 1
      BY <1>7 DEF ReadPayload, IInv, HostInv, AnswerTo, Answers, EcWrote
    <3> QED
      BY <1>7, <2>1, <3>1, RpcSucceed DEF ReadPayload, Rpc!Next
  <2>2. CASE ~ChecksumZero(rhdr, body)
    BY <1>7, <2>2, RpcFail DEF ReadPayload, Rpc!Next
  <2> QED
    BY <2>1, <2>2
<1> QED
  BY <1>2, <1>3, <1>4, <1>5, <1>6, <1>7 DEF Host

LEMMA RpcEc == IInv /\ Ec => [Rpc!Next]_Rpc!vars
<1> SUFFICES ASSUME IInv, Ec PROVE Rpc!Next \/ UNCHANGED Rpc!vars
  OBVIOUS
<1>1. CASE EcRun
  <2>1. ecCall \in Calls /\ ecCall \in sent /\ ran[ecCall] = 0
    BY <1>1 DEF EcRun, IInv, EcInv, TypeOK
  <2>2. \A d \in Calls : d >= ecCall => ran[d] = 0
    BY <1>1, <2>1, HostAssumption DEF EcRun, IInv, EcInv, AtMostOnce, TypeOK, Calls
  <2>3. ran' = [ran EXCEPT ![ecCall] = 1]
    BY <1>1, <2>1 DEF EcRun, IInv, TypeOK
  <2>4. Rpc!Run(ecCall)
    BY <1>1, <2>1, <2>2, <2>3 DEF EcRun, hostVars, Rpc!Run, Rpc!Calls, Calls
  <2> QED
    BY <2>1, <2>4 DEF Rpc!Next, Rpc!Calls, Calls
<1>2. CASE ~EcRun
  BY <1>2, RpcStutter DEF Ec, EcTake, EcRefuse, EcWriteBody, EcWriteHeader,
     EcWriteResult, EcDone, hostVars
<1> QED
  BY <1>1, <1>2

\* The protocol, played by a host that may give up and an EC that may be late,
\* is the at-most-once call of HostCommandSpec.
THEOREM ImplementsRpc == Spec => RpcSpec
<1>1. IInv /\ [Next]_vars => [Rpc!Next]_Rpc!vars
  <2> SUFFICES ASSUME IInv, [Next]_vars PROVE [Rpc!Next]_Rpc!vars
    OBVIOUS
  <2>1. CASE BeginCall
    <3> USE <2>1 DEF BeginCall, ecVars
    <3>1. CASE req'.outsize + HeaderSize > PacketSize
      <4>1. ret'.call = call' /\ ret'.code = "truncated"
        BY <3>1
      <4>2. (pc # "idle") = FALSE /\ (pc' # "idle") = FALSE
        BY <3>1
      <4>3. Rpc!Refuse
        BY <3>1, <4>1, <4>2 DEF Rpc!Refuse
      <4> QED
        BY <4>3 DEF Rpc!Next
    <3>2. CASE ~(req'.outsize + HeaderSize > PacketSize)
      <4>1. (pc # "idle") = FALSE /\ (pc' # "idle") = TRUE
        BY <3>2
      <4>2. Rpc!Begin
        BY <3>2, <4>1 DEF Rpc!Begin
      <4> QED
        BY <4>2 DEF Rpc!Next
    <3> QED
      BY <3>1, <3>2
  <2>2. CASE UNCHANGED vars
    BY <2>2, RpcStutter DEF vars
  <2> QED
    BY <2>1, <2>2, RpcHost, RpcEc DEF Next, Finished
<1> QED
  BY <1>1, RpcInit, Invariance, PTL DEF Spec, RpcSpec, Rpc!Spec
-----------------------------------------------------------------------------
(* Why every call returns: the waits are counted, and nothing else waits. *)

\* The steps a call may still take.
StepsLeft ==
  CASE pc = "idle" -> 0
    [] pc = "payload" -> 1
    [] pc = "header" -> 2
    [] pc = "result" -> 3
    [] pc = "wait2" -> 4 + MaxPolls - polls
    [] pc = "start" -> 5 + MaxPolls
    [] pc = "data" -> 6 + MaxPolls
    [] pc = "write" -> 7 + MaxPolls
    [] pc = "wait1" -> 8 + 2 * MaxPolls - polls

LEMMA HostGetsNearer == IInv /\ Host => StepsLeft' < StepsLeft
<1> SUFFICES ASSUME IInv, Host PROVE StepsLeft' < StepsLeft
  OBVIOUS
<1>0. polls \in 0 .. MaxPolls /\ MaxPolls \in Nat
  BY HostAssumption DEF IInv, TypeOK
<1>1. CASE WaitFree
  BY <1>0, <1>1 DEF WaitFree, Wait, Return, StepsLeft
<1>2. CASE WriteHeader \/ WriteData \/ Start
  BY <1>0, <1>2 DEF WriteHeader, WriteData, Start, StepsLeft
<1>3. CASE WaitDone
  BY <1>0, <1>3 DEF WaitDone, Wait, Return, StepsLeft
<1>4. CASE ReadResult
  BY <1>4 DEF ReadResult, Return, StepsLeft
<1>5. CASE ReadHeader
  BY <1>5 DEF ReadHeader, Return, StepsLeft
<1>6. CASE ReadPayload
  BY <1>6 DEF ReadPayload, Return, StepsLeft
<1> QED
  BY <1>1, <1>2, <1>3, <1>4, <1>5, <1>6 DEF Host

\* A call returns in no more steps than both waits have turns, and eight: every
\* step of the host takes it nearer to its return, and no step of the EC, taken
\* or left undone, takes it back.  This is what EveryCallReturns needs besides
\* fairness to the host.
THEOREM StepsAreCounted ==
  Spec => /\ [](StepsLeft \in 0 .. 2 * MaxPolls + 8)
          /\ [][(Host => StepsLeft' < StepsLeft) /\ (Ec => UNCHANGED StepsLeft)]_vars
<1>1. IInv => StepsLeft \in 0 .. 2 * MaxPolls + 8
  <2> SUFFICES ASSUME IInv PROVE StepsLeft \in 0 .. 2 * MaxPolls + 8
    OBVIOUS
  <2>1. /\ polls \in 0 .. MaxPolls /\ MaxPolls \in Nat
        /\ pc \in {"idle", "wait1", "write", "data", "start", "wait2", "result", "header",
                  "payload"}
    BY HostAssumption DEF IInv, TypeOK
  <2>2. CASE pc = "wait1"
    <3>1. StepsLeft = 8 + 2 * MaxPolls - polls
      BY <2>2 DEF StepsLeft
    <3> QED
      BY <2>1, <3>1
  <2>3. CASE pc = "wait2"
    <3>1. StepsLeft = 4 + MaxPolls - polls
      BY <2>3 DEF StepsLeft
    <3> QED
      BY <2>1, <3>1
  <2>4. CASE pc \in {"write", "data", "start"}
    <3>1. StepsLeft \in 5 + MaxPolls .. 7 + MaxPolls
      BY <2>1, <2>4 DEF StepsLeft
    <3> QED
      BY <2>1, <3>1
  <2>5. CASE pc \in {"idle", "payload", "header", "result"}
    <3>1. StepsLeft \in 0 .. 3
      BY <2>5 DEF StepsLeft
    <3> QED
      BY <2>1, <3>1
  <2> QED
    BY <2>1, <2>2, <2>3, <2>4, <2>5
<1>2. Ec => UNCHANGED StepsLeft
  BY DEF Ec, EcTake, EcRun, EcRefuse, EcWriteBody, EcWriteHeader, EcWriteResult, EcDone,
         hostVars, StepsLeft
<1>3. IInv /\ [Next]_vars =>
        [(Host => StepsLeft' < StepsLeft) /\ (Ec => UNCHANGED StepsLeft)]_vars
  BY <1>2, HostGetsNearer
<1> QED
  BY Invariance, <1>1, <1>3, PTL DEF Spec
=============================================================================
