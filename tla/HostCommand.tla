---------------------------- MODULE HostCommand ----------------------------
(***************************************************************************)
(* ECSendCommandMecLpc and the EC it talks to (the same protocol text in   *)
(* Library/MicrochipCrosECLib/EC.c and Library/AzaleaCrosECLib/EC.c).      *)
(*                                                                         *)
(* Host and EC share one packet buffer, a data register (the result byte)  *)
(* and a status register with two busy bits; nothing else orders them.     *)
(* The host writes a request over the buffer, writes the command byte      *)
(* (which makes the hardware raise FROM_HOST) and polls until both bits    *)
(* are clear; the EC, when it gets to it, runs the request and overwrites  *)
(* the buffer with its response.  Either wait may give up while the EC is  *)
(* still at work on an older call, and the host then goes on to its next   *)
(* call.                                                                   *)
(*                                                                         *)
(* The buffer's bytes are abstracted to who wrote them and the four header *)
(* fields the host looks at.  Request and response headers overlay each    *)
(* other as in the two packed structs, so that a request read back as a    *)
(* response means what it would mean to the code.                          *)
(***************************************************************************)
EXTENDS Integers

CONSTANTS
  MaxCalls,        \* bound on the calls of one behaviour
  MaxPolls,        \* turns of ECWaitForReady before it gives up (see ECWait)
  PacketSize,      \* EC_LPC_HOST_PACKET_SIZE
  HeaderSize,      \* sizeof(struct ec_host_request)
  StructVersion,   \* EC_HOST_REQUEST_VERSION = EC_HOST_RESPONSE_VERSION
  OutSizes,        \* the outsize arguments callers pass
  InSizes,         \* the insize arguments callers pass
  CmdVersions,     \* the version arguments callers pass
  RespVersions,    \* struct_version values an EC may answer with
  RespLens,        \* data_len values an EC may answer with
  RespReserved     \* reserved values an EC may answer with

ASSUME HostAssumption ==
  /\ MaxCalls \in Nat
  /\ MaxPolls \in Nat \ {0}
  /\ PacketSize \in Nat
  /\ HeaderSize \in Nat
  /\ HeaderSize <= PacketSize
  /\ OutSizes \subseteq Nat
  /\ InSizes \subseteq Nat
  /\ RespLens \subseteq Nat

Calls == 1 .. MaxCalls

\* Who wrote a piece of the buffer, and for which call.
Writer == [who : {"host", "ec"}, call : 0 .. MaxCalls]
HostWrote(c) == [who |-> "host", call |-> c]
EcWrote(c) == [who |-> "ec", call |-> c]

VARIABLES
  pc,        \* where the host is in ECSendCommandMecLpc
  call,      \* number of the latest call
  req,       \* its arguments: outsize, insize, version
  polls,     \* turns made by the current wait
  rhdr,      \* the host's local copy of the response header (r.rs)
  ret,       \* the latest return
  hdr,       \* the buffer's first eight bytes
  body,      \* the rest of the buffer: writer, and whether its bytes add up
  result,    \* the data register: whose verdict, error or not
  fromHost,  \* EC_LPC_STATUS_FROM_HOST
  processing,\* EC_LPC_STATUS_PROCESSING
  ec,        \* what the EC is doing
  ecCall,    \* the call it took from the buffer (0: an unreadable packet)
  sent,      \* ghost: the calls whose command byte was written
  ran        \* ghost: how often the EC ran each call

hostVars == <<pc, call, req, polls, rhdr, ret, sent>>
bufVars == <<hdr, body>>
ecVars == <<processing, ec, ecCall, ran, result>>
vars == <<pc, call, req, polls, rhdr, ret, sent, hdr, body, result,
          fromHost, processing, ec, ecCall, ran>>

\* Both bits of EC_LPC_STATUS_BUSY_MASK.
Busy == fromHost \/ processing

\* struct ec_host_request laid over struct ec_host_response: bytes 4-5 are
\* command_version/reserved or data_len, bytes 6-7 are data_len or reserved.
RequestHeader(c, r) ==
  [by |-> HostWrote(c), ver |-> StructVersion, w4 |-> r.version, w6 |-> r.outsize]

NoReply == [call |-> 0, code |-> "none", about |-> 0, len |-> 0]

Init ==
  /\ pc = "idle"
  /\ call = 0
  /\ req \in [outsize : OutSizes, insize : InSizes, version : CmdVersions]
  /\ polls = 0
  /\ hdr = [by |-> EcWrote(0), ver |-> 0, w4 |-> 0, w6 |-> 0]
  /\ rhdr = hdr
  /\ ret = NoReply
  /\ body = [by |-> EcWrote(0), adds |-> TRUE]
  /\ result = [about |-> 0, error |-> FALSE]
  /\ fromHost = FALSE
  /\ processing = FALSE
  /\ ec = "idle"
  /\ ecCall = 0
  /\ sent = {}
  /\ ran = [c \in Calls |-> 0]

-----------------------------------------------------------------------------
(* The host *)

\* Out: the function returns.  "about" says whose answer or verdict the
\* caller was given, 0 when the code is the host's own.
Return(code, about, len) ==
  /\ pc' = "idle"
  /\ ret' = [call |-> call, code |-> code, about |-> about, len |-> len]

\* A caller enters; a request that does not fit the packet is refused before
\* anything else, otherwise the packet is built and the first wait begins.
BeginCall ==
  /\ pc = "idle"
  /\ call < MaxCalls
  /\ call' = call + 1
  /\ req' \in [outsize : OutSizes, insize : InSizes, version : CmdVersions]
  /\ IF req'.outsize + HeaderSize > PacketSize
       THEN /\ ret' = [call |-> call', code |-> "truncated", about |-> 0, len |-> 0]
            /\ UNCHANGED <<pc, polls>>
       ELSE /\ pc' = "wait1"
            /\ polls' = 0
            /\ UNCHANGED ret
  /\ UNCHANGED <<rhdr, sent, hdr, body, fromHost, ecVars>>

\* A wait that forgets its deadline.
Wait_endless(at, next) ==
  /\ pc = at
  /\ \/ ~Busy /\ pc' = next /\ UNCHANGED polls
     \/ Busy /\ polls' = polls + 1 /\ UNCHANGED pc
  /\ UNCHANGED <<call, req, ret, rhdr, sent, bufVars, fromHost, ecVars>>

\* ECWaitForReady, a turn at a time, at both of its call sites: on to "next"
\* when the register is clear, -EC_RES_TIMEOUT when the turns are used up.
Wait(at, next) ==
  /\ pc = at
  /\ \/ /\ ~Busy
        /\ pc' = next
        /\ UNCHANGED <<polls, ret>>
     \/ /\ Busy
        /\ polls + 1 < MaxPolls
        /\ polls' = polls + 1
        /\ UNCHANGED <<pc, ret>>
     \/ /\ Busy
        /\ polls + 1 >= MaxPolls
        /\ Return("timeout", 0, 0)
        /\ UNCHANGED polls
  /\ UNCHANGED <<call, req, rhdr, sent, bufVars, fromHost, ecVars>>

\* Mutants of the two waits: not waiting at all, never giving up, sending the
\* packet again instead of giving up.
WaitFree_skipped ==
  /\ pc = "wait1"
  /\ pc' = "write"
  /\ UNCHANGED <<call, req, polls, ret, rhdr, sent, bufVars, fromHost, ecVars>>

WaitFree_forever ==
  /\ pc = "wait1"
  /\ ~Busy
  /\ pc' = "write"
  /\ UNCHANGED <<call, req, polls, ret, rhdr, sent, bufVars, fromHost, ecVars>>

WaitDone_resends ==
  /\ pc = "wait2"
  /\ pc' = IF Busy THEN "write" ELSE "result"
  /\ UNCHANGED <<call, req, polls, ret, rhdr, sent, bufVars, fromHost, ecVars>>

WaitFree == Wait("wait1", "write")
WaitDone == Wait("wait2", "result")

\* ECTransfer(EC_XFER_WRITE, 0, ...): header first, then the data.
WriteHeader ==
  /\ pc = "write"
  /\ hdr' = RequestHeader(call, req)
  /\ pc' = IF req.outsize > 0 THEN "data" ELSE "start"
  /\ UNCHANGED <<call, req, polls, rhdr, ret, sent, body, fromHost, ecVars>>

WriteData ==
  /\ pc = "data"
  /\ body' = [by |-> HostWrote(call), adds |-> TRUE]
  /\ pc' = "start"
  /\ UNCHANGED <<call, req, polls, rhdr, ret, sent, hdr, fromHost, ecVars>>

\* FROM_HOST may come up too late for the host's next look at it.
Start_busyLater ==
  /\ pc = "start"
  /\ sent' = sent \union {call}
  /\ \/ fromHost' = TRUE
     \/ UNCHANGED fromHost
  /\ pc' = "wait2"
  /\ polls' = 0
  /\ UNCHANGED <<call, req, rhdr, ret, bufVars, ecVars>>

\* IoWrite8(EC_LPC_ADDR_HOST_CMD, EC_COMMAND_PROTOCOL_3).  The hardware raises
\* FROM_HOST with the write ("the busy flag is set by hardware").
Start ==
  /\ pc = "start"
  /\ sent' = sent \union {call}
  /\ fromHost' = TRUE
  /\ pc' = "wait2"
  /\ polls' = 0
  /\ UNCHANGED <<call, req, rhdr, ret, bufVars, ecVars>>

\* The EC's verdict is not looked at.
ReadResult_ignored ==
  /\ pc = "result"
  /\ pc' = "header"
  /\ UNCHANGED <<call, req, polls, rhdr, ret, sent, bufVars, fromHost, ecVars>>

\* The result byte: a nonzero one is passed on as -EECRESULT - i.
ReadResult ==
  /\ pc = "result"
  /\ IF result.error
       THEN Return("ec_error", result.about, 0)
       ELSE pc' = "header" /\ UNCHANGED ret
  /\ UNCHANGED <<call, req, polls, rhdr, sent, bufVars, fromHost, ecVars>>

\* The call a piece of the buffer answers: none, if the host wrote it.
Answers(w) == IF w.who = "ec" THEN w.call ELSE 0

\* The header is copied out of the buffer and its fields checked in order;
\* a response without data is complete, and is not checksummed.
ReadHeader ==
  /\ pc = "header"
  /\ rhdr' = hdr
  /\ \/ /\ hdr.ver # StructVersion
        /\ Return("header_version", 0, 0)
     \/ /\ hdr.ver = StructVersion
        /\ hdr.w6 # 0
        /\ Return("header", 0, 0)
     \/ /\ hdr.ver = StructVersion
        /\ hdr.w6 = 0
        /\ hdr.w4 > req.insize
        /\ Return("too_big", 0, 0)
     \/ /\ hdr.ver = StructVersion
        /\ hdr.w6 = 0
        /\ hdr.w4 <= req.insize
        /\ hdr.w4 = 0
        /\ Return("ok", Answers(hdr.by), 0)
     \/ /\ hdr.ver = StructVersion
        /\ hdr.w6 = 0
        /\ hdr.w4 <= req.insize
        /\ hdr.w4 > 0
        /\ pc' = "payload"
        /\ UNCHANGED ret
  /\ UNCHANGED <<call, req, polls, sent, bufVars, fromHost, ecVars>>

\* Header and data add up to zero only if the EC wrote them together.
ChecksumZero(h, b) == h.by = b.by /\ b.adds

\* The payload is copied out, checksummed, and only then given to the caller.
ReadPayload ==
  /\ pc = "payload"
  /\ IF ChecksumZero(rhdr, body)
       THEN Return("ok", Answers(body.by), rhdr.w4)
       ELSE Return("checksum", 0, 0)
  /\ UNCHANGED <<call, req, polls, rhdr, sent, bufVars, fromHost, ecVars>>

Host ==
  \/ WaitFree \/ WriteHeader \/ WriteData \/ Start
  \/ WaitDone \/ ReadResult \/ ReadHeader \/ ReadPayload

-----------------------------------------------------------------------------
(* The EC: not in this repository; what the host's code relies on.  It may  *)
(* be slow or stop anywhere (no fairness), refuse a request, or answer with *)
(* a response the host cannot accept.                                       *)

\* It takes the command: PROCESSING goes up before FROM_HOST comes down.  The
\* packet it reads is a request if host wrote all of it for one call.
EcTake ==
  /\ ec = "idle"
  /\ fromHost
  /\ fromHost' = FALSE
  /\ processing' = TRUE
  /\ ecCall' = IF hdr.by.who = "host" /\ (hdr.w6 > 0 => body.by = hdr.by)
                 THEN hdr.by.call ELSE 0
  /\ ec' = "taken"
  /\ UNCHANGED <<hostVars, bufVars, ran, result>>

\* It runs the request, or refuses it (always, if the packet is unreadable).
EcRun ==
  /\ ec = "taken"
  /\ ecCall > 0
  /\ ran' = [ran EXCEPT ![ecCall] = @ + 1]
  /\ ec' = "body"
  /\ UNCHANGED <<hostVars, bufVars, fromHost, processing, ecCall, result>>

EcRefuse ==
  /\ ec = "taken"
  /\ result' = [about |-> ecCall, error |-> TRUE]
  /\ ec' = "answered"
  /\ UNCHANGED <<hostVars, bufVars, fromHost, processing, ecCall, ran>>

\* It answers: data, header, result byte.
EcWriteBody ==
  /\ ec = "body"
  /\ \E good \in BOOLEAN : body' = [by |-> EcWrote(ecCall), adds |-> good]
  /\ ec' = "header"
  /\ UNCHANGED <<hostVars, hdr, fromHost, processing, ecCall, ran, result>>

EcWriteHeader ==
  /\ ec = "header"
  /\ \E v \in RespVersions, n \in RespLens, z \in RespReserved :
       hdr' = [by |-> EcWrote(ecCall), ver |-> v, w4 |-> n, w6 |-> z]
  /\ ec' = "result"
  /\ UNCHANGED <<hostVars, body, fromHost, processing, ecCall, ran, result>>

EcWriteResult ==
  /\ ec = "result"
  /\ \E bad \in BOOLEAN : result' = [about |-> ecCall, error |-> bad]
  /\ ec' = "answered"
  /\ UNCHANGED <<hostVars, bufVars, fromHost, processing, ecCall, ran>>

\* Only now does it lower PROCESSING.
EcDone ==
  /\ ec = "answered"
  /\ processing' = FALSE
  /\ ec' = "idle"
  /\ UNCHANGED <<hostVars, bufVars, fromHost, ecCall, ran, result>>

Ec ==
  \/ EcTake \/ EcRun \/ EcRefuse \/ EcWriteBody \/ EcWriteHeader
  \/ EcWriteResult \/ EcDone

\* All calls of the behaviour have been made and answered.
Finished ==
  /\ pc = "idle"
  /\ call = MaxCalls
  /\ ec = "idle"
  /\ ~fromHost
  /\ UNCHANGED vars

Next == BeginCall \/ Host \/ Ec \/ Finished

\* The host is one straight-line function; the EC promises nothing.
Spec == Init /\ [][Next]_vars /\ WF_vars(Host)

-----------------------------------------------------------------------------
(* Properties *)

\* The type invariant.
TypeOK ==
  /\ pc \in {"idle", "wait1", "write", "data", "start", "wait2", "result",
             "header", "payload"}
  /\ call \in 0 .. MaxCalls
  /\ req \in [outsize : OutSizes, insize : InSizes, version : CmdVersions]
  /\ polls \in 0 .. MaxPolls
  /\ hdr.by \in Writer /\ rhdr.by \in Writer /\ body.by \in Writer
  /\ ret.call \in 0 .. call
  /\ fromHost \in BOOLEAN /\ processing \in BOOLEAN
  /\ ec \in {"idle", "taken", "body", "header", "result", "answered"}
  /\ ecCall \in 0 .. MaxCalls
  /\ sent \subseteq Calls
  /\ ran \in [Calls -> Nat]

\* While the host touches the buffer or the data register, the EC does not
\* own them: it is at rest and no command is waiting for it.  This is what
\* the two calls of ECWaitForReady are for.
BufferExclusive ==
  pc \in {"write", "data", "start", "result", "header", "payload"}
    => ec = "idle" /\ ~Busy

\* A call that returns the EC's word - data or an error code - returns the
\* EC's word on that very call, never a late answer to an earlier one that
\* timed out; and data comes only from a call the EC really ran.
OwnAnswer ==
  /\ ret.code \in {"ok", "ec_error"} => ret.about = ret.call
  /\ ret.code = "ok" => ran[ret.call] = 1

\* The EC runs each call at most once, and one that was refused for its size
\* or gave up in the first wait (never started) not at all, now or later.
AtMostOnce == \A c \in Calls : ran[c] <= IF c \in sent THEN 1 ELSE 0

\* Every call returns, even if the EC hangs for good.
EveryCallReturns == pc # "idle" ~> pc = "idle"

\* The abstract call, with the host's program counter reduced to "in a call".
Rpc == INSTANCE HostCommandSpec WITH
  open <- pc # "idle",
  reply <- [call |-> ret.call, ok |-> ret.code = "ok",
            about |-> IF ret.code = "ok" THEN ret.about ELSE 0]

\* Host and EC together implement the at-most-once call of HostCommandSpec.
RpcSpec == Rpc!Spec
=============================================================================
