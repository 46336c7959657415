------------------------------ MODULE Console ------------------------------
(***************************************************************************)
(* cmd_console and PrintLogBuffer (Application/ECTool/ECTool.c): take a    *)
(* snapshot of the EC's log, then read and print it answer by answer until *)
(* an answer is empty.                                                     *)
(*                                                                         *)
(* A byte is its kind and, if the answer at hand put it into the buffer,   *)
(* its position in the log.  Bytes of earlier answers, and those of the    *)
(* stack behind the buffer, have position 0.  Two ECs are modelled: the    *)
(* one CrosECLib.h describes, whose answers end with a zero and which has  *)
(* a place for CONSOLE_READ_RECENT and one for CONSOLE_READ_NEXT, and the  *)
(* Null library, with no zero and one place.                               *)
(***************************************************************************)
EXTENDS Integers, Sequences, SequencesExt

CONSTANTS
  BufMax,     \* G_EC_MAX_RESPONSE
  LogMax      \* the longest log

VARIABLES
  cpc,        \* "off", "snapshot", "read", "failed", "done"
  null,       \* the EC is the Null library
  log,        \* the snapshot
  recent,     \* the EC's place for CONSOLE_READ_RECENT ...
  next,       \* ... and for CONSOLE_READ_NEXT: bytes of the log answered
  sub,        \* p.subcmd
  buf,        \* the response buffer, and as many bytes of stack behind it
  text,       \* ghost: what the last answer says, up to its zero
  printed,    \* ghost: what PrintLogBuffer made of it
  seen        \* ghost: positions of the log that have been printed

consoleVars == <<cpc, null, log, recent, next, sub, buf, text, printed, seen>>

Nul == [kind |-> "nul", at |-> 0]

\* buf is cleared; what is behind it is text of some sort or line feeds.
Start(stack) ==
  /\ cpc' = "snapshot"
  /\ null' \in BOOLEAN
  /\ buf' = [i \in 1 .. 2 * BufMax |->
               IF i <= BufMax THEN Nul ELSE [kind |-> stack, at |-> 0]]
  /\ sub' = "recent"
  /\ log' = <<>> /\ recent' = 0 /\ next' = 0
  /\ text' = <<>> /\ printed' = <<>> /\ seen' = {}

\* EC_CMD_CONSOLE_SNAPSHOT: the log stands still from here on; some first part
\* of it, perhaps all, was in the snapshot before.
Snapshot ==
  /\ cpc = "snapshot"
  /\ cpc' = "read"
  /\ log' \in BoundedSeq({"x", "cr", "lf"}, LogMax)
  /\ recent' \in IF null THEN {0} ELSE 0 .. Len(log')
  /\ UNCHANGED <<null, next, sub, buf, text, printed, seen>>

\* Any call may fail: an error is printed.
Fail ==
  /\ cpc \in {"snapshot", "read"}
  /\ cpc' = "failed"
  /\ UNCHANGED <<null, log, recent, next, sub, buf, text, printed, seen>>

-----------------------------------------------------------------------------
(* PrintLogBuffer *)

\* The bytes of b from bp on, at most n of them, up to a zero: "%.*a".
Upto(b, bp, n) ==
  LET stop == SelectInSubSeq(b, bp, Len(b), LAMBDA c : c.kind = "nul")
      last == IF stop = 0 THEN Len(b) ELSE stop - 1
  IN  SubSeq(b, bp, IF n < 0 \/ bp + n - 1 > last THEN last ELSE bp + n - 1)

\* ScanMem8: the first line feed among n bytes from bp on, 0 for none.
Scan(b, bp, n) == SelectInSubSeq(b, bp, bp + n - 1, LAMBDA c : c.kind = "lf")

\* Every line feed printed as a carriage return and a line feed, less the
\* carriage return that was there; a negative length is printed as no limit.
PrintLog(b, length) ==
  LET from[bp \in 1 .. Len(b) + 1] ==
        IF bp > length THEN <<>>
        ELSE IF b[bp].kind = "nul" THEN <<>>
        ELSE LET lf == Scan(b, bp, length)
                 segment == IF lf = 0 THEN length - (bp - 1)
                            ELSE IF lf > 1 /\ b[lf - 1].kind = "cr" THEN lf - bp - 1
                            ELSE lf - bp
             IN  IF lf = 0 THEN Upto(b, bp, segment)
                 ELSE Upto(b, bp, segment) \o <<b[lf]>> \o from[lf + 1]
  IN  from[1]

-----------------------------------------------------------------------------

\* The place the EC answers from, and how much it can answer.
Place == IF sub = "recent" \/ null THEN recent ELSE next
Room == IF null THEN BufMax ELSE BufMax - 1

\* A loop that takes a short answer for the last one.
Continues_full(rv, b) == rv = BufMax

\* while(rv > 0 && buf[0])
Continues(rv, b) == rv > 0 /\ b[1].kind # "nul"

\* EC_CMD_CONSOLE_READ answers with n bytes of the log, and what the code does
\* with the answer up to the end of its loop.
Read(n) ==
  /\ cpc = "read"
  /\ n <= Len(log) - Place /\ n <= Room
  /\ n = 0 => Place = Len(log)
  /\ LET rv == IF null THEN n ELSE n + 1
         fresh == [i \in 1 .. n |-> [kind |-> log[Place + i], at |-> Place + i]]
         b == [i \in DOMAIN buf |-> IF i <= n THEN fresh[i]
                                    ELSE IF i <= rv THEN Nul
                                    ELSE [buf[i] EXCEPT !.at = 0]]
     IN  /\ buf' = b
         /\ text' = fresh
         /\ printed' = IF rv > 0 THEN PrintLog(b, rv) ELSE <<>>
         /\ cpc' = IF Continues(rv, b) THEN "read" ELSE "done"
  /\ seen' = seen \union {printed'[i].at : i \in DOMAIN printed'}
  /\ IF sub = "recent" \/ null THEN recent' = Place + n /\ UNCHANGED next
                               ELSE next' = Place + n /\ UNCHANGED recent
  /\ sub' = "next"
  /\ UNCHANGED <<null, log>>

Init ==
  /\ cpc = "off" /\ null = FALSE /\ log = <<>> /\ recent = 0 /\ next = 0
  /\ sub = "recent" /\ buf = <<>> /\ text = <<>> /\ printed = <<>> /\ seen = {}

\* The loop body.
Answer == \E n \in 0 .. BufMax : Read(n)

Next ==
  \/ cpc \in {"off", "failed", "done"} /\ \E stack \in {"x", "lf"} : Start(stack)
  \/ Snapshot \/ Answer \/ Fail

Spec == Init /\ [][Next]_consoleVars

-----------------------------------------------------------------------------
(* Properties *)

\* Nothing of the log gets lost between the EC and the screen: of every
\* answer all bytes are printed in their order, but for a carriage return at
\* its end or before a line feed, however lines and answers cut the log; and a
\* command that ends without error has printed the whole snapshot, unless its
\* first question, for what is new, had an empty answer.
ConsoleComplete ==
  /\ \A i \in DOMAIN printed : printed[i].at # 0 => printed[i] \in ToSet(text)
  /\ \A i, j \in DOMAIN printed :
       i < j /\ printed[i].at # 0 /\ printed[j].at # 0 => printed[i].at < printed[j].at
  /\ \A k \in DOMAIN text :
       \/ text[k] \in ToSet(printed)
       \/ text[k].kind = "cr" /\ (k = Len(text) \/ text[k + 1].kind = "lf")
  /\ cpc = "done" /\ seen # {} =>
       \A p \in DOMAIN log : p \in seen \/ log[p] = "cr"

\* "Prints a string": no byte and no line feed but those of the answer.
PrintsAnswersOnly == \A i \in DOMAIN printed : printed[i].at # 0
=============================================================================
