-------------------------- MODULE HostCommandSpec --------------------------
(***************************************************************************)
(* What a user of the CrosEC protocol may rely on (Protocol/CrosEC.h,      *)
(* SendCommand): a remote procedure call, one outstanding at a time, that  *)
(* the EC runs at most once, never after it has begun a later one, and     *)
(* that reports success only with the answer to that very call.            *)
(* The abstract specification that HostCommand implements.                 *)
(***************************************************************************)
EXTENDS Integers

CONSTANT MaxCalls      \* bound on the calls of one behaviour

Calls == 1 .. MaxCalls

VARIABLES
  call,      \* the number of the latest call (0 before the first)
  open,      \* that call has not returned yet
  sent,      \* the calls that have been handed to the EC
  ran,       \* how often the EC has run each call
  reply      \* the latest return: which call, success or not, whose answer

vars == <<call, open, sent, ran, reply>>

NoReply == [call |-> 0, ok |-> FALSE, about |-> 0]

Init ==
  /\ call = 0
  /\ open = FALSE
  /\ sent = {}
  /\ ran = [c \in Calls |-> 0]
  /\ reply = NoReply

\* The caller starts a new call once the previous one has returned.
Begin ==
  /\ ~open
  /\ call < MaxCalls
  /\ call' = call + 1
  /\ open' = TRUE
  /\ UNCHANGED <<sent, ran, reply>>

\* A call that is refused on entry never opens.
Refuse ==
  /\ ~open
  /\ call < MaxCalls
  /\ call' = call + 1
  /\ reply' = [call |-> call', ok |-> FALSE, about |-> 0]
  /\ UNCHANGED <<open, sent, ran>>

\* The call is handed to the EC, once.
Send ==
  /\ open
  /\ call \notin sent
  /\ sent' = sent \union {call}
  /\ UNCHANGED <<call, open, ran, reply>>

\* The EC runs a call it was handed: at most once, and, however late, never
\* after it has run a later one.
Run(c) ==
  /\ c \in sent
  /\ \A d \in Calls : d >= c => ran[d] = 0
  /\ ran' = [ran EXCEPT ![c] = 1]
  /\ UNCHANGED <<call, open, sent, reply>>

\* Success means: the EC ran this call, and the data is its answer to it.
Succeed ==
  /\ open
  /\ ran[call] = 1
  /\ open' = FALSE
  /\ reply' = [call |-> call, ok |-> TRUE, about |-> call]
  /\ UNCHANGED <<call, sent, ran>>

\* A failure promises nothing about whether the call ran or will run.
Fail ==
  /\ open
  /\ open' = FALSE
  /\ reply' = [call |-> call, ok |-> FALSE, about |-> 0]
  /\ UNCHANGED <<call, sent, ran>>

Next ==
  \/ Begin
  \/ Refuse
  \/ Send
  \/ \E c \in Calls : Run(c)
  \/ Succeed
  \/ Fail

Spec == Init /\ [][Next]_vars
=============================================================================
