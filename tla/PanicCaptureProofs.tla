------------------------ MODULE PanicCaptureProofs ------------------------
(***************************************************************************)
(* Proofs about PanicCapture, for every number of boots and of panics.     *)
(*                                                                         *)
(* Why no panic is saved twice: a record is saved only as one the EC had   *)
(* not reported before (~buf.old), and reading it that way made it a       *)
(* reported one.  So at most one run at a time holds a panic as new, and   *)
(* once it is saved nobody can: that is OnlyNew.  Why the saved panic      *)
(* gives way to later ones only: the EC's record is of its latest panic or *)
(* of none, and the driver leaves at once when it is of none (Latest);     *)
(* what it holds as new was never saved, so that it is not the saved one.  *)
(***************************************************************************)
EXTENDS PanicCapture, TLAPS

Holding == pc \in {"read2", "check", "save"}

\* p can still be read as new, or is held as new by the driver.
Unread(p) == panic.id = p /\ ~panic.reported
HeldNew(p) == Holding /\ buf.id = p /\ ~buf.old

OnlyNew ==
  /\ pc = "save" => ~buf.old
  /\ saved # 0 => saves[saved] = 1
  /\ \A p \in Panics :
       /\ saves[p] <= 1
       /\ Unread(p) \/ HeldNew(p) \/ p > panics => saves[p] = 0
       /\ ~(Unread(p) /\ HeldNew(p))

Latest ==
  /\ panic.id \in {0, panics}
  /\ panic.reported => panic.id # 0
  /\ saved <= panics
  /\ Holding => buf.id \in saved .. panics

IInv == TypeOK /\ OnlyNew /\ Latest

-----------------------------------------------------------------------------

LEMMA InitIInv == Init => IInv
BY PanicAssumption
   DEF Init, IInv, TypeOK, OnlyNew, Latest, Holding, Unread, HeldNew, Blank, Panics

\* Every step of a run, of the EC and of the machine keeps the invariant.
LEMMA NextIInv == IInv /\ [Next]_vars => IInv'
<1> SUFFICES ASSUME IInv, [Next]_vars PROVE IInv'
  OBVIOUS
<1> USE PanicAssumption DEF IInv, Holding, Panics
<1>1. CASE Boot
  <2>1. TypeOK'
    <3>1. told' \subseteq Panics
      <4>1. panic.reported => panic.id \in Panics
        BY DEF TypeOK, Latest
      <4>2. told' = IF panic.reported THEN told \union {panic.id} ELSE told
        BY <1>1 DEF Boot
      <4> QED BY <4>1, <4>2, Zenon DEF TypeOK
    <3>2. boots' \in 0 .. MaxBoots
      BY <1>1 DEF Boot, TypeOK
    <3>3. buf' \in [id : 0 .. MaxPanics, old : BOOLEAN]
      BY <1>1 DEF Boot, Blank
    <3> QED BY <1>1, <3>1, <3>2, <3>3 DEF Boot, TypeOK
  <2>2. OnlyNew'
    BY <1>1 DEF Boot, Blank, TypeOK, OnlyNew, Unread, HeldNew
  <2>3. Latest'
    BY <1>1 DEF Boot, TypeOK, Latest
  <2> QED BY <2>1, <2>2, <2>3
<1>2. CASE Setup
  BY <1>2 DEF Setup, Leave, TypeOK, OnlyNew, Latest, Unread, HeldNew
<1>3. CASE Read1
  <2>1. TypeOK'
    <3>1. [id |-> panic.id, old |-> panic.reported]
             \in [id : 0 .. MaxPanics, old : BOOLEAN]
      BY Zenon DEF TypeOK
    <3>2. [panic EXCEPT !.reported = TRUE] \in [id : 0 .. MaxPanics, reported : BOOLEAN]
      BY DEF TypeOK
    <3>3. buf' \in [id : 0 .. MaxPanics, old : BOOLEAN]
      BY <1>3, <3>1 DEF Read1, Answered, Failed, TypeOK
    <3>4. panic' \in [id : 0 .. MaxPanics, reported : BOOLEAN]
      BY <1>3, <3>2 DEF Read1, Answered, Failed, TypeOK
    <3>5. pc' \in {"read2", "check", "save"} => buf'.id # 0
      BY <1>3 DEF Read1, Answered, Failed, Leave, TypeOK
    <3>6. pc' \in {"off", "setup", "read1", "read2", "check", "save"}
      BY <1>3 DEF Read1, Leave, TypeOK
    <3>7. exit' \in {"none", "error", "no_panic", "old", "saved", "power_loss"}
      BY <1>3 DEF Read1, Leave, TypeOK
    <3>8. size' \in {"whole", "zero", "library_error", "ec_error"}
      BY <1>3 DEF Read1, TypeOK
    <3> QED BY <1>3, <3>3, <3>4, <3>5, <3>6, <3>7, <3>8 DEF Read1, TypeOK
  <2>2. OnlyNew'
    BY <1>3 DEF Read1, Answered, Failed, Leave, TypeOK, OnlyNew, Latest, Unread, HeldNew
  <2>3. Latest'
    BY <1>3 DEF Read1, Answered, Failed, Leave, TypeOK, Latest
  <2> QED BY <2>1, <2>2, <2>3
<1>4. CASE Read2
  <2>1. TypeOK'
    <3>1. [id |-> panic.id, old |-> panic.reported]
             \in [id : 0 .. MaxPanics, old : BOOLEAN]
      BY Zenon DEF TypeOK
    <3>2. [panic EXCEPT !.reported = TRUE] \in [id : 0 .. MaxPanics, reported : BOOLEAN]
      BY DEF TypeOK
    <3>3. buf' \in [id : 0 .. MaxPanics, old : BOOLEAN]
      BY <1>4, <3>1 DEF Read2, Answered, Failed, TypeOK
    <3>4. panic' \in [id : 0 .. MaxPanics, reported : BOOLEAN]
      BY <1>4, <3>2 DEF Read2, Answered, Failed, TypeOK
    <3>5. pc' \in {"read2", "check", "save"} => buf'.id # 0
      BY <1>4 DEF Read2, Answered, Failed, Leave, TypeOK
    <3>6. pc' \in {"off", "setup", "read1", "read2", "check", "save"}
      BY <1>4 DEF Read2, Leave, TypeOK
    <3>7. exit' \in {"none", "error", "no_panic", "old", "saved", "power_loss"}
      BY <1>4 DEF Read2, Leave, TypeOK
    <3>8. size' \in {"whole", "zero", "library_error", "ec_error"}
      BY <1>4 DEF Read2, TypeOK
    <3> QED BY <1>4, <3>3, <3>4, <3>5, <3>6, <3>7, <3>8 DEF Read2, TypeOK
  <2>2. OnlyNew'
    BY <1>4 DEF Read2, Answered, Failed, TypeOK, OnlyNew, Latest, Unread, HeldNew
  <2>3. Latest'
    BY <1>4 DEF Read2, Answered, Failed, TypeOK, Latest
  <2> QED BY <2>1, <2>2, <2>3
<1>5. CASE Check
  BY <1>5 DEF Check, Leave, TypeOK, OnlyNew, Latest, Unread, HeldNew
<1>6. CASE Save
  <2>1. TypeOK'
    <3>1. saved' \in 0 .. MaxPanics
      BY <1>6 DEF Save, TypeOK
    <3>2. saves' \in [Panics -> Nat]
      BY <1>6 DEF Save, TypeOK
    <3> QED BY <1>6, <3>1, <3>2 DEF Save, Leave, TypeOK
  <2>2. OnlyNew'
    BY <1>6 DEF Save, Leave, TypeOK, OnlyNew, Latest, Unread, HeldNew
  <2>3. Latest'
    BY <1>6 DEF Save, Leave, TypeOK, Latest
  <2> QED BY <2>1, <2>2, <2>3
<1>7. CASE EcPanics
  <2>1. TypeOK'
    BY <1>7 DEF EcPanics, TypeOK
  <2>2. OnlyNew'
    BY <1>7 DEF EcPanics, TypeOK, OnlyNew, Latest, Unread, HeldNew
  <2>3. Latest'
    BY <1>7 DEF EcPanics, TypeOK, Latest
  <2> QED BY <2>1, <2>2, <2>3
<1>8. CASE EcForgets
  BY <1>8 DEF EcForgets, TypeOK, OnlyNew, Latest, Unread, HeldNew
<1>9. CASE OthersAsk
  BY <1>9 DEF OthersAsk, TypeOK, OnlyNew, Latest, Unread, HeldNew
<1>10. CASE PowerLoss
  BY <1>10 DEF PowerLoss, Leave, TypeOK, OnlyNew, Latest, Unread, HeldNew
<1>11. CASE UNCHANGED vars
  BY <1>11 DEF vars, TypeOK, OnlyNew, Latest, Unread, HeldNew
<1> QED
  BY <1>1, <1>2, <1>3, <1>4, <1>5, <1>6, <1>7, <1>8, <1>9, <1>10, <1>11
     DEF Next, Driver, Rest

LEMMA AlwaysIInv == Spec => []IInv
BY InitIInv, NextIInv, PTL DEF Spec

-----------------------------------------------------------------------------

\* Type correctness; in particular a run past its first question holds a panic.
THEOREM TypeCorrect == Spec => []TypeOK
BY AlwaysIInv, PTL DEF IInv

\* No panic is saved twice, by however many boots of the driver.
THEOREM NoPanicSavedTwice == Spec => []SavedOnce
<1>1. IInv => SavedOnce
  BY DEF IInv, OnlyNew, SavedOnce
<1> QED BY <1>1, AlwaysIInv, PTL

\* The saved panic gives way only in a run that holds a later one: to its
\* record, or to a bare header when the second question returned no record.
THEOREM SavedNeverGoesBack == Spec => NeverBack
<1> DEFINE Gives == saved' # saved =>
                      /\ buf.id > saved
                      /\ saved' = IF size = "whole" THEN buf.id ELSE 0
<1>1. IInv /\ [Next]_vars => [Gives]_vars
  <2> SUFFICES ASSUME IInv, Next PROVE Gives
    BY DEF vars
  <2>1. CASE Save
    <3>1. /\ saved \in Nat /\ buf.id \in Nat /\ saved <= buf.id
          /\ buf.id \in Panics /\ buf.id # 0 /\ ~buf.old
      BY <2>1, PanicAssumption DEF Save, IInv, TypeOK, OnlyNew, Latest, Holding, Panics
    <3>2. saves[buf.id] = 0
      BY <2>1, <3>1 DEF Save, IInv, OnlyNew, HeldNew, Holding
    <3>3. buf.id # saved
      <4>1. saved # 0 => saves[saved] # 0
        BY DEF IInv, OnlyNew
      <4>2. ASSUME buf.id = saved PROVE FALSE
        BY <3>1, <3>2, <4>1, <4>2, Zenon
      <4> QED BY <4>2
    <3>4. saved' # saved => saved' = IF size = "whole" THEN buf.id ELSE 0
      BY <2>1 DEF Save
    <3> QED BY <3>1, <3>3, <3>4
  <2>2. CASE UNCHANGED saved
    BY <2>2
  <2> QED
    BY <2>1, <2>2 DEF Next, Driver, Boot, Setup, Read1, Read2, Check,
                      EcPanics, EcForgets, OthersAsk, PowerLoss, Rest, vars
<1> QED BY <1>1, AlwaysIInv, PTL DEF Spec, NeverBack
=============================================================================
