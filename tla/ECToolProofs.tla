---------------------------- MODULE ECToolProofs ----------------------------
(***************************************************************************)
(* Proofs about ECTool: the protocol's life, the SPI flash across images,  *)
(* packets in flight.  An invariant of the images is proved from           *)
(* LifecycleNext, which is all that a session does to them.                *)
(***************************************************************************)
EXTENDS ECTool, TLAPS

LifecycleNext ==
  \/ Load \/ Enter \/ Stay \/ End \/ Unload \/ Restart
  \/ \E l \in Libs : Construct(l) \/ Destruct(l)

\* Nothing installed is without its owner, and the owner is loaded.
Owned ==
  /\ db = handles
  /\ \A p \in db : p.image \in Loaded /\ p.lib = machine
  /\ \A p, q \in db : p = q
  /\ stage = "destruct" => \A l \in Libs \ left : Mine(l) \notin db

\* The constructor for this machine's EC has seen to it.
Provided ==
  machine # "none" /\ ~missed =>
    /\ stage = "construct" => machine \in left \/ db # {}
    /\ stage = "run" => db # {}

LifecycleInv == LifecycleTypeOK /\ Owned /\ Provided

LEMMA LifecycleStart == Init => LifecycleInv
<1> SUFFICES ASSUME LifecycleInit PROVE LifecycleInv
  BY DEF Init
<1>1. LifecycleTypeOK
  <2>1. image \in 0 .. MaxImages
    BY LifecycleAssumption DEF LifecycleInit
  <2>2. handles = {} /\ db = {} /\ left = {} /\ resident = {}
    BY DEF LifecycleInit
  <2>3. /\ machine \in Libs \union {"none"} /\ missed \in BOOLEAN
        /\ stage \in {"idle", "construct", "run", "destruct"}
    BY DEF LifecycleInit
  <2> QED
    BY <2>1, <2>2, <2>3 DEF LifecycleTypeOK
<1>2. Owned /\ Provided
  BY DEF LifecycleInit, Owned, Provided
<1> QED
  BY <1>1, <1>2 DEF LifecycleInv

\* Every step of a session is a step of the images, or none of theirs.
LEMMA SessionStep == [Next]_vars => [LifecycleNext]_life
<1> SUFFICES ASSUME [Next]_vars PROVE [LifecycleNext]_life
  OBVIOUS
<1> USE DEF LifecycleNext
<1>1. CASE Start
  BY <1>1 DEF Start
<1>2. CASE Constructor
  BY <1>2 DEF Constructor
<1>3. CASE EntryPoint
  BY <1>3 DEF EntryPoint
<1>4. CASE DriverStays
  BY <1>4 DEF DriverStays
<1>5. CASE Reboot \/ EcReboots \/ PowerCycle
  BY <1>5 DEF Reboot, EcReboots, PowerCycle, Reset, Boot
<1>6. CASE Return
  BY <1>6 DEF Return
<1>7. CASE Destructor
  BY <1>7 DEF Destructor
<1>8. CASE EcTakes \/ EcRuns \/ Rest \/ UNCHANGED vars
  BY <1>8 DEF EcTakes, EcRuns, Rest, vars
<1>9. CASE Locate \/ Console
  BY <1>9 DEF Locate, Console
<1>10. CASE TestProbes \/ AskOnce \/ AskPanic \/ VersionBuildInfo \/ FlashreadOpen \/ Unlock
  BY <1>10 DEF TestProbes, AskOnce, AskPanic, VersionBuildInfo, FlashreadOpen, Unlock, quiet
<1>11. CASE VersionRead \/ FlashreadRead \/ FlashreadFile \/ LockAgain \/ ReflashBegin \/ Reflash
  BY <1>11 DEF VersionRead, FlashreadRead, FlashreadFile, LockAgain, ReflashBegin, Reflash, quiet
<1>12. CASE WriteSize \/ EmptyWrites
  BY <1>12 DEF WriteSize, EmptyWrites, quiet
<1> QED
  BY <1>1, <1>2, <1>3, <1>4, <1>5, <1>6, <1>7, <1>8, <1>9, <1>10, <1>11, <1>12 DEF Next, Image

\* A session of the programs and the EC, with all their calls, does to images and
\* protocol nothing that the lifecycle of the libraries does not provide for.
THEOREM SessionIsLifecycle == Spec => LifecycleInit /\ [][LifecycleNext]_life
BY SessionStep, PTL DEF Spec, Init

LEMMA LifecycleStep == LifecycleInv /\ [Next]_vars => LifecycleInv'
<1> SUFFICES ASSUME LifecycleInv, [LifecycleNext]_life PROVE LifecycleInv'
  BY SessionStep
<1> USE LifecycleAssumption DEF LifecycleInv, LifecycleTypeOK, Owned, Provided, Loaded, Mine
<1>1. CASE Load
  <2>1. LifecycleTypeOK'
    <3>1. image' \in 0 .. MaxImages
      BY <1>1 DEF Load
    <3>2. left' \subseteq Libs /\ missed' \in BOOLEAN
      BY <1>1 DEF Load
    <3>3. stage' \in {"idle", "construct", "run", "destruct"}
      BY <1>1 DEF Load
    <3> QED
      BY <1>1, <3>1, <3>2, <3>3 DEF Load
  <2>2. Owned'
    BY <1>1 DEF Load
  <2>3. Provided'
    BY <1>1 DEF Load, Libs
  <2> QED
    BY <2>1, <2>2, <2>3
<1>2. ASSUME NEW l \in Libs, Construct(l) PROVE LifecycleInv'
  <2>1. CASE /\ machine = l /\ db = {}
             /\ db' = {Mine(l)} /\ handles' = handles \union {Mine(l)}
             /\ UNCHANGED missed
    <3>1. handles' = {Mine(l)}
      BY <2>1
    <3>2. LifecycleTypeOK'
      <4>1. Mine(l) \in [image : 0 .. MaxImages, lib : Libs]
        OBVIOUS
      <4>2. /\ handles' \subseteq [image : 0 .. MaxImages, lib : Libs]
            /\ db' \subseteq [image : 0 .. MaxImages, lib : Libs]
        BY <2>1, <3>1, <4>1
      <4>3. left' \subseteq Libs /\ missed' \in BOOLEAN
        BY <1>2, <2>1 DEF Construct
      <4> QED
        BY <1>2, <4>2, <4>3 DEF Construct
    <3>3. Owned'
      <4>1. \A p \in db' : p.image = image /\ p.lib = machine
        BY <2>1
      <4>2. \A p, q \in db' : p = q
        BY <2>1
      <4> QED
        BY <1>2, <2>1, <3>1, <4>1, <4>2 DEF Construct
    <3>4. Provided'
      BY <1>2, <2>1 DEF Construct
    <3> QED
      BY <3>2, <3>3, <3>4
  <2>2. CASE UNCHANGED <<db, handles, missed>> /\ (machine # l \/ db # {})
    <3>1. LifecycleTypeOK' /\ Owned'
      BY <1>2, <2>2 DEF Construct
    <3>2. Provided'
      BY <1>2, <2>2 DEF Construct
    <3> QED
      BY <3>1, <3>2
  <2>3. CASE UNCHANGED <<db, handles>> /\ missed' = TRUE
    BY <1>2, <2>3 DEF Construct
  <2> QED
    BY <1>2, <2>1, <2>2, <2>3 DEF Construct, Install
<1>3. CASE Enter
  BY <1>3 DEF Enter, Libs
<1>4. CASE Stay
  BY <1>4 DEF Stay
<1>5. CASE End
  BY <1>5 DEF End
<1>6. ASSUME NEW l \in Libs, Destruct(l) PROVE LifecycleInv'
  BY <1>6 DEF Destruct
<1>7. CASE Unload
  <2>1. \A p \in db : p.image \in resident
    BY <1>7 DEF Unload
  <2> QED
    BY <1>7, <2>1 DEF Unload
<1>8. CASE Restart
  BY <1>8 DEF Restart
<1>9. CASE UNCHANGED life
  BY <1>9 DEF life
<1> QED
  BY <1>1, <1>2, <1>3, <1>4, <1>5, <1>6, <1>7, <1>8, <1>9 DEF LifecycleNext

LEMMA LifecycleHolds == Spec => []LifecycleInv
BY LifecycleStart, LifecycleStep, PTL DEF Spec

\* Whoever finds the protocol finds one that works, after any number of images
\* and restarts (ProtocolSound).
THEOREM ProtocolWorks == Spec => []ProtocolSound
<1>1. LifecycleInv => ProtocolSound
  BY DEF LifecycleInv, Owned, ProtocolSound
<1> QED
  BY <1>1, LifecycleHolds, PTL

\* Every image is served, and no image takes the protocol of another away
\* (Served).
THEOREM EveryImageIsServed == Spec => []Served
<1>1. LifecycleInv => Served
  BY DEF LifecycleInv, Owned, Provided, Served
<1> QED
  BY <1>1, LifecycleHolds, PTL

-----------------------------------------------------------------------------
(* The session's own variables *)

\* TypeOK without the images.
SessionTypeOK ==
  /\ kind \in Programs
  /\ pc \in {"off", "start", "ask", "p_ask", "p_again", "v_build", "v_unlock", "v_version",
             "f_open", "f_unlock", "f_read", "f_file", "out", "r_check", "r_unlock",
             "r_work", "r_flash", "r_endless", "r_fault", "r_lock", "c_snapshot", "c_read", "exit"}
  /\ pc # "off" <=> stage = "run"
  /\ unlocked \in BOOLEAN /\ lost \in BOOLEAN
  /\ spi \in BOOLEAN /\ before \in BOOLEAN
  /\ \/ packet = NoPacket
     \/ packet \in [request : Requests, code : Nat, at : {"buffer", "taken"}]

\* A packet in flight is as it was sent, or has been probed over.
Genuine == packet # NoPacket => packet.code \in {Code[packet.request], ProbeWord}

\* Where version and flashread can be, and where they hold the flash unlocked.
Placed ==
  /\ kind = "version" =>
       pc \in {"off", "start", "v_build", "v_unlock", "v_version", "out", "exit"}
  /\ kind = "flashread" =>
       pc \in {"off", "start", "f_open", "f_unlock", "f_read", "f_file", "out", "exit"}
  /\ unlocked => pc \in {"v_version", "f_read", "f_file", "out"}
  /\ pc \in {"v_version", "f_read", "f_file"} => unlocked

\* While they read, nothing is in flight that could lock the flash.
Undisturbed == pc \in {"v_version", "f_read"} => spi /\ packet = NoPacket

\* While they do not hold it unlocked it is as they found it.
Balanced ==
  kind \in {"version", "flashread"} /\ stage # "idle" /\ ~unlocked =>
    lost \/ (spi => before)

SessionInv == SessionTypeOK /\ Genuine /\ Placed /\ Undisturbed /\ Balanced

LEMMA SessionStart == Init => SessionInv
BY DEF Init, LifecycleInit, SessionInv, SessionTypeOK, Genuine, Placed, Undisturbed,
       Balanced, Programs

LEMMA CodeFacts ==
  ASSUME NEW r \in Requests
  PROVE  Code[r] \in Nat /\ Sum(Code[r]) # Sum(ProbeWord)
<1>0. Code[r] \in {0, 2, 4, 17, 18, 19, 151, 152, 210, 211, 15873, 15881, 15884}
  BY DEF Code, Requests, FlashRequests, Notifies
<1>1. Code[r] \in Nat
  BY <1>0
<1>2. Sum(Code[r]) # Sum(ProbeWord)
  BY <1>0 DEF Sum, ProbeWord
<1> QED
  BY <1>1, <1>2

LEMMA SentFacts ==
  ASSUME NEW r \in Requests
  PROVE  /\ Sent(r) \in [request : Requests, code : Nat, at : {"buffer", "taken"}]
         /\ Sent(r).code = Code[Sent(r).request]
BY CodeFacts DEF Sent

LEMMA AccessFacts ==
  ASSUME NEW r, NEW s \in BOOLEAN
  PROVE  /\ Access(r, s) \subseteq BOOLEAN
         /\ r = "Unlock" => Access(r, s) = {TRUE}
         /\ r \notin {"Unlock", "Lock", "RebootEc"} => Access(r, s) = {s}
BY DEF Access

\* What a call keeps, wherever the program goes on.
LEMMA CallStep ==
  ASSUME SessionTypeOK, Genuine, NEW at, NEW r \in Requests, NEW ok, NEW bad,
         Call(at, r, ok, bad)
  PROVE  /\ pc = at /\ pc' \in {ok, bad}
         /\ spi' \in BOOLEAN /\ before' = before /\ lost' \in BOOLEAN
         /\ \/ packet' = NoPacket
            \/ packet' \in [request : Requests, code : Nat, at : {"buffer", "taken"}]
         /\ Genuine'
<1>1. CASE Ok(at, r, ok)
  BY <1>1, AccessFacts DEF Ok, SessionTypeOK, Genuine
<1>2. CASE Bad(at, r, bad)
  <2>1. spi' \in BOOLEAN /\ lost' \in BOOLEAN /\ before' = before
    BY <1>2, AccessFacts DEF Bad, SessionTypeOK
  <2>2. packet' = packet \/ packet' = Sent(r)
    BY <1>2 DEF Bad
  <2>3. \/ packet' = NoPacket
        \/ packet' \in [request : Requests, code : Nat, at : {"buffer", "taken"}]
    BY <2>2, SentFacts DEF SessionTypeOK
  <2>4. Genuine'
    BY <2>2, SentFacts DEF Genuine
  <2> QED
    BY <1>2, <2>1, <2>3, <2>4 DEF Bad
<1> QED
  BY <1>1, <1>2 DEF Call

\* The places of a program that runs.
Running ==
  {"start", "ask", "p_ask", "p_again", "v_build", "v_unlock", "v_version", "f_open",
   "f_unlock", "f_read", "f_file", "out", "r_check", "r_unlock", "r_work", "r_flash",
   "r_endless", "r_fault", "r_lock", "c_snapshot", "c_read", "exit"}

\* Types and packets do not depend on which program calls.
LEMMA CallTypes ==
  ASSUME SessionTypeOK, Genuine, NEW at \in Running, NEW r \in Requests,
         NEW ok \in Running, NEW bad \in Running, Call(at, r, ok, bad),
         UNCHANGED <<stage, kind>>, unlocked' \in BOOLEAN
  PROVE  SessionTypeOK' /\ Genuine'
<1>1. pc = at /\ pc' \in Running /\ Genuine'
  BY CallStep
<1>2. /\ spi' \in BOOLEAN /\ before' \in BOOLEAN /\ lost' \in BOOLEAN
      /\ \/ packet' = NoPacket
         \/ packet' \in [request : Requests, code : Nat, at : {"buffer", "taken"}]
  BY CallStep DEF SessionTypeOK
<1>3. stage' = "run" /\ kind' \in Programs
  BY <1>1 DEF SessionTypeOK, Running
<1> QED
  BY <1>1, <1>2, <1>3 DEF SessionTypeOK, Running

\* The places where neither version nor flashread holds the flash unlocked.
Elsewhere ==
  {"start", "ask", "p_ask", "p_again", "v_build", "v_unlock", "f_open", "f_unlock",
   "r_check", "r_unlock", "r_work", "r_flash", "r_endless", "r_fault", "r_lock", "c_snapshot", "c_read", "exit"}

LEMMA Places ==
  /\ "ask" \in Elsewhere /\ "exit" \in Elsewhere
  /\ "p_ask" \in Elsewhere /\ "p_again" \in Elsewhere
  /\ "r_unlock" \in Elsewhere /\ "r_work" \in Elsewhere
  /\ "r_flash" \in Elsewhere /\ "r_endless" \in Elsewhere /\ "r_lock" \in Elsewhere
  /\ "c_snapshot" \in Elsewhere /\ "c_read" \in Elsewhere
  /\ Elsewhere \subseteq Running
BY DEF Elsewhere, Running

LEMMA RequestFacts ==
  /\ FlashRequests \subseteq Requests
  /\ "Unlock" \in Requests /\ "Lock" \in Requests
  /\ "GetPanicInfo" \in Requests
  /\ "ConsoleSnapshot" \in Requests /\ "ConsoleRead" \in Requests
BY DEF Requests, Notifies

\* A program other than version and flashread.
LEMMA OtherCall ==
  ASSUME SessionInv, NEW at \in Elsewhere, NEW r \in Requests,
         NEW ok \in Elsewhere, NEW bad \in Elsewhere, Call(at, r, ok, bad),
         UNCHANGED <<stage, kind, unlocked>>,
         kind \notin {"version", "flashread"}
  PROVE  SessionInv'
<1>1. SessionTypeOK' /\ Genuine'
  BY CallTypes, Places DEF SessionInv, SessionTypeOK
<1>2. pc = at /\ pc' \in {ok, bad}
  BY CallStep DEF SessionInv
<1>3. pc \notin {"v_version", "f_read", "f_file", "out"}
  BY <1>2 DEF Elsewhere
<1>4. pc' \notin {"v_version", "f_read", "f_file", "out"}
  BY <1>2 DEF Elsewhere
<1>5. Placed'
  BY <1>3, <1>4 DEF SessionInv, Placed
<1>6. Undisturbed' /\ Balanced'
  BY <1>4 DEF Undisturbed, Balanced
<1> QED
  BY <1>1, <1>5, <1>6 DEF SessionInv

\* The same, for a program at a place that is neither's.
LEMMA CallElsewhere ==
  ASSUME SessionInv, NEW at \in Elsewhere, NEW r \in Requests,
         NEW ok \in Elsewhere, NEW bad \in Elsewhere, Call(at, r, ok, bad),
         UNCHANGED <<stage, kind, unlocked>>,
         at \notin {"start", "v_build", "v_unlock", "f_open", "f_unlock", "exit"}
  PROVE  SessionInv'
<1>1. pc = at
  BY CallStep DEF SessionInv
<1>2. kind \notin {"version", "flashread"}
  BY <1>1 DEF SessionInv, Placed, Elsewhere
<1> QED
  BY <1>2, OtherCall

\* The programs of one, two or a few calls, cmd_reflash and cmd_console.
LEMMA OtherPrograms ==
  ASSUME SessionInv, AskOnce \/ AskPanic \/ Reflash \/ EmptyWrites \/ Console
  PROVE  SessionInv'
<1>0. UNCHANGED <<stage, kind, unlocked>>
  BY DEF AskOnce, AskPanic, Reflash, EmptyWrites, Console, quiet, life
<1>1. CASE AskOnce
  <2>1. Once[kind] \in Requests
    BY <1>1 DEF AskOnce, Once, Requests, FlashRequests, Notifies
  <2>2. PICK r \in Requests : Call("ask", r, "exit", "exit")
    BY <1>1, <2>1 DEF AskOnce
  <2> QED
    BY <2>2, <1>0, Places, CallElsewhere
<1>2. CASE AskPanic
  <2>1. CASE Call("p_ask", "GetPanicInfo", "p_again", "exit")
    BY <2>1, <1>0, Places, RequestFacts, CallElsewhere
  <2>2. CASE Call("p_again", "GetPanicInfo", "exit", "exit")
    BY <2>2, <1>0, Places, RequestFacts, CallElsewhere
  <2> QED
    BY <1>2, <2>1, <2>2 DEF AskPanic
<1>3. CASE Reflash
  <2>1. CASE Call("r_unlock", "Unlock", "r_work", "exit")
    BY <2>1, <1>0, Places, RequestFacts, CallElsewhere
  <2>2. ASSUME NEW r \in FlashRequests, Call("r_work", r, "r_lock", "exit")
        PROVE  SessionInv'
    BY <2>2, <1>0, Places, RequestFacts, CallElsewhere
  <2>3. ASSUME NEW r \in FlashRequests, Call("r_flash", r, "exit", "exit")
        PROVE  SessionInv'
    BY <2>3, <1>0, Places, RequestFacts, CallElsewhere
  <2>4. CASE Call("r_lock", "Lock", "exit", "exit")
    BY <2>4, <1>0, Places, RequestFacts, CallElsewhere
  <2> QED
    BY <1>3, <2>1, <2>2, <2>3, <2>4 DEF Reflash
<1>4. CASE Console
  <2>1. \/ Call("c_snapshot", "ConsoleSnapshot", "c_read", "exit")
        \/ Call("c_read", "ConsoleRead", "c_read", "exit")
        \/ Call("c_read", "ConsoleRead", "exit", "exit")
    BY <1>4 DEF Console, Call
  <2>2. CASE Call("c_snapshot", "ConsoleSnapshot", "c_read", "exit")
    BY <2>2, <1>0, Places, RequestFacts, CallElsewhere
  <2>3. CASE Call("c_read", "ConsoleRead", "c_read", "exit")
    BY <2>3, <1>0, Places, RequestFacts, CallElsewhere
  <2>4. CASE Call("c_read", "ConsoleRead", "exit", "exit")
    BY <2>4, <1>0, Places, RequestFacts, CallElsewhere
  <2> QED
    BY <2>1, <2>2, <2>3, <2>4
<1>5. CASE EmptyWrites
  BY <1>5, <1>0, Places, RequestFacts, CallElsewhere DEF EmptyWrites, FlashRequests
<1> QED
  BY <1>1, <1>2, <1>3, <1>4, <1>5

\* cmd_version and cmd_flashread up to the unlocking.
LEMMA BeforeUnlock ==
  ASSUME SessionInv, VersionBuildInfo \/ FlashreadOpen
  PROVE  SessionInv'
<1>1. CASE VersionBuildInfo
  <2>1. SessionTypeOK' /\ Genuine'
    <3>1. unlocked' \in BOOLEAN /\ UNCHANGED <<stage, kind>>
      BY <1>1 DEF VersionBuildInfo, quiet, life, SessionInv, SessionTypeOK
    <3> QED
      BY <1>1, <3>1, CallTypes DEF VersionBuildInfo, SessionInv, Requests, Running
  <2>2. spi' = spi /\ pc = "v_build" /\ pc' \in {"v_unlock", "out"} /\ (lost => lost')
    <3>1. Access("GetBuildInfo", spi) = {spi}
      BY DEF Access
    <3>2. lost => lost'
      BY <1>1, Zenon DEF VersionBuildInfo, Call, Ok, Bad
    <3>3. spi' = spi /\ pc = "v_build" /\ pc' \in {"v_unlock", "out"}
      BY <1>1, <3>1 DEF VersionBuildInfo, Call, Ok, Bad
    <3> QED
      BY <3>2, <3>3
  <2>3. UNCHANGED <<stage, kind, unlocked, before>>
    BY <1>1 DEF VersionBuildInfo, quiet, life, Call, Ok, Bad
  <2> QED
    BY <2>1, <2>2, <2>3 DEF SessionInv, Placed, Undisturbed, Balanced
<1>2. CASE FlashreadOpen
  <2>1. /\ pc = "f_open" /\ pc' \in {"f_unlock", "out"}
        /\ UNCHANGED <<stage, kind, unlocked, lost, spi, packet, before>>
    BY <1>2 DEF FlashreadOpen, quiet, life, ec
  <2>2. SessionTypeOK'
    BY <2>1 DEF SessionInv, SessionTypeOK
  <2>3. Genuine' /\ Undisturbed'
    BY <2>1 DEF SessionInv, Genuine, Undisturbed
  <2>4. Placed' /\ Balanced'
    BY <2>1 DEF SessionInv, Placed, Balanced
  <2> QED
    BY <2>2, <2>3, <2>4 DEF SessionInv
<1> QED
  BY <1>1, <1>2

\* The unlocking: when it succeeds nothing is in flight.
LEMMA UnlockStep == ASSUME SessionInv, Unlock PROVE SessionInv'
<1>1. unlocked' \in BOOLEAN /\ UNCHANGED <<stage, kind>>
  <2>1. unlocked' = (pc' # "out") /\ UNCHANGED quiet
    BY Zenon DEF Unlock
  <2> QED
    BY <2>1 DEF quiet, life
<1>2. SessionTypeOK' /\ Genuine'
  <2>1. SessionTypeOK /\ Genuine
    BY DEF SessionInv
  <2>2. /\ "v_unlock" \in Running /\ "v_version" \in Running /\ "out" \in Running
        /\ "f_unlock" \in Running /\ "f_read" \in Running
    BY DEF Running
  <2>3. CASE Call("v_unlock", "Unlock", "v_version", "out")
    BY <1>1, <2>1, <2>2, <2>3, CallTypes, RequestFacts
  <2>4. CASE Call("f_unlock", "Unlock", "f_read", "out")
    BY <1>1, <2>1, <2>2, <2>4, CallTypes, RequestFacts
  <2> QED
    BY <2>3, <2>4, Zenon DEF Unlock
<1>3. before' = before /\ pc \in {"v_unlock", "f_unlock"}
  BY DEF Unlock, Call, Ok, Bad
<1>4. CASE pc' = "out"
  <2>1. lost'
    BY <1>4 DEF Unlock, Call, Ok, Bad, Notifies
  <2>2. ~unlocked'
    BY <1>4 DEF Unlock
  <2> QED
    BY <1>1, <1>2, <1>3, <1>4, <2>1, <2>2
       DEF Unlock, SessionInv, SessionTypeOK, Placed, Undisturbed, Balanced
<1>5. CASE pc' # "out"
  <2>1. Ok(pc, "Unlock", pc') /\ pc' = IF pc = "v_unlock" THEN "v_version" ELSE "f_read"
    BY <1>5 DEF Unlock, Call, Ok, Bad
  <2>2. spi' = TRUE /\ packet' = NoPacket
    BY <2>1 DEF Ok, Access
  <2>3. unlocked'
    BY <1>5 DEF Unlock
  <2> QED
    BY <1>1, <1>2, <1>3, <2>1, <2>2, <2>3
       DEF SessionInv, SessionTypeOK, Placed, Undisturbed, Balanced
<1> QED
  BY <1>4, <1>5

\* The reading, and the file.
LEMMA ReadStep ==
  ASSUME SessionInv, VersionRead \/ FlashreadRead \/ FlashreadFile
  PROVE  SessionInv'
<1>1. CASE VersionRead
  <2>1. SessionTypeOK' /\ Genuine'
    <3>1. unlocked' \in BOOLEAN /\ UNCHANGED <<stage, kind>>
      BY <1>1 DEF VersionRead, quiet, life, SessionInv, SessionTypeOK
    <3> QED
      BY <1>1, <3>1, CallTypes DEF VersionRead, SessionInv, Requests, Running
  <2>2. pc = "v_version" /\ pc' = "out" /\ UNCHANGED <<stage, kind, unlocked>>
    BY <1>1 DEF VersionRead, quiet, life, Call, Ok, Bad
  <2> QED
    BY <2>1, <2>2 DEF SessionInv, Placed, Undisturbed, Balanced
<1>2. CASE FlashreadRead
  <2>1. SessionTypeOK' /\ Genuine'
    <3>1. unlocked' \in BOOLEAN /\ UNCHANGED <<stage, kind>>
      BY <1>2 DEF FlashreadRead, quiet, life, SessionInv, SessionTypeOK
    <3>2. "FlashRead" \in Requests /\ {"f_read", "f_file", "out"} \subseteq Running
      BY DEF Requests, FlashRequests, Running
    <3>3. Call("f_read", "FlashRead", "f_file", "out")
      BY <1>2 DEF FlashreadRead
    <3> QED
      BY <3>1, <3>2, <3>3, CallTypes DEF SessionInv
  <2>2. /\ pc = "f_read" /\ pc' \in {"f_file", "out"}
        /\ UNCHANGED <<stage, kind, unlocked>>
    BY <1>2 DEF FlashreadRead, quiet, life, Call, Ok, Bad
  <2> QED
    BY <2>1, <2>2 DEF SessionInv, Placed, Undisturbed, Balanced
<1>3. CASE FlashreadFile
  BY <1>3 DEF FlashreadFile, quiet, life, ec, SessionInv, SessionTypeOK, Genuine, Placed,
     Undisturbed, Balanced
<1> QED
  BY <1>1, <1>2, <1>3

\* The last ditch: locked, or its notification is lost.
LEMMA LockStep == ASSUME SessionInv, LockAgain PROVE SessionInv'
<1>1. unlocked' = FALSE /\ UNCHANGED <<stage, kind>> /\ pc = "out" /\ pc' = "exit"
  BY DEF LockAgain, quiet, life, Call, Ok, Bad
<1>2. CASE unlocked /\ Call("out", "Lock", "exit", "exit")
  <2>1. SessionTypeOK' /\ Genuine'
    BY <1>1, <1>2, CallTypes DEF SessionInv, Requests, Notifies, Running
  <2>2. lost' \/ spi' = FALSE
    BY <1>2 DEF Call, Ok, Bad, Notifies, Access
  <2> QED
    BY <1>1, <2>1, <2>2 DEF SessionInv, Placed, Undisturbed, Balanced
<1>3. CASE ~unlocked /\ UNCHANGED <<lost, ec>>
  BY <1>1, <1>3 DEF ec, SessionInv, SessionTypeOK, Genuine, Placed, Undisturbed, Balanced
<1> QED
  BY <1>2, <1>3 DEF LockAgain

LEMMA InFlight == ASSUME NEW p, p.at \in {"buffer", "taken"} PROVE p # NoPacket
<1>1. NoPacket.at = "none"
  BY DEF NoPacket
<1> QED
  BY <1>1

\* A probe changes at most the code of a packet.
LEMMA ProbeStep ==
  ASSUME SessionTypeOK, Genuine, NEW l, Probed(l)
  PROVE  /\ packet' = NoPacket <=> packet = NoPacket
         /\ \/ packet' = NoPacket
            \/ packet' \in [request : Requests, code : Nat, at : {"buffer", "taken"}]
         /\ Genuine'
<1>1. CASE packet' = packet
  BY <1>1 DEF SessionTypeOK, Genuine
<1>2. CASE packet # NoPacket /\ packet' = [packet EXCEPT !.code = ProbeWord]
  <2>1. packet \in [request : Requests, code : Nat, at : {"buffer", "taken"}]
    BY <1>2 DEF SessionTypeOK
  <2>2. packet' \in [request : Requests, code : Nat, at : {"buffer", "taken"}]
    BY <1>2, <2>1 DEF ProbeWord
  <2>3. packet'.code = ProbeWord /\ packet'.at \in {"buffer", "taken"}
    BY <1>2, <2>1
  <2>4. packet' # NoPacket
    BY <2>3, InFlight
  <2> QED
    BY <1>2, <2>2, <2>3, <2>4 DEF Genuine
<1> QED
  BY <1>1, <1>2, InFlight DEF Probed

\* The program begins, ends, or has nothing to do with the EC.
LEMMA OtherSteps ==
  ASSUME SessionInv, LifecycleInv,
         Start \/ Constructor \/ EntryPoint \/ Locate \/ TestProbes \/ DriverStays
           \/ ReflashBegin \/ WriteSize \/ Return \/ Destructor
  PROVE  SessionInv'
<1> USE DEF SessionInv, SessionTypeOK, Placed, Undisturbed, Balanced
<1>1. CASE Start
  BY <1>1 DEF Start, Load, con, Genuine
<1>2. CASE Constructor
  <2>1. PICK l \in Libs : Construct(l) /\ Probed(l)
    BY <1>2 DEF Constructor
  <2>2. UNCHANGED <<stage, run, spi, before>>
    BY <1>2, <2>1 DEF Constructor, Construct
  <2>3. stage = "construct" /\ pc = "off"
    BY <2>1 DEF Construct
  <2> QED
    BY <2>1, <2>2, <2>3, ProbeStep DEF run
<1>3. CASE EntryPoint
  BY <1>3 DEF EntryPoint, Enter, ec, Genuine
<1>4. CASE Locate
  <2>1. pc = "start" /\ pc' \in {"exit", First[kind]} /\ (pc' # "exit" => kind \in DOMAIN First)
    BY <1>4 DEF Locate
  <2>2. kind \in DOMAIN First =>
          /\ First[kind] \in Running \ {"v_version", "f_read", "f_file", "out"}
          /\ kind = "version" => First[kind] = "v_build"
          /\ kind = "flashread" => First[kind] = "f_open"
    BY DEF First, Running
  <2>3. UNCHANGED <<stage, kind, unlocked, lost, spi, packet, before>>
    BY <1>4 DEF Locate, life, ec
  <2> QED
    BY <2>1, <2>2, <2>3 DEF Genuine, Running
<1>5. CASE TestProbes
  <2>1. Probed("mec") \/ packet' = packet
    BY <1>5 DEF TestProbes
  <2>2. /\ packet' = NoPacket <=> packet = NoPacket
        /\ \/ packet' = NoPacket
           \/ packet' \in [request : Requests, code : Nat, at : {"buffer", "taken"}]
        /\ Genuine'
    BY <2>1, ProbeStep DEF Genuine
  <2>3. pc = "start" /\ pc' \in {"ask", "exit"} /\ kind = "ectest"
    BY <1>5 DEF TestProbes
  <2>4. UNCHANGED <<stage, kind, unlocked, lost, spi, before>>
    BY <1>5 DEF TestProbes, quiet, life
  <2> QED
    BY <2>2, <2>3, <2>4
<1>6. CASE DriverStays
  BY <1>6 DEF DriverStays, Stay, life, ec, Genuine
<1>7. CASE ReflashBegin \/ WriteSize
  BY <1>7 DEF ReflashBegin, WriteSize, quiet, life, ec, Genuine
<1>8. CASE Return
  BY <1>8 DEF Return, End, ec, Genuine
<1>9. CASE Destructor
  <2>1. stage = "destruct" /\ stage' \in {"destruct", "idle"}
    BY <1>9 DEF Destructor, Destruct, Unload
  <2>2. UNCHANGED <<run, ec>>
    BY <1>9 DEF Destructor
  <2> QED
    BY <2>1, <2>2 DEF run, ec, Genuine
<1> QED
  BY <1>1, <1>2, <1>3, <1>4, <1>5, <1>6, <1>7, <1>8, <1>9

\* The EC's own steps, and the machine's restart.
LEMMA EcSteps ==
  ASSUME SessionInv,
         EcTakes \/ EcRuns \/ EcReboots \/ Reboot \/ PowerCycle \/ Rest \/ UNCHANGED vars
  PROVE  SessionInv'
<1> USE DEF SessionInv, SessionTypeOK, Placed, Undisturbed, Balanced
<1>1. CASE EcTakes
  <2>1. packet # NoPacket /\ packet' = [packet EXCEPT !.at = "taken"]
    BY <1>1, InFlight DEF EcTakes
  <2>2. packet' \in [request : Requests, code : Nat, at : {"buffer", "taken"}] /\ Genuine'
    BY <2>1 DEF Genuine
  <2>3. UNCHANGED <<stage, run, spi, before>>
    BY <1>1 DEF EcTakes, life
  <2> QED
    BY <2>1, <2>2, <2>3 DEF run
<1>2. CASE EcRuns
  <2>1. packet # NoPacket /\ packet' = NoPacket /\ UNCHANGED <<stage, run>>
    BY <1>2, InFlight DEF EcRuns, life
  <2>2. /\ spi' \in BOOLEAN /\ before' \in BOOLEAN
        /\ (spi' = spi /\ before' = before) \/ before' = spi'
    <3>1. Access(packet.request, spi) \subseteq BOOLEAN
      BY AccessFacts
    <3> QED
      BY <1>2, <3>1 DEF EcRuns
  <2> QED
    BY <2>1, <2>2 DEF run, Genuine
<1>3. CASE EcReboots \/ Reboot
  <2>1. Reset
    BY <1>3 DEF EcReboots, Reboot
  <2> QED
    BY <2>1 DEF Reset, Boot, Restart, Genuine, Programs
<1>4. CASE Rest \/ UNCHANGED vars
  BY <1>4 DEF Rest, vars, life, run, ec, Genuine
<1>5. CASE PowerCycle
  <2>1. spi' \in BOOLEAN /\ before' = spi' /\ packet' \in {packet, NoPacket}
    BY <1>5 DEF PowerCycle
  <2>2. stage' = "idle" /\ pc' = "off" /\ kind' = "help" /\ unlocked' = FALSE /\ lost' = FALSE
    BY <1>5 DEF PowerCycle, Boot, Restart
  <2> QED
    BY <2>1, <2>2 DEF Genuine, Programs
<1> QED
  BY <1>1, <1>2, <1>3, <1>4, <1>5

LEMMA SessionInvStep == SessionInv /\ LifecycleInv /\ [Next]_vars => SessionInv'
BY OtherPrograms, BeforeUnlock, UnlockStep, ReadStep, LockStep, OtherSteps, EcSteps
   DEF Next, Image

LEMMA SessionHolds == Spec => []SessionInv
BY SessionStart, SessionInvStep, LifecycleHolds, PTL DEF Spec

\* Type correctness (TypeOK).
THEOREM TypeCorrect == Spec => []TypeOK
<1>1. LifecycleInv /\ SessionInv => TypeOK
  BY DEF LifecycleInv, SessionInv, SessionTypeOK, TypeOK
<1> QED
  BY <1>1, LifecycleHolds, SessionHolds, PTL

\* A packet that is probed over while it waits is refused, for every request
\* of the package (RunsAsSent): no code has the sum of the probe's bytes.
THEOREM ProbesAreHarmless == Spec => []RunsAsSent
<1>1. SessionInv => RunsAsSent
  BY CodeFacts DEF SessionInv, SessionTypeOK, Genuine, RunsAsSent, Valid
<1> QED
  BY <1>1, SessionHolds, PTL

\* Nothing that earlier images left in flight locks the flash between the
\* unlocking and the reading (ReadsUnlocked).
THEOREM ReadingIsUnlocked == Spec => []ReadsUnlocked
<1>1. SessionInv => ReadsUnlocked
  BY DEF SessionInv, Undisturbed, ReadsUnlocked
<1> QED
  BY <1>1, SessionHolds, PTL

\* version and flashread give the flash back, over any number of images before
\* them (Relocked).
THEOREM FlashIsRelocked == Spec => []Relocked
<1>1. SessionInv => Relocked
  <2>1. SessionInv /\ stage = "destruct" => ~unlocked
    BY DEF SessionInv, SessionTypeOK, Placed
  <2> QED
    BY <2>1 DEF SessionInv, Balanced, Relocked
<1> QED
  BY <1>1, SessionHolds, PTL
=============================================================================
