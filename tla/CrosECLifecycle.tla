-------------------------- MODULE CrosECLifecycle --------------------------
(***************************************************************************)
(* The images of the package as they come and go, and the protocol         *)
(* EFI_CROSEC_PROTOCOL in the firmware's database: constructors and        *)
(* destructors of Library/MicrochipCrosECLib and Library/AzaleaCrosECLib,  *)
(* both linked into every image (FrameworkHacksPkg.dsc).                   *)
(*                                                                         *)
(* An image is constructed, runs, and is destructed and unloaded, or, a    *)
(* driver that starts well, stays.  What it does when it runs is another   *)
(* module's; only one image runs at a time.                                *)
(***************************************************************************)
EXTENDS Integers, FiniteSets

CONSTANT MaxImages    \* bound on the images of one behaviour

ASSUME LifecycleAssumption == MaxImages \in Nat

\* The two libraries, and with them the EC each can talk to.
Libs == {"mec", "npcx"}

VARIABLES
  machine,   \* the EC of this machine: one of Libs, or "none"; never changes
  stage,     \* "idle", or of the latest image: "construct", "run", "destruct"
  image,     \* the number of the latest image
  left,      \* libraries whose constructor, or destructor, has not run
  handles,   \* libraries with mProtocolHandle # NULL, each in its image
  db,        \* the installed protocols, each with the image it points into
  resident,  \* images that stay loaded
  missed     \* ghost: a constructor of this image should have installed the
             \* protocol and did not

life == <<machine, stage, image, left, handles, db, resident, missed>>

LifecycleInit ==
  /\ machine \in Libs \union {"none"}
  /\ stage = "idle"
  /\ image = 0
  /\ left = {} /\ handles = {}
  /\ db = {}
  /\ resident = {}
  /\ missed = FALSE

Load ==
  /\ stage = "idle"
  /\ image < MaxImages
  /\ image' = image + 1
  /\ stage' = "construct"
  /\ left' = Libs
  /\ missed' = FALSE
  /\ UNCHANGED <<machine, handles, db, resident>>

Mine(l) == [image |-> image, lib |-> l]

\* No refusal by the firmware: the same device path installed twice.
Install_twice(l) ==
  /\ db' = db \union {Mine(l)}
  /\ handles' = handles \union {Mine(l)}
  /\ UNCHANGED missed

\* InstallMultipleProtocolInterfaces refuses a device path it has, whoever
\* installed it; or it fails, and the image runs without.
Install(l) ==
  \/ /\ db = {}
     /\ db' = {Mine(l)}
     /\ handles' = handles \union {Mine(l)}
     /\ UNCHANGED missed
  \/ /\ db = {}
     /\ missed' = TRUE
     /\ UNCHANGED <<db, handles>>
  \/ /\ db # {}
     /\ UNCHANGED <<db, handles, missed>>

\* A constructor looks for "EC" in the memory map its way; it finds it on the
\* machine it is for only.  The order of the constructors is the linker's.
Construct(l) ==
  /\ stage = "construct"
  /\ l \in left
  /\ left' = left \ {l}
  /\ \/ machine = l /\ Install(l)
     \/ machine # l /\ UNCHANGED <<db, handles, missed>>
  /\ UNCHANGED <<machine, stage, image, resident>>

Enter ==
  /\ stage = "construct"
  /\ left = {}
  /\ stage' = "run"
  /\ UNCHANGED <<machine, image, left, handles, db, resident, missed>>

\* A driver whose entry point succeeds.
Stay ==
  /\ stage = "run"
  /\ stage' = "idle"
  /\ resident' = resident \union {image}
  /\ UNCHANGED <<machine, image, left, handles, db, missed>>

\* An application, or a driver that returns an error, EFI_ABORTED included.
End ==
  /\ stage = "run"
  /\ stage' = "destruct"
  /\ left' = Libs
  /\ UNCHANGED <<machine, image, handles, db, resident, missed>>

\* A destructor without mProtocolHandle: it finds the protocol by its GUID.
Destruct_finds(l) ==
  /\ stage = "destruct"
  /\ l \in left
  /\ left' = left \ {l}
  /\ db' = {p \in db : p.lib # l}
  /\ handles' = handles \ {Mine(l)}
  /\ UNCHANGED <<machine, stage, image, resident, missed>>

\* mProtocolHandle tells a protocol of one's own.  Nobody holds it open (all
\* clients only locate it), so that it can be uninstalled.
Destruct(l) ==
  /\ stage = "destruct"
  /\ l \in left
  /\ left' = left \ {l}
  /\ db' = IF Mine(l) \in handles THEN db \ {Mine(l)} ELSE db
  /\ handles' = handles \ {Mine(l)}
  /\ UNCHANGED <<machine, stage, image, resident, missed>>

Unload ==
  /\ stage = "destruct"
  /\ left = {}
  /\ stage' = "idle"
  /\ UNCHANGED <<machine, image, left, handles, db, resident, missed>>

\* Nothing is unloaded.
Restart_warm == UNCHANGED life

\* The machine starts again: nothing is loaded.
Restart ==
  /\ stage' = "idle"
  /\ left' = {} /\ handles' = {}
  /\ db' = {}
  /\ resident' = {}
  /\ missed' = FALSE
  /\ UNCHANGED <<machine, image>>

Loaded == resident \union (IF stage = "idle" THEN {} ELSE {image})

LifecycleTypeOK ==
  /\ machine \in Libs \union {"none"}
  /\ stage \in {"idle", "construct", "run", "destruct"}
  /\ image \in 0 .. MaxImages
  /\ left \subseteq Libs
  /\ handles \subseteq [image : 0 .. MaxImages, lib : Libs]
  /\ db \subseteq [image : 0 .. MaxImages, lib : Libs]
  /\ resident \subseteq 0 .. MaxImages
  /\ missed \in BOOLEAN
=============================================================================
