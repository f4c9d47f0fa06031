----------------------------- MODULE DPreferences -----------------------------
(***************************************************************************)
(* Settings kept in a JSON file (lib/DPreferences.cpp): a tree that is     *)
(* loaded when the program starts and written over the file by Save, with  *)
(* a copy in a .bak file first if the program asks for it.  The file       *)
(* operations of Save are steps, between which the program may die.        *)
(***************************************************************************)
EXTENDS Integers

CONSTANTS
  Roots,          \* what the tree may hold
  NewRoot,        \* the tree of a new object
  Representable,  \* the trees JSON can hold: text or children at a node
  MaxTroubles     \* bound: crashes and saves that fail

ASSUME RootsAssumption == Representable \subseteq Roots /\ NewRoot \in Representable

ASSUME TroublesAssumption == MaxTroubles \in Nat

VARIABLES
  file, bak,      \* the settings file and its copy: a tree, NoFile or Torn
  alive, RootNode, Ready,
  at,             \* where Save is
  troubles,       \* history: crashes and failures so far
  careless,       \* history: a Save made no copy, or was given a tree that
                  \* JSON cannot hold
  saved           \* history: the settings the last Save wrote, or NoFile

disk == <<file, bak, saved>>
history == <<troubles, careless>>
vars == <<disk, alive, RootNode, Ready, at, history>>

NoFile == "no file"
Torn == "torn"
Whole(f) == f \in Roots

Init ==
  /\ file = NoFile /\ bak = NoFile /\ saved = NoFile
  /\ alive = FALSE /\ RootNode = NewRoot /\ Ready = FALSE /\ at = "idle"
  /\ troubles = 0 /\ careless = FALSE

Calm == UNCHANGED history
Trouble == troubles < MaxTroubles /\ troubles' = troubles + 1 /\ UNCHANGED careless

(* The constructor: a missing file is made by Save, or not looked for      *)
(* again; one that cannot be parsed leaves the object not ready.           *)
Construct(CreateIfNotExists) ==
  /\ ~alive /\ alive' = TRUE
  /\ RootNode' = IF Whole(file) THEN file ELSE NewRoot
  /\ Ready' = IF file = NoFile THEN CreateIfNotExists ELSE Whole(file)
  /\ at' = IF file = NoFile /\ CreateIfNotExists THEN "create" ELSE "idle"
  /\ UNCHANGED disk /\ Calm

Idle == alive /\ at = "idle"

(* Only a missing file changes Ready, and nothing sets it again.           *)
Load ==
  /\ Idle
  /\ Ready' = (Ready /\ file # NoFile)
  /\ RootNode' = IF Whole(file) THEN file ELSE RootNode
  /\ UNCHANGED <<disk, alive, at>> /\ Calm

(* Fault: copy_file with skip_existing, which keeps the first copy made.   *)
Save_FirstCopy(BackupBefore) ==
  /\ Idle /\ Ready
  /\ at' = IF BackupBefore /\ bak = NoFile THEN "backup" ELSE "open"
  /\ careless' = (careless \/ ~BackupBefore)
  /\ UNCHANGED <<disk, alive, RootNode, Ready, troubles>>

Save(BackupBefore) ==
  /\ Idle /\ Ready
  /\ at' = IF BackupBefore THEN "backup" ELSE "open"
  /\ careless' = (careless \/ ~BackupBefore)
  /\ UNCHANGED <<disk, alive, RootNode, Ready, troubles>>

(* copy_file over the .bak file.                                           *)
Backup ==
  /\ at = "backup"
  /\ \/ file # NoFile /\ bak' = Torn /\ at' = "copy" /\ Calm
     \/ file = NoFile /\ UNCHANGED bak /\ at' = "idle" /\ Calm
     \/ UNCHANGED bak /\ at' = "idle" /\ Trouble
  /\ UNCHANGED <<file, saved, alive, RootNode, Ready>>

Copy ==
  /\ at = "copy"
  /\ \/ bak' = file /\ at' = "open" /\ Calm
     \/ UNCHANGED bak /\ at' = "idle" /\ Trouble
  /\ UNCHANGED <<file, saved, alive, RootNode, Ready>>

(* write_json opens the file, which empties it, and then looks whether the *)
(* tree can be written at all.  "create" and "fill" are the same steps in  *)
(* the constructor, where a failure leaves the object not ready.           *)
Open ==
  /\ at \in {"open", "create"}
  /\ \/ /\ file' = Torn /\ at' = (IF at = "open" THEN "write" ELSE "fill")
        /\ UNCHANGED Ready /\ Calm
     \/ UNCHANGED file /\ Ready' = (at = "open") /\ at' = "idle" /\ Trouble
  /\ UNCHANGED <<bak, saved, alive, RootNode>>

WriteSettings ==
  /\ at \in {"write", "fill"} /\ at' = "idle"
  /\ \/ /\ RootNode \in Representable /\ file' = RootNode /\ saved' = RootNode
        /\ UNCHANGED Ready /\ Calm
     \/ /\ UNCHANGED <<file, saved>> /\ Ready' = (at = "write")
        /\ IF RootNode \in Representable THEN Trouble ELSE careless' = TRUE /\ UNCHANGED troubles
  /\ UNCHANGED <<bak, alive, RootNode>>

-----------------------------------------------------------------------------
(* The program edits the tree, ends, or dies.                              *)

Edit == \E t \in Roots : Idle /\ RootNode' = t /\ UNCHANGED <<disk, alive, Ready, at>> /\ Calm

End ==
  /\ Idle /\ alive' = FALSE /\ RootNode' = NewRoot /\ Ready' = FALSE
  /\ UNCHANGED <<disk, at>> /\ Calm

Crash ==
  /\ alive /\ alive' = FALSE /\ RootNode' = NewRoot /\ Ready' = FALSE /\ at' = "idle"
  /\ UNCHANGED disk /\ Trouble

Next ==
  \/ \E b \in BOOLEAN : Construct(b) \/ Save(b)
  \/ Load \/ Backup \/ Copy \/ Open \/ WriteSettings \/ Edit \/ End \/ Crash

Spec == Init /\ [][Next]_vars

-----------------------------------------------------------------------------
(* As long as every Save makes a copy first and the trees are ones JSON    *)
(* can hold, no single crash or failure loses what the last Save wrote: it *)
(* is in the file or in its copy, or a program is about to write newer.    *)
SettingsKept ==
  saved # NoFile /\ ~careless /\ troubles <= 1 => saved \in {file, bak} \/ at # "idle"
=============================================================================
