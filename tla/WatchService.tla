---------------------------- MODULE WatchService ----------------------------
(***************************************************************************)
(* What a watcher object promises the program that owns it, whichever of   *)
(* DPathWatcher and DSyncWatcher it is: a list of entries and at most one  *)
(* background thread that walks it.  The list is edited, and the object is *)
(* destroyed, only while no thread is walking it.                          *)
(***************************************************************************)
EXTENDS Naturals

VARIABLES
  running,     \* a background thread is using the object
  entries,     \* the number of entries in the list
  destroyed    \* the destructor has run

svars == <<running, entries, destroyed>>

SInit == running = FALSE /\ entries = 0 /\ destroyed = FALSE

(* A thread is launched only over a list that has something in it.         *)
Launch ==
  /\ ~running /\ ~destroyed /\ entries > 0
  /\ running' = TRUE
  /\ UNCHANGED <<entries, destroyed>>

Finish ==
  /\ running
  /\ running' = FALSE
  /\ UNCHANGED <<entries, destroyed>>

Edit ==
  /\ ~running /\ ~destroyed
  /\ entries' \in {entries + 1, 0}
  /\ UNCHANGED <<running, destroyed>>

Destroy ==
  /\ ~running /\ ~destroyed
  /\ destroyed' = TRUE /\ entries' \in {entries, 0}
  /\ UNCHANGED running

SNext == Launch \/ Finish \/ Edit \/ Destroy

SSpec == SInit /\ [][SNext]_svars
=============================================================================
