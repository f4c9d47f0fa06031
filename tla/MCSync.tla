------------------------------- MODULE MCSync -------------------------------
(***************************************************************************)
(* The users of DSyncFile for TLC.                                         *)
(***************************************************************************)
EXTENDS DSyncFile

(* Acts between any two file operations; any of them may fail.             *)
Busy ==
  [waits |-> FALSE, fails |-> TRUE, inverts |-> TRUE, ticks |-> 4, contents |-> 2]

(* Waits; long enough for three contents, each with its copy.              *)
Patient ==
  [waits |-> TRUE, fails |-> FALSE, inverts |-> FALSE, ticks |-> 7, contents |-> 3]

(* Waits too, with a disk that fails.                                      *)
Unlucky ==
  [waits |-> TRUE, fails |-> TRUE, inverts |-> FALSE, ticks |-> 5, contents |-> 2]

BusyOrPatient == {Busy, Patient}
OnlyUnlucky == {Unlucky}
=============================================================================
