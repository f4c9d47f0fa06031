------------------------------ MODULE MCDUpdate ------------------------------
(***************************************************************************)
(* Small instances of DUpdate for TLC.                                     *)
(***************************************************************************)
EXTENDS DUpdate

(* Releases 1.9, 2.0 and 2.1.                                              *)
MCVersions == << <<1, 9>>, <<2, 0>>, <<2, 1>> >>

(* Releases list all their files, in one order or the other.               *)
MCLists == { <<"exe", "data">>, <<"data", "exe">> }

(* Slots are alike.                                                        *)
MCSlots == Permutations(Slots)
=============================================================================
