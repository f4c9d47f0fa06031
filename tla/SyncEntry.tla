------------------------------ MODULE SyncEntry ------------------------------
(***************************************************************************)
(* One pair of files as its owner sees it, whatever happens on the disk:   *)
(* each call of DoSync takes one of the Outcomes of what the pair          *)
(* remembers.  DSyncFile implements it; DSyncWatcher is built on it.       *)
(***************************************************************************)
EXTENDS SyncOutcomes

VARIABLES pair, ret

evars == <<pair, ret>>

EInit == pair \in PairType /\ ret = "SYNC_NOT_YET"

ENext == \E o \in Outcomes(pair) : pair' = o.pair /\ ret' = o.ret

ESpec == EInit /\ [][ENext]_evars
=============================================================================
