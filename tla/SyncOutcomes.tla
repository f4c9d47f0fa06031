---------------------------- MODULE SyncOutcomes ----------------------------
(***************************************************************************)
(* The answers DSyncFile::DoSync may give (lib/DSyncFile.cpp), by what the *)
(* pair remembers: whether Source was there at the last call, whether the  *)
(* paths are the same, and whether the last call ended in an error.        *)
(***************************************************************************)

Status == {"SYNC_ERR_BHO", "SYNC_ERR_COPY", "SYNC_ERR_FILE_NOT_FOUND",
           "SYNC_ERR_SAME_AS_DEST", "SYNC_NOT_YET", "SYNC_NO_NEEDED",
           "SYNC_DONE", "SYNC_RESTORED", "SYNC_NOT_READY"}

(* The statuses below 0.                                                   *)
Errors == {"SYNC_ERR_BHO", "SYNC_ERR_COPY", "SYNC_ERR_FILE_NOT_FOUND",
           "SYNC_ERR_SAME_AS_DEST"}

PairType == [ready : BOOLEAN, same : BOOLEAN, erred : BOOLEAN]

(* LastSyncStatus becomes last, and status is returned: they differ only   *)
(* after a copy that follows an error.                                     *)
Answer(p, ready, last, status) ==
  [pair |-> [ready |-> ready, same |-> p.same, erred |-> last \in Errors],
   ret  |-> status]

Plain(p, ready, status) == Answer(p, ready, status, status)

MissingAnswer(p) ==
  Plain(p, FALSE, IF p.ready THEN "SYNC_ERR_FILE_NOT_FOUND"
                             ELSE "SYNC_NOT_READY")

CopyAnswer(p) ==
  Answer(p, TRUE, "SYNC_DONE",
         IF p.erred THEN "SYNC_RESTORED" ELSE "SYNC_DONE")

PresentAnswers(p) ==
  IF p.same THEN {Plain(p, FALSE, "SYNC_ERR_SAME_AS_DEST")}
  ELSE IF ~p.ready THEN {Plain(p, TRUE, "SYNC_RESTORED")}
  ELSE {CopyAnswer(p)} \cup
       {Plain(p, TRUE, s) :
          s \in {"SYNC_NO_NEEDED", "SYNC_ERR_COPY", "SYNC_ERR_BHO"}}

Outcomes(p) == {MissingAnswer(p)} \cup PresentAnswers(p)
=============================================================================
