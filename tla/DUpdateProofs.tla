--------------------------- MODULE DUpdateProofs ----------------------------
(***************************************************************************)
(* Proofs about DUpdate for any number of processes, releases, lists of    *)
(* files, crashes and failures.                                            *)
(***************************************************************************)
EXTENDS DUpdate, TLAPS

Role == {"none", "main", "updater"}
Place ==
  {"idle", "pending", "dropUpdater", "dropMark", "fetch", "copyInfo", "parse",
   "download", "copyFile", "copyUpdater", "spawn", "item", "unbackup",
   "backup", "install", "modify", "save", "clean", "mark", "runMain"}
Read == Rules \cup {NoRules, Unread}
Proc ==
  [role : Role, at : Place, ver : Release \cup {0}, Ready : BOOLEAN,
   UpdateData : Read, item : Nat \ {0}]

(* The files and the rules keep to their types ...                         *)
DiskType ==
  /\ repo \in Rules /\ shelf \in [Files -> Release]
  /\ app \in [Files -> Content] /\ bak \in [Files -> Content]
  /\ upd \in [Files -> Content] /\ cfg \in Content
  /\ info \in Rules \cup {NoRules}
  /\ updater \in Content
  /\ troubles \in 0..MaxTroubles

FlagsType == justUpdate \in BOOLEAN /\ shared \in BOOLEAN /\ amid \in BOOLEAN

(* ... and so do the processes, which are at a file of their list, or past *)
(* its end where they do not use one.                                      *)
ItemOK(p) ==
  /\ p.item <= Len(p.UpdateData.list) + 1
  /\ p.at \in {"copyFile", "unbackup", "backup", "install"} =>
       p.item <= Len(p.UpdateData.list)
  /\ p.at = "pending" => p.item = 1

ProcType == proc \in [Slots -> Proc] /\ \A s \in Slots : ItemOK(proc[s])

TypeInv == DiskType /\ FlagsType /\ ProcType

USE DEF remote, marks

-----------------------------------------------------------------------------
(* Facts about the data.                                                   *)
LEMMA UnreadFields == Unread = [ver |-> -1, list |-> <<>>, modify |-> "none"]
  BY DEF Unread, NoRules

LEMMA ReadLists ==
  ASSUME NEW d \in Read
  PROVE  /\ d.list \in Seq(Files) /\ Len(d.list) \in Nat
         /\ d.ver \in Release \cup {0, -1}
<1>1. CASE d \in Rules
  <2>1. d.list \in Lists /\ d.ver \in Release BY <1>1 DEF Rules
  <2>2. d.list \in Seq(Files) BY <2>1, RulesAssumption DEF Files
  <2> QED BY <2>1, <2>2
<1>2. CASE d \in {NoRules, Unread}
  <2>1. d.list = <<>> /\ d.ver \in {0, -1} BY <1>2, UnreadFields DEF NoRules
  <2> QED BY <2>1
<1> QED BY <1>1, <1>2 DEF Read

LEMMA Indices ==
  ASSUME NEW L \in Seq(Files), NEW i \in DOMAIN L
  PROVE  i \in Nat /\ 1 <= i /\ i <= Len(L) /\ L[i] \in Files
  OBVIOUS

LEMMA ProcFields ==
  ASSUME NEW p \in Proc
  PROVE  /\ p.role \in Role /\ p.at \in Place /\ p.ver \in Release \cup {0}
         /\ p.UpdateData \in Read /\ p.item \in Nat \ {0}
         /\ p.UpdateData.list \in Seq(Files) /\ Len(p.UpdateData.list) \in Nat
<1>1. p.UpdateData \in Read BY DEF Proc
<1> QED BY <1>1, ReadLists DEF Proc

LEMMA NoneType == None \in Proc /\ ItemOK(None)
  BY DEF None, Proc, Role, Place, Read, Unread, NoRules, ItemOK

LEMMA ProcessType ==
  ASSUME NEW role \in Role, NEW ver \in Release, NEW found \in BOOLEAN
  PROVE  /\ Process(role, ver, found) \in Proc
         /\ ItemOK(Process(role, ver, found))
         /\ Process(role, ver, found).role = role
         /\ Process(role, ver, found).ver = ver
         /\ Process(role, ver, found).at = IF found THEN "pending" ELSE "idle"
         /\ Process(role, ver, found).UpdateData = Unread
         /\ Process(role, ver, found).item = 1
<1>1. PICK n : n = None OBVIOUS
<1>2. n \in Proc /\ n.UpdateData = Unread /\ n.item = 1
  BY <1>1, NoneType DEF None
<1>3. PICK w \in Place : w = IF found THEN "pending" ELSE "idle" BY DEF Place
<1>4. PICK p : p = [n EXCEPT !.role = role, !.at = w, !.ver = ver, !.Ready = found]
  OBVIOUS
<1>5. /\ p \in Proc /\ p.role = role /\ p.at = w /\ p.ver = ver
      /\ p.UpdateData = Unread /\ p.item = 1
  BY <1>2, <1>4 DEF Proc
<1>6. p = Process(role, ver, found) BY <1>1, <1>3, <1>4, Zenon DEF Process
<1>7. ItemOK(p) BY <1>3, <1>5, UnreadFields DEF ItemOK
<1> QED BY <1>3, <1>5, <1>6, <1>7

-----------------------------------------------------------------------------
(* What the steps of a process make of it and leave of the others.         *)
Others(s) == \A t \in Slots \ {s} : proc'[t] = proc[t]

(* p is q but for its place, its item and its rules.                       *)
Moved(p, q, where, item, data) ==
  /\ p.role = q.role /\ p.ver = q.ver
  /\ p.at = where /\ p.item = item /\ p.UpdateData = data

LEMMA Goes ==
  ASSUME proc \in [Slots -> Proc], NEW s \in Slots, NEW where \in Place,
         Go(s, where)
  PROVE  /\ proc' \in [Slots -> Proc] /\ Others(s)
         /\ Moved(proc'[s], proc[s], where, proc[s].item, proc[s].UpdateData)
  BY DEF Go, Proc, Others, Moved

LEMMA GoesOn ==
  ASSUME proc \in [Slots -> Proc], NEW s \in Slots, NEW where \in Place,
         Next1(s, where)
  PROVE  /\ proc' \in [Slots -> Proc] /\ Others(s)
         /\ Moved(proc'[s], proc[s], where, proc[s].item + 1, proc[s].UpdateData)
  BY DEF Next1, Proc, Others, Moved

LEMMA GivesUp ==
  ASSUME proc \in [Slots -> Proc], NEW s \in Slots, NEW where \in Place,
         NotReady(s, where)
  PROVE  /\ proc' \in [Slots -> Proc] /\ Others(s)
         /\ Moved(proc'[s], proc[s], where, proc[s].item, proc[s].UpdateData)
  BY ZenonT(60) DEF NotReady, Proc, Others, Moved

LEMMA Becomes ==
  ASSUME proc \in [Slots -> Proc], NEW s \in Slots, NEW p \in Proc, Become(s, p)
  PROVE  proc' \in [Slots -> Proc] /\ Others(s) /\ proc'[s] = p
  BY DEF Become, Others

LEMMA Reads ==
  ASSUME proc \in [Slots -> Proc], NEW s \in Slots, info \in Rules \cup {NoRules},
         PendingUpdater(s)
  PROVE  /\ proc' \in [Slots -> Proc] /\ Others(s)
         /\ Moved(proc'[s], proc[s], "item", proc[s].item, info)
  BY ZenonT(60) DEF PendingUpdater, Proc, Others, Moved, Read, Place

LEMMA ParsedType ==
  ASSUME proc \in [Slots -> Proc], NEW s \in Slots, info \in Rules \cup {NoRules}
  PROVE  Parsed(s) \in Read
  BY DEF Parsed, Proc, Read

LEMMA Parses ==
  ASSUME proc \in [Slots -> Proc], NEW s \in Slots, info \in Rules \cup {NoRules},
         ParseInfo(s)
  PROVE  /\ proc' \in [Slots -> Proc] /\ Others(s)
         /\ Moved(proc'[s], proc[s], IF UpdateNeeded(s) THEN "download" ELSE "idle",
                  1, Parsed(s))
<1>1. Parsed(s) \in Read BY ParsedType
<1>2. PICK d : d = Parsed(s) OBVIOUS
<1>3. PICK w \in Place : w = IF UpdateNeeded(s) THEN "download" ELSE "idle"
  BY DEF Place
<1>4. proc' = [proc EXCEPT ![s].at = w, ![s].UpdateData = d, ![s].item = 1]
  BY <1>2, <1>3, Zenon DEF ParseInfo
<1>5. proc' \in [Slots -> Proc] /\ Others(s) /\ Moved(proc'[s], proc[s], w, 1, d)
  <2>1. PICK r \in Proc : r = proc[s] OBVIOUS
  <2>2. PICK n \in Nat \ {0} : n = 1 OBVIOUS
  <2>3. PICK q : q = [r EXCEPT !.at = w, !.UpdateData = d, !.item = n] OBVIOUS
  <2>4. q \in Proc BY <1>1, <1>2, <2>3 DEF Proc
  <2>5. Moved(q, r, w, 1, d) BY <2>2, <2>3 DEF Proc, Moved
  <2>6. proc' = [proc EXCEPT ![s] = q] BY <1>4, <2>1, <2>2, <2>3
  <2> QED BY <2>1, <2>4, <2>5, <2>6 DEF Others
<1> QED BY <1>2, <1>3, <1>5
-----------------------------------------------------------------------------
(* Every step keeps the types.                                             *)
Special == {"pending", "copyFile", "unbackup", "backup", "install"}

LEMMA ProcStep ==
  ASSUME ProcType, NEW s \in Slots, proc' \in [Slots -> Proc], Others(s),
         ItemOK(proc'[s])
  PROVE  ProcType'
  BY DEF ProcType, Others

LEMMA PlainGo ==
  ASSUME ProcType, NEW s \in Slots, NEW where \in Place \ Special,
         Go(s, where) \/ NotReady(s, where)
  PROVE  ProcType'
<1>1. /\ proc' \in [Slots -> Proc] /\ Others(s)
      /\ Moved(proc'[s], proc[s], where, proc[s].item, proc[s].UpdateData)
  BY Goes, GivesUp DEF ProcType
<1>2. ItemOK(proc'[s]) BY <1>1 DEF ProcType, ItemOK, Moved, Special
<1> QED BY <1>1, <1>2, ProcStep

LEMMA FileGo ==
  ASSUME ProcType, NEW s \in Slots, proc[s].item <= Len(Listed(s)),
         NEW where \in {"copyFile", "unbackup", "backup", "install"}, Go(s, where)
  PROVE  ProcType'
<1>0. where \in Place BY DEF Place
<1>1. /\ proc' \in [Slots -> Proc] /\ Others(s)
      /\ Moved(proc'[s], proc[s], where, proc[s].item, proc[s].UpdateData)
  BY <1>0, Goes DEF ProcType
<1>2. ItemOK(proc'[s]) BY <1>1 DEF ProcType, ItemOK, Moved, Listed
<1> QED BY <1>1, <1>2, ProcStep

LEMMA NextGo ==
  ASSUME ProcType, NEW s \in Slots, proc[s].item <= Len(Listed(s)),
         NEW where \in Place \ Special, Next1(s, where)
  PROVE  ProcType'
<1>1. /\ proc' \in [Slots -> Proc] /\ Others(s)
      /\ Moved(proc'[s], proc[s], where, proc[s].item + 1, proc[s].UpdateData)
  BY GoesOn DEF ProcType
<1>2. proc[s].item \in Nat /\ Len(Listed(s)) \in Nat
  BY ProcFields DEF ProcType, Listed
<1>3. ItemOK(proc'[s]) BY <1>1, <1>2 DEF ProcType, ItemOK, Moved, Special, Listed
<1> QED BY <1>1, <1>3, ProcStep

LEMMA BecomeGo ==
  ASSUME ProcType, NEW s \in Slots, NEW p \in Proc, ItemOK(p), Become(s, p)
  PROVE  ProcType'
  BY Becomes, ProcStep DEF ProcType

LEMMA FlagsStep == FlagsType /\ [Next]_vars => FlagsType'
<1> SUFFICES ASSUME FlagsType, [Next]_vars PROVE FlagsType' OBVIOUS
<1> USE DEF FlagsType
<1>1. ASSUME NEW s \in Slots, PendingMarked(s) PROVE FlagsType'
  BY <1>1, Zenon DEF PendingMarked, NoTrouble, Trouble
<1>2. ASSUME NEW s \in Slots, PendingBroken(s) PROVE FlagsType'
  BY <1>2, Zenon DEF PendingBroken, NoTrouble, Trouble
<1>3. ASSUME NEW s \in Slots, DropUpdater(s) PROVE FlagsType'
  BY <1>3, Zenon DEF DropUpdater, NoTrouble, Trouble
<1>4. ASSUME NEW s \in Slots, DropMark(s) PROVE FlagsType'
  BY <1>4, Zenon DEF DropMark, NoTrouble, Trouble
<1>5. ASSUME NEW s \in Slots, PendingNone(s) PROVE FlagsType'
  BY <1>5, Zenon DEF PendingNone, NoTrouble, Trouble
<1>6. ASSUME NEW s \in Slots, PendingUpdater(s) PROVE FlagsType'
  BY <1>6, Zenon DEF PendingUpdater, NoTrouble, Trouble
<1>7. ASSUME NEW s \in Slots, FetchInfo(s) PROVE FlagsType'
  BY <1>7, Zenon DEF FetchInfo, NoTrouble, Trouble
<1>8. ASSUME NEW s \in Slots, CopyInfo(s) PROVE FlagsType'
  BY <1>8, Zenon DEF CopyInfo, NoTrouble, Trouble
<1>9. ASSUME NEW s \in Slots, ParseInfo(s) PROVE FlagsType'
  BY <1>9, Zenon DEF ParseInfo, NoTrouble, Trouble
<1>10. ASSUME NEW s \in Slots, BeginDownload(s) PROVE FlagsType'
  BY <1>10, Zenon DEF BeginDownload, NoTrouble, Trouble
<1>11. ASSUME NEW s \in Slots, CopyFile(s) PROVE FlagsType'
  BY <1>11, Zenon DEF CopyFile, NoTrouble, Trouble
<1>12. ASSUME NEW s \in Slots, MakeUpdater(s) PROVE FlagsType'
  BY <1>12, Zenon DEF MakeUpdater, NoTrouble, Trouble
<1>13. ASSUME NEW s \in Slots, CopyUpdater(s) PROVE FlagsType'
  BY <1>13, Zenon DEF CopyUpdater, NoTrouble, Trouble
<1>14. ASSUME NEW s \in Slots, Spawn(s) PROVE FlagsType'
  BY <1>14, Zenon DEF Spawn, NoTrouble, Trouble
<1>15. ASSUME NEW s \in Slots, NextItem(s) PROVE FlagsType'
  BY <1>15, Zenon DEF NextItem, NoTrouble, Trouble
<1>16. ASSUME NEW s \in Slots, Unbackup(s) PROVE FlagsType'
  BY <1>16, Zenon DEF Unbackup, NoTrouble, Trouble
<1>17. ASSUME NEW s \in Slots, Backup(s) PROVE FlagsType'
  BY <1>17, Zenon DEF Backup, NoTrouble, Trouble
<1>18. ASSUME NEW s \in Slots, Install(s) PROVE FlagsType'
  BY <1>18, Zenon DEF Install, NoTrouble, Trouble
<1>19. ASSUME NEW s \in Slots, Modify(s) PROVE FlagsType'
  BY <1>19, Zenon DEF Modify, NoTrouble, Trouble
<1>20. ASSUME NEW s \in Slots, Save(s) PROVE FlagsType'
  BY <1>20, Zenon DEF Save, NoTrouble, Trouble
<1>21. ASSUME NEW s \in Slots, Clean(s) PROVE FlagsType'
  BY <1>21, Zenon DEF Clean, NoTrouble, Trouble
<1>22. ASSUME NEW s \in Slots, Mark(s) PROVE FlagsType'
  BY <1>22, Zenon DEF Mark, NoTrouble, Trouble
<1>23. ASSUME NEW s \in Slots, RunMain(s) PROVE FlagsType'
  BY <1>23, Zenon DEF RunMain, NoTrouble, Trouble
<1>24. ASSUME NEW s \in Slots, Launch(s) PROVE FlagsType'
  BY <1>24, Zenon DEF Launch
<1>25. ASSUME NEW s \in Slots, Quit(s) PROVE FlagsType'
  BY <1>25, Zenon DEF Quit, NoTrouble, Trouble
<1>26. ASSUME NEW s \in Slots, Crash(s) PROVE FlagsType'
  BY <1>26, Zenon DEF Crash, NoTrouble, Trouble
<1>27. CASE Publish
  BY <1>27, Zenon DEF Publish
<1>28. CASE UNCHANGED vars
  BY <1>28, Zenon DEF vars
<1> QED
  BY
     <1>1, <1>2, <1>3, <1>4, <1>5, <1>6, <1>7, <1>8, <1>9, <1>10, <1>11,
     <1>12, <1>13, <1>14, <1>15, <1>16, <1>17, <1>18, <1>19, <1>20, <1>21,
     <1>22, <1>23, <1>24, <1>25, <1>26, <1>27, <1>28
     DEF Next, Step, CheckPendings, DoUpgrade, ApplyUpdate

LEMMA ContentFacts == Absent \in Content /\ Torn \in Content /\ Release \subseteq Content
  BY DEF Content

LEMMA TroubleType ==
  ASSUME troubles \in 0..MaxTroubles, NoTrouble \/ Trouble
  PROVE  troubles' \in 0..MaxTroubles
  BY BoundsAssumption DEF NoTrouble, Trouble

LEMMA DiskStep == DiskType /\ ProcType /\ [Next]_vars => DiskType'
<1> SUFFICES ASSUME DiskType, ProcType, [Next]_vars PROVE DiskType' OBVIOUS
<1> USE DEF DiskType
<1>1. ASSUME NEW s \in Slots, PendingMarked(s) PROVE DiskType'
  BY <1>1, ContentFacts, TroubleType
  DEF PendingMarked
<1>2. ASSUME NEW s \in Slots, PendingBroken(s) PROVE DiskType'
  BY <1>2, ContentFacts, TroubleType
  DEF PendingBroken
<1>3. ASSUME NEW s \in Slots, DropUpdater(s) PROVE DiskType'
  BY <1>3, ContentFacts, TroubleType
  DEF DropUpdater
<1>4. ASSUME NEW s \in Slots, DropMark(s) PROVE DiskType'
  BY <1>4, ContentFacts, TroubleType
  DEF DropMark
<1>5. ASSUME NEW s \in Slots, PendingNone(s) PROVE DiskType'
  BY <1>5, ContentFacts, TroubleType
  DEF PendingNone
<1>6. ASSUME NEW s \in Slots, PendingUpdater(s) PROVE DiskType'
  BY <1>6, ContentFacts, TroubleType
  DEF PendingUpdater
<1>7. ASSUME NEW s \in Slots, FetchInfo(s) PROVE DiskType'
  BY <1>7, ContentFacts, TroubleType
  DEF FetchInfo
<1>8. ASSUME NEW s \in Slots, CopyInfo(s) PROVE DiskType'
  BY <1>8, ContentFacts, TroubleType
  DEF CopyInfo
<1>9. ASSUME NEW s \in Slots, ParseInfo(s) PROVE DiskType'
  BY <1>9, ContentFacts, TroubleType
  DEF ParseInfo
<1>10. ASSUME NEW s \in Slots, BeginDownload(s) PROVE DiskType'
  BY <1>10, ContentFacts, TroubleType
  DEF BeginDownload
<1>11. ASSUME NEW s \in Slots, CopyFile(s) PROVE DiskType'
  BY <1>11, ContentFacts, TroubleType
  DEF CopyFile, Filled, Files
<1>12. ASSUME NEW s \in Slots, MakeUpdater(s) PROVE DiskType'
  BY <1>12, ContentFacts, TroubleType
  DEF MakeUpdater
<1>13. ASSUME NEW s \in Slots, CopyUpdater(s) PROVE DiskType'
  <2>1. proc[s].ver \in Release \cup {0} BY ProcFields DEF ProcType
  <2>2. upd["exe"] \in Content BY DEF Files
  <2>3. updater' \in {updater, proc[s].ver, upd["exe"], Torn} BY <1>13 DEF CopyUpdater
  <2>4. updater' \in Content BY <2>1, <2>2, <2>3, ContentFacts DEF Content, Absent
  <2>5. UNCHANGED <<remote, app, bak, upd, cfg, info>> /\ (NoTrouble \/ Trouble)
    BY <1>13 DEF CopyUpdater
  <2> QED BY <2>4, <2>5, TroubleType
<1>14. ASSUME NEW s \in Slots, Spawn(s) PROVE DiskType'
  BY <1>14, ContentFacts, TroubleType
  DEF Spawn
<1>15. ASSUME NEW s \in Slots, NextItem(s) PROVE DiskType'
  BY <1>15, ContentFacts, TroubleType
  DEF NextItem
<1>16. ASSUME NEW s \in Slots, Unbackup(s) PROVE DiskType'
  BY <1>16, ContentFacts, TroubleType
  DEF Unbackup
<1>17. ASSUME NEW s \in Slots, Backup(s) PROVE DiskType'
  BY <1>17, ContentFacts, TroubleType
  DEF Backup
<1>18. ASSUME NEW s \in Slots, Install(s) PROVE DiskType'
  BY <1>18, ContentFacts, TroubleType
  DEF Install
<1>19. ASSUME NEW s \in Slots, Modify(s) PROVE DiskType'
  BY <1>19, ContentFacts, TroubleType
  DEF Modify
<1>20. ASSUME NEW s \in Slots, Save(s) PROVE DiskType'
  <2>1. proc[s].UpdateData.ver \in Content
    BY ProcFields, ReadLists DEF ProcType, Content, Torn, Absent
  <2> QED BY <1>20, <2>1, ContentFacts, TroubleType DEF Save
<1>21. ASSUME NEW s \in Slots, Clean(s) PROVE DiskType'
  BY <1>21, ContentFacts, TroubleType
  DEF Clean, Nowhere
<1>22. ASSUME NEW s \in Slots, Mark(s) PROVE DiskType'
  BY <1>22, ContentFacts, TroubleType
  DEF Mark
<1>23. ASSUME NEW s \in Slots, RunMain(s) PROVE DiskType'
  BY <1>23, ContentFacts, TroubleType
  DEF RunMain
<1>24. ASSUME NEW s \in Slots, Launch(s) PROVE DiskType'
  <2>1. troubles' \in 0..MaxTroubles
    <3>1. \/ troubles' = troubles
          \/ troubles < MaxTroubles /\ troubles' = troubles + 1
      BY <1>24, Zenon DEF Launch
    <3> QED BY <3>1, BoundsAssumption
  <2>2. UNCHANGED <<remote, app, bak, upd, cfg, info, marks>>
    BY <1>24 DEF Launch
  <2> QED BY <2>1, <2>2
<1>25. ASSUME NEW s \in Slots, Quit(s) PROVE DiskType'
  BY <1>25, ContentFacts, TroubleType
  DEF Quit
<1>26. ASSUME NEW s \in Slots, Crash(s) PROVE DiskType'
  BY <1>26, ContentFacts, TroubleType
  DEF Crash
<1>27. CASE Publish
  BY <1>27, ReleaseAssumption
  DEF Publish, Rules, Release, NoTrouble
<1>28. CASE UNCHANGED vars
  BY <1>28 DEF vars
<1> QED
  BY
     <1>1, <1>2, <1>3, <1>4, <1>5, <1>6, <1>7, <1>8, <1>9, <1>10, <1>11,
     <1>12, <1>13, <1>14, <1>15, <1>16, <1>17, <1>18, <1>19, <1>20, <1>21,
     <1>22, <1>23, <1>24, <1>25, <1>26, <1>27, <1>28
     DEF Next, Step, CheckPendings, DoUpgrade, ApplyUpdate

LEMMA ProcTypeStep == DiskType /\ ProcType /\ [Next]_vars => ProcType'
<1> SUFFICES ASSUME DiskType, ProcType, [Next]_vars PROVE ProcType' OBVIOUS
<1>1. ASSUME NEW s \in Slots, PendingMarked(s) PROVE ProcType'
  BY <1>1, PlainGo DEF PendingMarked, Place, Special
<1>2. ASSUME NEW s \in Slots, PendingBroken(s) PROVE ProcType'
  BY <1>2, PlainGo DEF PendingBroken, Place, Special
<1>3. ASSUME NEW s \in Slots, DropUpdater(s) PROVE ProcType'
  BY <1>3, PlainGo DEF DropUpdater, Place, Special
<1>4. ASSUME NEW s \in Slots, DropMark(s) PROVE ProcType'
  BY <1>4, PlainGo DEF DropMark, Place, Special
<1>5. ASSUME NEW s \in Slots, PendingNone(s) PROVE ProcType'
  BY <1>5, PlainGo DEF PendingNone, Place, Special
<1>6. ASSUME NEW s \in Slots, PendingUpdater(s) PROVE ProcType'
  <2>1. /\ proc' \in [Slots -> Proc] /\ Others(s)
        /\ Moved(proc'[s], proc[s], "item", proc[s].item, info)
    BY <1>6, Reads DEF ProcType, DiskType
  <2>2. proc[s].item = 1 BY <1>6 DEF PendingUpdater, At, ProcType, ItemOK
  <2>3. Len(info.list) \in Nat BY ReadLists DEF DiskType, Read
  <2>4. ItemOK(proc'[s]) BY <2>1, <2>2, <2>3 DEF ItemOK, Moved
  <2> QED BY <2>1, <2>4, ProcStep
<1>7. ASSUME NEW s \in Slots, FetchInfo(s) PROVE ProcType'
  BY <1>7, PlainGo DEF FetchInfo, Place, Special
<1>8. ASSUME NEW s \in Slots, CopyInfo(s) PROVE ProcType'
  BY <1>8, PlainGo DEF CopyInfo, Place, Special
<1>9. ASSUME NEW s \in Slots, ParseInfo(s) PROVE ProcType'
  <2>1. /\ proc' \in [Slots -> Proc] /\ Others(s)
        /\ Moved(proc'[s], proc[s], IF UpdateNeeded(s) THEN "download" ELSE "idle",
                 1, Parsed(s))
    BY <1>9, Parses DEF ProcType, DiskType
  <2>2. Len(Parsed(s).list) \in Nat
    BY ParsedType, ReadLists DEF ProcType, DiskType
  <2>3. ItemOK(proc'[s]) BY <2>1, <2>2 DEF ItemOK, Moved
  <2> QED BY <2>1, <2>3, ProcStep
<1>10. ASSUME NEW s \in Slots, BeginDownload(s) PROVE ProcType'
  <2>1. CASE NotReady(s, "idle") BY <2>1, PlainGo DEF Place, Special
  <2>2. CASE Go(s, "copyFile") /\ proc[s].item <= Len(Listed(s)) BY <2>2, FileGo
  <2> QED BY <1>10, <2>1, <2>2 DEF BeginDownload
<1>11. ASSUME NEW s \in Slots, CopyFile(s) PROVE ProcType'
  <2>1. proc[s].item <= Len(Listed(s))
    BY <1>11 DEF CopyFile, At, ProcType, ItemOK, Listed
  <2>2. CASE NotReady(s, "idle") BY <2>2, PlainGo DEF Place, Special
  <2>3. CASE Next1(s, "download") BY <2>1, <2>3, NextGo DEF Place, Special
  <2> QED BY <1>11, <2>2, <2>3 DEF CopyFile
<1>12. ASSUME NEW s \in Slots, MakeUpdater(s) PROVE ProcType'
  BY <1>12, PlainGo DEF MakeUpdater, Place, Special
<1>13. ASSUME NEW s \in Slots, CopyUpdater(s) PROVE ProcType'
  BY <1>13, PlainGo DEF CopyUpdater, Place, Special
<1>14. ASSUME NEW s \in Slots, Spawn(s) PROVE ProcType'
  <2>1. CASE Go(s, "idle") BY <2>1, PlainGo DEF Place, Special
  <2>2. CASE /\ updater > 0
             /\ \E found \in BOOLEAN : Become(s, Process("updater", updater, found))
    <3>1. updater \in Release BY <2>2 DEF DiskType, Content, Absent, Torn
    <3> QED BY <2>2, <3>1, ProcessType, BecomeGo DEF Role
  <2> QED BY <1>14, <2>1, <2>2 DEF Spawn
<1>15. ASSUME NEW s \in Slots, NextItem(s) PROVE ProcType'
  <2>1. CASE \E where \in {"modify", "fetch"} : Go(s, where)
    BY <2>1, PlainGo DEF Place, Special
  <2>2. CASE /\ \E where \in {"install", "unbackup", "backup"} : Go(s, where)
             /\ ~(proc[s].item > Len(Listed(s)))
    <3>1. proc[s].item <= Len(Listed(s))
      BY <2>2, ProcFields DEF ProcType, Listed
    <3> QED BY <2>2, <3>1, FileGo
  <2> QED BY <1>15, <2>1, <2>2 DEF NextItem
<1>16. ASSUME NEW s \in Slots, Unbackup(s) PROVE ProcType'
  <2>1. proc[s].item <= Len(Listed(s))
    BY <1>16 DEF Unbackup, At, ProcType, ItemOK, Listed
  <2>2. CASE NotReady(s, "fetch") BY <2>2, PlainGo DEF Place, Special
  <2>3. CASE Go(s, "backup") BY <2>1, <2>3, FileGo
  <2> QED BY <1>16, <2>2, <2>3 DEF Unbackup
<1>17. ASSUME NEW s \in Slots, Backup(s) PROVE ProcType'
  <2>1. proc[s].item <= Len(Listed(s))
    BY <1>17 DEF Backup, At, ProcType, ItemOK, Listed
  <2>2. CASE NotReady(s, "fetch") BY <2>2, PlainGo DEF Place, Special
  <2>3. CASE Go(s, "install") BY <2>1, <2>3, FileGo
  <2> QED BY <1>17, <2>2, <2>3 DEF Backup
<1>18. ASSUME NEW s \in Slots, Install(s) PROVE ProcType'
  <2>1. proc[s].item <= Len(Listed(s))
    BY <1>18 DEF Install, At, ProcType, ItemOK, Listed
  <2>2. CASE NotReady(s, "fetch") BY <2>2, PlainGo DEF Place, Special
  <2>3. CASE Next1(s, "item") BY <2>1, <2>3, NextGo DEF Place, Special
  <2> QED BY <1>18, <2>2, <2>3 DEF Install
<1>19. ASSUME NEW s \in Slots, Modify(s) PROVE ProcType'
  BY <1>19, PlainGo DEF Modify, Place, Special
<1>20. ASSUME NEW s \in Slots, Save(s) PROVE ProcType'
  BY <1>20, PlainGo DEF Save, Place, Special
<1>21. ASSUME NEW s \in Slots, Clean(s) PROVE ProcType'
  BY <1>21, PlainGo DEF Clean, Place, Special
<1>22. ASSUME NEW s \in Slots, Mark(s) PROVE ProcType'
  BY <1>22, PlainGo DEF Mark, Place, Special
<1>23. ASSUME NEW s \in Slots, RunMain(s) PROVE ProcType'
  <2>1. CASE Become(s, None) BY <2>1, NoneType, BecomeGo
  <2>2. CASE /\ app["exe"] > 0
             /\ \E found \in BOOLEAN : Become(s, Process("main", app["exe"], found))
    <3>1. app["exe"] \in Release
      BY <2>2 DEF DiskType, Content, Absent, Torn, Files
    <3> QED BY <2>2, <3>1, ProcessType, BecomeGo DEF Role
  <2> QED BY <1>23, <2>1, <2>2 DEF RunMain
<1>24. ASSUME NEW s \in Slots, Launch(s) PROVE ProcType'
  <2>1. CASE Become(s, None) BY <2>1, NoneType, BecomeGo
  <2>2. CASE /\ app["exe"] > 0
             /\ \E found \in BOOLEAN : Become(s, Process("main", app["exe"], found))
    <3>1. app["exe"] \in Release
      BY <2>2 DEF DiskType, Content, Absent, Torn, Files
    <3> QED BY <2>2, <3>1, ProcessType, BecomeGo DEF Role
  <2> QED BY <1>24, <2>1, <2>2 DEF Launch
<1>25. ASSUME NEW s \in Slots, Quit(s) PROVE ProcType'
  BY <1>25, NoneType, BecomeGo DEF Quit
<1>26. ASSUME NEW s \in Slots, Crash(s) PROVE ProcType'
  BY <1>26, NoneType, BecomeGo DEF Crash
<1>27. CASE Publish
  BY <1>27 DEF Publish, ProcType
<1>28. CASE UNCHANGED vars
  BY <1>28 DEF vars, ProcType
<1> QED
  BY
     <1>1, <1>2, <1>3, <1>4, <1>5, <1>6, <1>7, <1>8, <1>9, <1>10, <1>11,
     <1>12, <1>13, <1>14, <1>15, <1>16, <1>17, <1>18, <1>19, <1>20, <1>21,
     <1>22, <1>23, <1>24, <1>25, <1>26, <1>27, <1>28
     DEF Next, Step, CheckPendings, DoUpgrade, ApplyUpdate

(* The first states have the types.                                        *)
LEMMA InitType == Init => TypeInv
<1> SUFFICES ASSUME Init PROVE TypeInv OBVIOUS
<1>1. 1 \in Release BY ReleaseAssumption DEF Release
<1>2. repo \in Rules BY <1>1, RulesAssumption DEF Init, Rules
<1>3. DiskType
  BY <1>1, <1>2, BoundsAssumption, ContentFacts DEF Init, DiskType, Nowhere
<1>4. FlagsType BY DEF Init, FlagsType
<1>5. ProcType BY NoneType DEF Init, ProcType
<1> QED BY <1>3, <1>4, <1>5 DEF TypeInv

LEMMA TypeStep == TypeInv /\ [Next]_vars => TypeInv'
  BY DiskStep, FlagsStep, ProcTypeStep DEF TypeInv

(* Every variable keeps to its type, for any processes and releases.       *)
THEOREM TypeCorrect == Spec => []TypeOK
<1>1. TypeInv => TypeOK
  <2> SUFFICES ASSUME TypeInv PROVE TypeOK OBVIOUS
  <2>1. DOMAIN proc = Slots BY DEF TypeInv, ProcType
  <2>2. ASSUME NEW s \in Slots
        PROVE  /\ proc[s].ver \in Release \cup {0}
               /\ proc[s].UpdateData \in Rules \cup {NoRules, Unread}
               /\ proc[s].item \in 1..(Len(Listed(s)) + 1)
    BY ProcFields DEF TypeInv, ProcType, ItemOK, Listed, Read
  <2> QED BY <2>1, <2>2 DEF TypeInv, DiskType, FlagsType, TypeOK
<1> QED BY <1>1, InitType, TypeStep, PTL DEF Spec

-----------------------------------------------------------------------------
(* One process at a time.  What the theorems need of a publisher: a        *)
(* release is never taken for newer than itself or a later one (so it is   *)
(* where Growing holds; what a fold computes is beyond the prover), and    *)
(* every release brings the executable.                                    *)
Ordered == \A v, w \in Release : v <= w => ~(Number(v) > Number(w))
Bringing == \A l \in Lists : "exe" \in ToSet(l)

(* The copies of a file: no torn one is in place or in Backup, one of      *)
(* these two is always there, and what waits in Update is the newest.      *)
FileInv(f) ==
  /\ app[f] # Torn /\ bak[f] # Torn
  /\ app[f] > 0 \/ bak[f] > 0
  /\ app[f] <= shelf[f] /\ bak[f] <= shelf[f] /\ upd[f] <= shelf[f]
  /\ upd[f] > 0 => app[f] <= upd[f] /\ bak[f] <= upd[f]

DiskInv ==
  /\ shelf["exe"] = repo.ver
  /\ \A f \in Files : shelf[f] <= repo.ver /\ FileInv(f)

(* The program: from ParseInfo on it works with the rules on the disk, and *)
(* has downloaded the files before its item, the executable no older than  *)
(* the rules; what it runs is that executable.                             *)
Asking == {"pending", "dropUpdater", "dropMark", "fetch", "copyInfo", "parse"}
Downloading == {"download", "copyFile", "copyUpdater", "spawn"}

MainInv(p) ==
  LET L == p.UpdateData.list IN
  /\ p.at \in Asking \cup Downloading \cup {"idle"}
  /\ p.at \in Asking => p.UpdateData = Unread
  /\ p.at \in Downloading => p.UpdateData = info
  /\ p.at \in Downloading \cup {"parse"} => info \in Rules /\ info.ver <= repo.ver
  /\ p.at \in Downloading =>
       \A i \in DOMAIN L :
         i < p.item => upd[L[i]] > 0 /\ (L[i] = "exe" => upd["exe"] >= info.ver)
  /\ p.at = "copyFile" => upd[L[p.item]] = Torn
  /\ p.at \in {"copyUpdater", "spawn"} => p.item > Len(L)
  /\ p.at = "copyUpdater" => updater = Torn
  /\ p.at = "spawn" => updater = Torn \/ updater >= info.ver

(* The updater: it is no older than its rules, so it never downloads; the  *)
(* files before its item are in place, and the others whole.               *)
Installing == {"item", "unbackup", "backup", "install"}
Installed == {"modify", "save", "clean", "mark"}

UpdaterInv(p) ==
  LET L == p.UpdateData.list IN
  /\ p.at \in Installing \cup Installed
               \cup {"idle", "pending", "runMain", "fetch", "copyInfo", "parse"}
  /\ p.at = "pending" =>
       /\ info \in Rules /\ info.ver <= p.ver
       /\ \A i \in DOMAIN info.list : upd[info.list[i]] # Torn
  /\ p.at \notin {"idle", "pending"} =>
       p.UpdateData \in Rules /\ p.UpdateData.ver <= p.ver
  /\ p.at \in Installing \cup Installed =>
       \A i \in DOMAIN L :
         /\ i < p.item => upd[L[i]] = Absent /\ app[L[i]] > 0 /\ app[L[i]] >= bak[L[i]]
         /\ i >= p.item => upd[L[i]] # Torn
  /\ p.at \in {"unbackup", "backup"} => app[L[p.item]] > 0
  /\ p.at \in {"unbackup", "backup", "install"} => upd[L[p.item]] > 0
  /\ p.at \in Installed => p.item > Len(L)

RoleInv(p) ==
  /\ p.role = "main" => MainInv(p)
  /\ p.role = "updater" => UpdaterInv(p)

SoloInv ==
  \A s \in Slots : proc[s].role # "none" =>
    /\ \A t \in Slots : proc[t].role # "none" => t = s
    /\ RoleInv(proc[s])

IInv == TypeInv /\ (~shared => DiskInv /\ SoloInv)

-----------------------------------------------------------------------------
(* A step of the only process.  Which process can be where:                *)
LEMMA WhoIsWhere ==
  ASSUME NEW p, RoleInv(p), p.role \in {"main", "updater"}
  PROVE  /\ p.at \in Downloading \cup {"dropUpdater", "dropMark"} =>
              p.role = "main" /\ MainInv(p)
         /\ p.at \in Installing \cup Installed \cup {"runMain"} =>
              p.role = "updater" /\ UpdaterInv(p)
  BY DEF RoleInv, MainInv, UpdaterInv, Asking, Downloading, Installing, Installed

(* Without a change of the disk the main program is safe wherever it asks, *)
(* and every process where it does nothing.                                *)
LEMMA Asks ==
  ASSUME NEW s \in Slots, NEW where \in (Asking \ {"parse"}) \cup {"idle"},
         MainInv(proc[s]), proc[s].at \in Asking,
         Moved(proc'[s], proc[s], where, proc[s].item, proc[s].UpdateData)
  PROVE  MainInv(proc[s])'
  BY DEF MainInv, Asking, Downloading, Moved

LEMMA Idles ==
  ASSUME NEW p, p.at = "idle"
  PROVE  MainInv(p) /\ UpdaterInv(p)
  BY DEF MainInv, UpdaterInv, Asking, Downloading, Installing, Installed

(* An updater that asks keeps its rules.                                   *)
LEMMA UpdaterAsks ==
  ASSUME NEW s \in Slots, NEW where \in {"fetch", "copyInfo", "parse", "runMain"},
         UpdaterInv(proc[s]), proc[s].at \notin {"idle", "pending"},
         Moved(proc'[s], proc[s], where, proc[s].item, proc[s].UpdateData)
  PROVE  UpdaterInv(proc[s])'
  BY DEF UpdaterInv, Installing, Installed, Moved

(* The part of the disk DiskInv speaks of does not change.                 *)
LEMMA SameDisk ==
  ASSUME DiskInv, UNCHANGED <<remote, app, bak, upd>>
  PROVE  DiskInv'
  BY DEF DiskInv, FileInv

LEMMA PendingStep ==
  ASSUME Ordered, Bringing, TypeInv, TypeInv', DiskInv, NEW s \in Slots,
         proc[s].role \in {"main", "updater"}, RoleInv(proc[s]), CheckPendings(s)
  PROVE  DiskInv' /\ RoleInv(proc[s])'
<1> USE DEF TypeInv, ProcType
<1>1. CASE PendingMarked(s)
  <2>1. /\ NotReady(s, "dropUpdater") /\ UNCHANGED <<remote, app, bak, upd>>
        /\ proc[s].role = "main" /\ proc[s].at \in Asking
    BY <1>1, WhoIsWhere DEF PendingMarked, At, As, Asking
  <2>2. Moved(proc'[s], proc[s], "dropUpdater", proc[s].item, proc[s].UpdateData)
    BY <2>1, GivesUp DEF Place
  <2>3. MainInv(proc[s])' BY <2>1, <2>2, Asks DEF RoleInv, Asking
  <2> QED BY <2>1, <2>2, <2>3, SameDisk DEF RoleInv, Moved
<1>2. CASE PendingBroken(s)
  <2>1. /\ NotReady(s, "dropMark") /\ UNCHANGED <<remote, app, bak, upd>>
        /\ proc[s].role = "main" /\ proc[s].at \in Asking
    BY <1>2, WhoIsWhere DEF PendingBroken, At, As, Asking
  <2>2. Moved(proc'[s], proc[s], "dropMark", proc[s].item, proc[s].UpdateData)
    BY <2>1, GivesUp DEF Place
  <2>3. MainInv(proc[s])' BY <2>1, <2>2, Asks DEF RoleInv, Asking
  <2> QED BY <2>1, <2>2, <2>3, SameDisk DEF RoleInv, Moved
<1>3. CASE DropUpdater(s)
  <2>1. /\ Go(s, "fetch") /\ UNCHANGED <<remote, app, bak, upd>>
        /\ proc[s].role = "main" /\ proc[s].at \in Asking
    BY <1>3, WhoIsWhere DEF DropUpdater, At, As, Asking
  <2>2. Moved(proc'[s], proc[s], "fetch", proc[s].item, proc[s].UpdateData)
    BY <2>1, Goes DEF Place
  <2>3. MainInv(proc[s])' BY <2>1, <2>2, Asks DEF RoleInv, Asking
  <2> QED BY <2>1, <2>2, <2>3, SameDisk DEF RoleInv, Moved
<1>4. CASE DropMark(s)
  <2>1. /\ Go(s, "fetch") /\ UNCHANGED <<remote, app, bak, upd>>
        /\ proc[s].role = "main" /\ proc[s].at \in Asking
    BY <1>4, WhoIsWhere DEF DropMark, At, As, Asking
  <2>2. Moved(proc'[s], proc[s], "fetch", proc[s].item, proc[s].UpdateData)
    BY <2>1, Goes DEF Place
  <2>3. MainInv(proc[s])' BY <2>1, <2>2, Asks DEF RoleInv, Asking
  <2> QED BY <2>1, <2>2, <2>3, SameDisk DEF RoleInv, Moved
<1>5. CASE PendingNone(s)
  <2>1. /\ Go(s, "fetch") /\ UNCHANGED <<remote, app, bak, upd>>
        /\ proc[s].role = "main" /\ proc[s].at \in Asking
    BY <1>5, WhoIsWhere DEF PendingNone, At, As, Asking
  <2>2. Moved(proc'[s], proc[s], "fetch", proc[s].item, proc[s].UpdateData)
    BY <2>1, Goes DEF Place
  <2>3. MainInv(proc[s])' BY <2>1, <2>2, Asks DEF RoleInv, Asking
  <2> QED BY <2>1, <2>2, <2>3, SameDisk DEF RoleInv, Moved
<1>6. CASE PendingUpdater(s)
  <2>1. /\ UNCHANGED <<remote, app, bak, upd, info>>
        /\ proc[s].role = "updater" /\ proc[s].at = "pending" /\ proc[s].item = 1
    BY <1>6 DEF PendingUpdater, At, As, ItemOK
  <2>2. Moved(proc'[s], proc[s], "item", 1, info)
    BY <1>6, <2>1, Reads DEF DiskType
  <2>3. UpdaterInv(proc[s])'
    <3>1. UpdaterInv(proc[s]) BY <2>1 DEF RoleInv
    <3>2. /\ info \in Rules /\ info.ver <= proc[s].ver
          /\ \A i \in DOMAIN info.list : upd[info.list[i]] # Torn
      BY <2>1, <3>1 DEF UpdaterInv
    <3>3. \A i \in DOMAIN info.list : ~(i < 1)
      BY <3>2, ReadLists, Indices DEF Read
    <3> QED BY <2>1, <2>2, <3>2, <3>3 DEF UpdaterInv, Installing, Installed, Moved
  <2> QED BY <2>1, <2>2, <2>3, SameDisk DEF RoleInv, Moved
<1> QED BY <1>1, <1>2, <1>3, <1>4, <1>5, <1>6 DEF CheckPendings

(* The rules are fetched and read.                                         *)
LEMMA FetchStep ==
  ASSUME Ordered, Bringing, TypeInv, TypeInv', DiskInv, NEW s \in Slots,
         proc[s].role \in {"main", "updater"}, RoleInv(proc[s]),
         FetchInfo(s) \/ CopyInfo(s) \/ ParseInfo(s)
  PROVE  DiskInv' /\ RoleInv(proc[s])'
<1> USE DEF TypeInv, ProcType
<1>1. CASE FetchInfo(s)
  <2>1. PICK where \in {"copyInfo", "idle"} :
          Moved(proc'[s], proc[s], where, proc[s].item, proc[s].UpdateData)
    BY <1>1, Goes DEF FetchInfo, Place
  <2>2. UNCHANGED <<remote, app, bak, upd>> /\ proc[s].at = "fetch"
    BY <1>1 DEF FetchInfo, At
  <2>3. CASE where = "idle"
    BY <2>1, <2>2, <2>3, Idles, SameDisk DEF Moved, RoleInv, MainInv, UpdaterInv, Installing, Installed, Asking, Downloading
  <2>4. CASE where = "copyInfo" /\ proc[s].role = "main"
    BY <2>1, <2>2, <2>4, Asks, SameDisk DEF Moved, RoleInv, Asking
  <2>5. CASE where = "copyInfo" /\ proc[s].role = "updater"
    BY <2>1, <2>2, <2>5, UpdaterAsks, SameDisk DEF Moved, RoleInv
  <2> QED BY <2>3, <2>4, <2>5
<1>2. CASE CopyInfo(s)
  <2>1. UNCHANGED <<remote, app, bak, upd>> /\ proc[s].at = "copyInfo"
    BY <1>2 DEF CopyInfo, At
  <2>2. CASE NotReady(s, "idle")
    <3>1. Moved(proc'[s], proc[s], "idle", proc[s].item, proc[s].UpdateData)
      BY <2>2, GivesUp DEF Place
    <3> QED BY <2>1, <3>1, SameDisk DEF Moved, RoleInv, MainInv, UpdaterInv, Installing, Installed, Asking, Downloading
  <2>3. CASE info' = repo /\ Go(s, "parse")
    <3>1. Moved(proc'[s], proc[s], "parse", proc[s].item, proc[s].UpdateData)
      BY <2>3, Goes DEF Place
    <3>2. CASE proc[s].role = "main"
      <4>1. info' \in Rules /\ info'.ver <= repo'.ver
        BY <2>1, <2>3 DEF DiskType, Rules, Release
      <4> QED BY <2>1, <3>1, <3>2, <4>1, SameDisk
              DEF Moved, RoleInv, MainInv, Asking, Downloading
    <3>3. CASE proc[s].role = "updater"
      BY <2>1, <3>1, <3>3, UpdaterAsks, SameDisk DEF Moved, RoleInv
    <3> QED BY <3>2, <3>3
  <2> QED BY <1>2, <2>2, <2>3 DEF CopyInfo
<1>3. CASE ParseInfo(s)
  <2>1. UNCHANGED <<remote, app, bak, upd, info>> /\ proc[s].at = "parse"
    BY <1>3 DEF ParseInfo, At
  <2>2. Moved(proc'[s], proc[s], IF UpdateNeeded(s) THEN "download" ELSE "idle",
              1, Parsed(s))
    BY <1>3, Parses DEF DiskType
  <2>3. CASE ~UpdateNeeded(s)
    BY <2>1, <2>2, <2>3, SameDisk DEF Moved, RoleInv, MainInv, UpdaterInv, Installing, Installed, Asking, Downloading
  <2>4. CASE UpdateNeeded(s) /\ proc[s].role = "main"
    <3>1. Parsed(s) = info /\ info \in Rules /\ info.ver <= repo.ver
      BY <2>1, <2>4 DEF RoleInv, MainInv, Asking, Parsed
    <3>2. \A i \in DOMAIN info.list : ~(i < 1)
      BY <3>1, ReadLists, Indices DEF Read
    <3> QED BY <2>1, <2>2, <2>4, <3>1, <3>2, SameDisk
            DEF Moved, RoleInv, MainInv, Asking, Downloading
  <2>5. CASE UpdateNeeded(s) /\ proc[s].role = "updater"
    <3>1. proc[s].UpdateData \in Rules /\ proc[s].UpdateData.ver <= proc[s].ver
      BY <2>1, <2>5 DEF RoleInv, UpdaterInv
    <3>2. Parsed(s) = proc[s].UpdateData
      BY <3>1, UnreadFields DEF Parsed, Rules, Release
    <3>3. proc[s].UpdateData.ver \in Release /\ proc[s].ver \in Release
      BY <3>1, ProcFields DEF Rules, Release
    <3> QED BY <2>5, <3>1, <3>2, <3>3 DEF UpdateNeeded, Ordered
  <2> QED BY <2>3, <2>4, <2>5
<1> QED BY <1>1, <1>2, <1>3

(* The files are downloaded.  A file that waits whole in Update is never   *)
(* the one that is being downloaded.                                       *)
LEMMA UpdateWritten ==
  ASSUME TypeInv, DiskInv, NEW f \in Files, NEW v \in {Torn, Absent, shelf[f]},
         UNCHANGED <<remote, app, bak>>, upd' = [upd EXCEPT ![f] = v]
  PROVE  DiskInv'
<1>1. /\ upd'[f] = v /\ v <= shelf[f]
      /\ v > 0 => v = shelf[f]
      /\ \A g \in Files \ {f} : upd'[g] = upd[g]
  BY DEF TypeInv, DiskType, Release, Absent, Torn
<1>2. ASSUME NEW g \in Files PROVE FileInv(g)'
  <2>1. FileInv(g) BY DEF DiskInv
  <2>2. CASE g = f BY <1>1, <2>1, <2>2 DEF FileInv
  <2>3. CASE g # f BY <1>1, <2>1, <2>3 DEF FileInv
  <2> QED BY <2>2, <2>3
<1> QED BY <1>2 DEF DiskInv

LEMMA MainDownloads ==
  ASSUME TypeInv, NEW s \in Slots, proc[s].role \in {"main", "updater"},
         RoleInv(proc[s]), proc[s].at \in Downloading
  PROVE  /\ proc[s].role = "main" /\ MainInv(proc[s]) /\ Listed(s) = info.list
         /\ info \in Rules /\ info.ver <= repo.ver /\ info.ver \in Release
         /\ info.list \in Seq(Files) /\ proc[s].item \in Nat \ {0}
         /\ proc[s].at = "copyFile" =>
              File(s) \in Files /\ proc[s].item \in DOMAIN info.list
  BY WhoIsWhere, ProcFields
  DEF MainInv, Listed, Rules, TypeInv, ProcType, ItemOK, File

LEMMA BeginDownloadStep ==
  ASSUME Ordered, Bringing, TypeInv, TypeInv', DiskInv, NEW s \in Slots,
         proc[s].role \in {"main", "updater"}, RoleInv(proc[s]), BeginDownload(s)
  PROVE  DiskInv' /\ RoleInv(proc[s])'
<1> USE DEF TypeInv, ProcType
<1>1. proc[s].at = "download" /\ UNCHANGED <<remote, app, bak, info>>
  BY DEF BeginDownload, At
<1>2. /\ proc[s].role = "main" /\ MainInv(proc[s]) /\ Listed(s) = info.list
      /\ info \in Rules /\ info.ver <= repo.ver
      /\ info.list \in Seq(Files) /\ proc[s].item \in Nat \ {0}
  BY <1>1, MainDownloads DEF Downloading
<1>3. CASE NotReady(s, "idle") /\ UNCHANGED upd
  <2>1. Moved(proc'[s], proc[s], "idle", proc[s].item, proc[s].UpdateData)
    BY <1>3, GivesUp DEF Place
  <2> QED BY <1>1, <1>2, <1>3, <2>1, SameDisk
          DEF Moved, RoleInv, MainInv, Asking, Downloading
<1>4. CASE /\ upd[File(s)] = Absent /\ upd' = [upd EXCEPT ![File(s)] = Torn]
           /\ Go(s, "copyFile")
  <2>1. Moved(proc'[s], proc[s], "copyFile", proc[s].item, proc[s].UpdateData)
    BY <1>4, Goes DEF Place
  <2>2. proc[s].item <= Len(info.list) BY <1>2 DEF BeginDownload
  <2>3. File(s) \in Files /\ File(s) = info.list[proc[s].item] BY <1>2, <2>2 DEF File
  <2>4. DiskInv' BY <1>1, <1>4, <2>3, UpdateWritten
  <2>5. upd'[File(s)] = Torn /\ \A g \in Files \ {File(s)} : upd'[g] = upd[g]
    BY <1>4, <2>3 DEF DiskType
  <2>6. ASSUME NEW i \in DOMAIN info.list, i < proc[s].item
        PROVE  upd'[info.list[i]] > 0
               /\ (info.list[i] = "exe" => upd'["exe"] >= info.ver)
    <3>1. upd[info.list[i]] > 0 /\ (info.list[i] = "exe" => upd["exe"] >= info.ver)
      BY <1>1, <1>2, <2>6 DEF MainInv, Listed, Downloading
    <3>2. info.list[i] \in Files \ {File(s)} BY <1>2, <1>4, <3>1 DEF Absent
    <3> QED BY <2>5, <3>1, <3>2
  <2>7. MainInv(proc[s])'
    BY <1>1, <1>2, <2>1, <2>3, <2>5, <2>6
    DEF MainInv, Moved, Asking, Downloading, Listed
  <2> QED BY <1>2, <2>1, <2>4, <2>7 DEF RoleInv, Moved
<1> QED BY <1>3, <1>4 DEF BeginDownload

LEMMA CopyFileStep ==
  ASSUME Ordered, Bringing, TypeInv, TypeInv', DiskInv, NEW s \in Slots,
         proc[s].role \in {"main", "updater"}, RoleInv(proc[s]), CopyFile(s)
  PROVE  DiskInv' /\ RoleInv(proc[s])'
<1> USE DEF TypeInv, ProcType
<1>1. proc[s].at = "copyFile" /\ UNCHANGED <<remote, info>>
  BY DEF CopyFile, At
<1>2. /\ proc[s].role = "main" /\ MainInv(proc[s]) /\ Listed(s) = info.list
      /\ info \in Rules /\ info.ver <= repo.ver
      /\ info.list \in Seq(Files) /\ proc[s].item \in Nat \ {0}
      /\ File(s) \in Files /\ proc[s].item \in DOMAIN info.list
  BY <1>1, MainDownloads DEF Downloading
<1>3. upd[File(s)] = Torn /\ app[File(s)] # Torn /\ bak[File(s)] # Torn
  BY <1>1, <1>2 DEF MainInv, File, Listed, DiskInv, FileInv
<1>4. CASE NotReady(s, "idle") /\ UNCHANGED <<app, bak, upd>>
  <2>1. Moved(proc'[s], proc[s], "idle", proc[s].item, proc[s].UpdateData)
    BY <1>4, GivesUp DEF Place
  <2> QED BY <1>1, <1>2, <1>4, <2>1, SameDisk
          DEF Moved, RoleInv, MainInv, Asking, Downloading
<1>5. CASE /\ upd' = Filled(upd, File(s)) /\ UNCHANGED <<app, bak>>
           /\ Next1(s, "download")
  <2>1. Moved(proc'[s], proc[s], "download", proc[s].item + 1, proc[s].UpdateData)
    BY <1>5, GoesOn DEF Place
  <2>2. upd' = [upd EXCEPT ![File(s)] = shelf[File(s)]]
    BY <1>2, <1>3, <1>5 DEF Filled, DiskType
  <2>3. DiskInv' BY <1>1, <1>2, <1>5, <2>2, UpdateWritten
  <2>4. /\ upd'[File(s)] = shelf[File(s)] /\ shelf[File(s)] \in Release
        /\ \A g \in Files \ {File(s)} : upd'[g] = upd[g]
    BY <1>2, <2>2 DEF DiskType
  <2>5. ASSUME NEW i \in DOMAIN info.list, i < proc[s].item + 1
        PROVE  upd'[info.list[i]] > 0
               /\ (info.list[i] = "exe" => upd'["exe"] >= info.ver)
    <3>1. i \in Nat /\ info.list[i] \in Files BY <1>2, Indices
    <3>2. CASE info.list[i] = File(s)
      <4>1. info.list[i] = "exe" => upd'["exe"] = repo.ver BY <2>4, <3>2 DEF DiskInv
      <4>2. upd'[info.list[i]] > 0 BY <2>4, <3>2 DEF Release
      <4>3. repo.ver \in Int /\ info.ver \in Int
        BY <1>2 DEF DiskType, Rules, Release
      <4> QED BY <1>2, <4>1, <4>2, <4>3
    <3>3. CASE info.list[i] # File(s)
      <4>1. i < proc[s].item
        BY <1>2, <2>5, <3>1, <3>3 DEF File, Listed
      <4>2. /\ upd[info.list[i]] > 0
            /\ info.list[i] = "exe" => upd["exe"] >= info.ver
        BY <1>1, <1>2, <4>1 DEF MainInv, Listed, Downloading
      <4> QED BY <2>4, <3>1, <3>3, <4>2
    <3> QED BY <3>2, <3>3
  <2>6. MainInv(proc[s])'
    BY <1>1, <1>2, <2>1, <2>5
    DEF MainInv, Moved, Asking, Downloading, Listed
  <2> QED BY <1>2, <2>1, <2>3, <2>6 DEF RoleInv, Moved
<1> QED BY <1>3, <1>4, <1>5 DEF CopyFile

(* The updater is made of the executable in Update, and run.               *)
LEMMA ExeDownloaded ==
  ASSUME Bringing, TypeInv, NEW s \in Slots, proc[s].role = "main",
         MainInv(proc[s]), proc[s].at \in Downloading,
         proc[s].item > Len(Listed(s))
  PROVE  /\ WithExe(s) /\ upd["exe"] > 0 /\ upd["exe"] >= info.ver
         /\ \A i \in DOMAIN info.list : upd[info.list[i]] > 0
<1>1. info \in Rules /\ Listed(s) = info.list
  BY DEF MainInv, Listed
<1>2. info.list \in Seq(Files) /\ proc[s].item \in Nat \ {0}
  BY <1>1, ReadLists, ProcFields DEF Read, TypeInv, ProcType
<1>3. WithExe(s) BY <1>1 DEF WithExe, Bringing, Rules
<1>4. PICK i \in DOMAIN info.list : info.list[i] = "exe"
  BY <1>1, <1>2, <1>3 DEF WithExe, ToSet
<1>5. \A j \in DOMAIN info.list : j < proc[s].item
  BY <1>1, <1>2, Indices
<1>6. \A j \in DOMAIN info.list :
        upd[info.list[j]] > 0 /\ (info.list[j] = "exe" => upd["exe"] >= info.ver)
  BY <1>1, <1>5 DEF MainInv, Listed
<1> QED BY <1>3, <1>4, <1>6

LEMMA MakeUpdaterStep ==
  ASSUME Ordered, Bringing, TypeInv, TypeInv', DiskInv, NEW s \in Slots,
         proc[s].role \in {"main", "updater"}, RoleInv(proc[s]), MakeUpdater(s)
  PROVE  DiskInv' /\ RoleInv(proc[s])'
<1> USE DEF TypeInv, ProcType
<1>1. /\ proc[s].at = "download" /\ proc[s].item > Len(Listed(s))
      /\ UNCHANGED <<remote, app, bak, upd, info>>
  BY DEF MakeUpdater, Downloaded, At
<1>2. /\ proc[s].role = "main" /\ MainInv(proc[s]) /\ Listed(s) = info.list
      /\ info \in Rules /\ info.ver <= repo.ver
  BY <1>1, MainDownloads DEF Downloading
<1>3. WithExe(s) /\ upd["exe"] > 0 BY <1>1, <1>2, ExeDownloaded DEF Downloading
<1>4. updater' = Torn /\ Go(s, "copyUpdater")
  BY <1>3 DEF MakeUpdater, Absent
<1>5. Moved(proc'[s], proc[s], "copyUpdater", proc[s].item, proc[s].UpdateData)
  BY <1>4, Goes DEF Place
<1>6. MainInv(proc[s])'
  BY <1>1, <1>2, <1>4, <1>5 DEF MainInv, Moved, Asking, Downloading, Listed
<1> QED BY <1>1, <1>2, <1>5, <1>6, SameDisk DEF RoleInv, Moved

LEMMA CopyUpdaterStep ==
  ASSUME Ordered, Bringing, TypeInv, TypeInv', DiskInv, NEW s \in Slots,
         proc[s].role \in {"main", "updater"}, RoleInv(proc[s]), CopyUpdater(s)
  PROVE  DiskInv' /\ RoleInv(proc[s])'
<1> USE DEF TypeInv, ProcType
<1>1. /\ proc[s].at = "copyUpdater" /\ Go(s, "spawn")
      /\ UNCHANGED <<remote, app, bak, upd, info>>
  BY DEF CopyUpdater, At
<1>2. /\ proc[s].role = "main" /\ MainInv(proc[s]) /\ Listed(s) = info.list
      /\ info \in Rules /\ info.ver <= repo.ver
  BY <1>1, MainDownloads DEF Downloading
<1>3. proc[s].item > Len(Listed(s)) /\ updater = Torn
  BY <1>1, <1>2 DEF MainInv, Listed
<1>4. WithExe(s) /\ upd["exe"] > 0 /\ upd["exe"] >= info.ver
  BY <1>1, <1>2, <1>3, ExeDownloaded DEF Downloading
<1>5. updater' = upd["exe"] \/ updater' = Torn
  BY <1>3, <1>4 DEF CopyUpdater, Absent
<1>6. Moved(proc'[s], proc[s], "spawn", proc[s].item, proc[s].UpdateData)
  BY <1>1, Goes DEF Place
<1>7. updater' = Torn \/ updater' >= info'.ver BY <1>1, <1>4, <1>5
<1>8. MainInv(proc[s])'
  BY <1>1, <1>2, <1>3, <1>6, <1>7 DEF MainInv, Moved, Asking, Downloading, Listed
<1> QED BY <1>1, <1>2, <1>6, <1>8, SameDisk DEF RoleInv, Moved

LEMMA SpawnStep ==
  ASSUME Ordered, Bringing, TypeInv, TypeInv', DiskInv, NEW s \in Slots,
         proc[s].role \in {"main", "updater"}, RoleInv(proc[s]), Spawn(s)
  PROVE  DiskInv' /\ RoleInv(proc[s])'
<1> USE DEF TypeInv, ProcType
<1>1. proc[s].at = "spawn" /\ UNCHANGED <<remote, app, bak, upd, info>>
  BY DEF Spawn, At
<1>2. /\ proc[s].role = "main" /\ MainInv(proc[s]) /\ Listed(s) = info.list
      /\ info \in Rules /\ info.list \in Seq(Files)
  BY <1>1, MainDownloads DEF Downloading
<1>3. CASE Go(s, "idle")
  <2>1. Moved(proc'[s], proc[s], "idle", proc[s].item, proc[s].UpdateData)
    BY <1>3, Goes DEF Place
  <2> QED BY <1>1, <1>2, <2>1, SameDisk
          DEF Moved, RoleInv, MainInv, Asking, Downloading
<1>4. CASE /\ updater > 0
           /\ \E found \in BOOLEAN : Become(s, Process("updater", updater, found))
  <2>1. updater \in Release BY <1>4 DEF DiskType, Content, Absent, Torn
  <2>2. PICK found \in BOOLEAN : Become(s, Process("updater", updater, found))
    BY <1>4
  <2>3. PICK p : p = Process("updater", updater, found) OBVIOUS
  <2>4. /\ p \in Proc /\ p.role = "updater" /\ p.ver = updater
        /\ p.at \in {"pending", "idle"}
    BY <2>1, <2>3, ProcessType DEF Role
  <2>5. proc'[s] = p BY <2>2, <2>3, <2>4, Becomes
  <2>6. proc[s].item > Len(Listed(s)) /\ info.ver <= updater
    BY <1>1, <1>2, <1>4 DEF MainInv, Listed, Torn
  <2>7. \A i \in DOMAIN info.list : upd[info.list[i]] # Torn
    BY <1>1, <1>2, <2>6, ExeDownloaded DEF Downloading, Torn
  <2>8. UpdaterInv(proc[s])'
    BY <1>1, <1>2, <2>4, <2>5, <2>6, <2>7 DEF UpdaterInv, Installing, Installed
  <2> QED BY <1>1, <2>4, <2>5, <2>8, SameDisk DEF RoleInv
<1> QED BY <1>3, <1>4 DEF Spawn

(* The updater puts the files in place.  The files before its item are     *)
(* gone from Update, so its item is none of them.                          *)
SameBut(f) ==
  \A g \in Files \ {f} : app'[g] = app[g] /\ bak'[g] = bak[g] /\ upd'[g] = upd[g]

LEMMA OneFile ==
  ASSUME DiskInv, UNCHANGED remote, NEW f \in Files, SameBut(f), FileInv(f)'
  PROVE  DiskInv'
<1>1. ASSUME NEW g \in Files PROVE FileInv(g)'
  <2>1. CASE g # f
    <3>1. FileInv(g) BY DEF DiskInv
    <3> QED BY <2>1, <3>1 DEF FileInv, SameBut
  <2> QED BY <2>1
<1> QED BY <1>1 DEF DiskInv

LEMMA UpdaterInstalls ==
  ASSUME TypeInv, DiskInv, NEW s \in Slots, proc[s].role \in {"main", "updater"},
         RoleInv(proc[s]),
         proc[s].at \in Installing \cup Installed \cup {"runMain"}
  PROVE  /\ proc[s].role = "updater" /\ UpdaterInv(proc[s])
         /\ proc[s].UpdateData \in Rules
         /\ Listed(s) \in Seq(Files) /\ proc[s].item \in Nat \ {0}
         /\ proc[s].at \in {"unbackup", "backup", "install"} =>
              /\ File(s) \in Files /\ proc[s].item \in DOMAIN Listed(s)
              /\ upd[File(s)] > 0
              /\ \A i \in DOMAIN Listed(s) :
                   i < proc[s].item => Listed(s)[i] \in Files \ {File(s)}
<1>1. /\ proc[s].role = "updater" /\ UpdaterInv(proc[s])
  BY WhoIsWhere
<1>2. /\ proc[s].UpdateData \in Rules
      /\ Listed(s) \in Seq(Files) /\ proc[s].item \in Nat \ {0}
  BY <1>1, ProcFields
  DEF UpdaterInv, Listed, TypeInv, ProcType, Installing, Installed
<1>3. CASE proc[s].at \in {"unbackup", "backup", "install"}
  <2>1. File(s) \in Files /\ proc[s].item \in DOMAIN Listed(s)
    BY <1>2, <1>3 DEF TypeInv, ProcType, ItemOK, File, Listed
  <2>2. upd[File(s)] > 0 BY <1>1, <1>3 DEF UpdaterInv, File, Listed
  <2>3. \A i \in DOMAIN Listed(s) : i < proc[s].item => upd[Listed(s)[i]] = Absent
    BY <1>1, <1>3 DEF UpdaterInv, Listed, Installing
  <2>4. \A i \in DOMAIN Listed(s) : Listed(s)[i] \in Files BY <1>2, Indices
  <2> QED BY <1>1, <1>2, <2>1, <2>2, <2>3, <2>4 DEF Absent
<1> QED BY <1>1, <1>2, <1>3

(* Where nothing is installed, an updater that asks again is safe.         *)
LEMMA UpdaterStops ==
  ASSUME TypeInv, DiskInv, NEW s \in Slots, proc[s].role = "updater",
         UpdaterInv(proc[s]), proc[s].at \in Installing \cup Installed,
         NEW where \in {"fetch", "runMain"}, UNCHANGED <<remote, app, bak, upd>>,
         Go(s, where) \/ NotReady(s, where)
  PROVE  DiskInv' /\ RoleInv(proc[s])'
<1>1. Moved(proc'[s], proc[s], where, proc[s].item, proc[s].UpdateData)
  BY Goes, GivesUp DEF Place, TypeInv, ProcType
<1>2. UpdaterInv(proc[s])' BY <1>1, UpdaterAsks DEF Installing, Installed
<1> QED BY <1>1, <1>2, SameDisk DEF RoleInv, Moved

LEMMA NextItemStep ==
  ASSUME Ordered, Bringing, TypeInv, TypeInv', DiskInv, NEW s \in Slots,
         proc[s].role \in {"main", "updater"}, RoleInv(proc[s]), NextItem(s)
  PROVE  DiskInv' /\ RoleInv(proc[s])'
<1> USE DEF TypeInv, ProcType
<1>1. proc[s].at = "item" /\ UNCHANGED <<remote, app, bak, upd, info>>
  BY DEF NextItem, At
<1>2. /\ proc[s].role = "updater" /\ UpdaterInv(proc[s])
      /\ proc[s].UpdateData \in Rules
      /\ Listed(s) \in Seq(Files) /\ proc[s].item \in Nat \ {0}
  BY <1>1, UpdaterInstalls DEF Installing
<1>3. CASE proc[s].item > Len(Listed(s)) /\ Go(s, "modify")
  <2>1. Moved(proc'[s], proc[s], "modify", proc[s].item, proc[s].UpdateData)
    BY <1>3, Goes DEF Place
  <2>2. UpdaterInv(proc[s])'
    BY <1>1, <1>2, <1>3, <2>1 DEF UpdaterInv, Moved, Installing, Installed, Listed
  <2> QED BY <1>1, <1>2, <2>1, <2>2, SameDisk DEF RoleInv, Moved
<1>4. CASE Go(s, "fetch")
  BY <1>1, <1>2, <1>4, UpdaterStops DEF Installing
<1>5. CASE /\ proc[s].item <= Len(Listed(s)) /\ upd[File(s)] # Absent
           /\ \/ Go(s, "install")
              \/ app[File(s)] # Absent /\ (Go(s, "unbackup") \/ Go(s, "backup"))
  <2>1. PICK where \in {"install", "unbackup", "backup"} :
          /\ Go(s, where) /\ (where = "install" \/ app[File(s)] # Absent)
    BY <1>5
  <2>2. Moved(proc'[s], proc[s], where, proc[s].item, proc[s].UpdateData)
    BY <2>1, Goes DEF Place
  <2>3. proc[s].item \in DOMAIN Listed(s) /\ File(s) \in Files
    BY <1>2, <1>5 DEF File
  <2>4. upd[File(s)] # Torn
    BY <1>1, <1>2, <2>3 DEF UpdaterInv, File, Listed, Installing
  <2>5. upd[File(s)] > 0
    BY <1>5, <2>3, <2>4 DEF DiskType, Content, Release, Absent, Torn
  <2>6. where = "install" \/ app[File(s)] > 0
    BY <2>1, <2>3, SMTT(30) DEF DiskType, DiskInv, FileInv, Content, Release, Absent, Torn
  <2>7. UpdaterInv(proc[s])'
    BY <1>1, <1>2, <2>1, <2>2, <2>5, <2>6
    DEF UpdaterInv, Moved, Installing, Installed, Listed, File
  <2> QED BY <1>1, <1>2, <2>2, <2>7, SameDisk DEF RoleInv, Moved
<1>6. proc[s].item \in Int /\ Len(Listed(s)) \in Int BY <1>2
<1> QED BY <1>3, <1>4, <1>5, <1>6 DEF NextItem

LEMMA UnbackupStep ==
  ASSUME Ordered, Bringing, TypeInv, TypeInv', DiskInv, NEW s \in Slots,
         proc[s].role \in {"main", "updater"}, RoleInv(proc[s]), Unbackup(s)
  PROVE  DiskInv' /\ RoleInv(proc[s])'
<1> USE DEF TypeInv, ProcType
<1>1. proc[s].at = "unbackup" /\ UNCHANGED <<remote, app, upd, info>>
  BY DEF Unbackup, At
<1>2. /\ proc[s].role = "updater" /\ UpdaterInv(proc[s])
      /\ proc[s].UpdateData \in Rules /\ Listed(s) \in Seq(Files)
      /\ File(s) \in Files /\ proc[s].item \in DOMAIN Listed(s)
      /\ \A i \in DOMAIN Listed(s) :
           i < proc[s].item => Listed(s)[i] \in Files \ {File(s)}
  BY <1>1, UpdaterInstalls DEF Installing
<1>3. CASE NotReady(s, "fetch") /\ UNCHANGED bak
  BY <1>1, <1>2, <1>3, UpdaterStops DEF Installing
<1>4. CASE bak' = [bak EXCEPT ![File(s)] = Absent] /\ Go(s, "backup")
  <2>1. Moved(proc'[s], proc[s], "backup", proc[s].item, proc[s].UpdateData)
    BY <1>4, Goes DEF Place
  <2>2. PICK f \in Files : f = File(s) BY <1>2
  <2>3. bak'[f] = Absent /\ \A g \in Files \ {f} : bak'[g] = bak[g]
    BY <1>4, <2>2 DEF DiskType
  <2>4. app[f] > 0 BY <1>1, <1>2, <2>2 DEF UpdaterInv, File, Listed
  <2>5. FileInv(f) /\ shelf[f] \in Release /\ upd[f] \in Content
    BY DEF DiskInv, DiskType
  <2>6. FileInv(f)'
    BY <1>1, <2>3, <2>4, <2>5, SMT DEF FileInv, Absent, Torn, Release, Content
  <2>7. DiskInv' BY <1>1, <2>3, <2>6, OneFile DEF SameBut
  <2>8. ASSUME NEW i \in DOMAIN Listed(s)
        PROVE  /\ i < proc[s].item =>
                    /\ upd'[Listed(s)[i]] = Absent /\ app'[Listed(s)[i]] > 0
                    /\ app'[Listed(s)[i]] >= bak'[Listed(s)[i]]
               /\ i >= proc[s].item => upd'[Listed(s)[i]] # Torn
    <3>1. /\ i < proc[s].item => /\ upd[Listed(s)[i]] = Absent
                                 /\ app[Listed(s)[i]] > 0
                                 /\ app[Listed(s)[i]] >= bak[Listed(s)[i]]
          /\ i >= proc[s].item => upd[Listed(s)[i]] # Torn
      BY <1>1, <1>2 DEF UpdaterInv, Listed, Installing
    <3>2. i < proc[s].item => Listed(s)[i] \in Files \ {f} BY <1>2, <2>2
    <3> QED BY <1>1, <2>3, <3>1, <3>2
  <2>9. upd'[Listed(s)[proc[s].item]] > 0 /\ app'[Listed(s)[proc[s].item]] > 0
    BY <1>1, <1>2, <2>2, <2>4 DEF UpdaterInv, File, Listed
  <2>10. UpdaterInv(proc[s])'
    BY <1>1, <1>2, <2>1, <2>8, <2>9
    DEF UpdaterInv, Moved, Installing, Installed, Listed
  <2> QED BY <1>2, <2>1, <2>7, <2>10 DEF RoleInv, Moved
<1> QED BY <1>3, <1>4 DEF Unbackup

LEMMA BackupStep ==
  ASSUME Ordered, Bringing, TypeInv, TypeInv', DiskInv, NEW s \in Slots,
         proc[s].role \in {"main", "updater"}, RoleInv(proc[s]), Backup(s)
  PROVE  DiskInv' /\ RoleInv(proc[s])'
<1> USE DEF TypeInv, ProcType
<1>1. proc[s].at = "backup" /\ UNCHANGED <<remote, upd, info>>
  BY DEF Backup, At
<1>2. /\ proc[s].role = "updater" /\ UpdaterInv(proc[s])
      /\ proc[s].UpdateData \in Rules /\ Listed(s) \in Seq(Files)
      /\ File(s) \in Files /\ proc[s].item \in DOMAIN Listed(s)
      /\ upd[File(s)] > 0
      /\ \A i \in DOMAIN Listed(s) :
           i < proc[s].item => Listed(s)[i] \in Files \ {File(s)}
  BY <1>1, UpdaterInstalls DEF Installing
<1>3. CASE NotReady(s, "fetch") /\ UNCHANGED <<app, bak>>
  BY <1>1, <1>2, <1>3, UpdaterStops DEF Installing
<1>4. CASE /\ bak' = [bak EXCEPT ![File(s)] = app[File(s)]]
           /\ app' = [app EXCEPT ![File(s)] = Absent] /\ Go(s, "install")
  <2>1. Moved(proc'[s], proc[s], "install", proc[s].item, proc[s].UpdateData)
    BY <1>4, Goes DEF Place
  <2>2. PICK f \in Files : f = File(s) BY <1>2
  <2>3. /\ bak'[f] = app[f] /\ app'[f] = Absent
        /\ \A g \in Files \ {f} : app'[g] = app[g] /\ bak'[g] = bak[g]
    BY <1>4, <2>2 DEF DiskType
  <2>4. app[f] > 0 BY <1>1, <1>2, <2>2 DEF UpdaterInv, File, Listed
  <2>5. FileInv(f) /\ shelf[f] \in Release /\ upd[f] > 0 /\ upd[f] \in Content
    BY <1>2, <2>2 DEF DiskInv, DiskType
  <2>6. FileInv(f)'
    BY <1>1, <2>3, <2>4, <2>5, SMT DEF FileInv, Absent, Torn, Release, Content
  <2>7. DiskInv' BY <1>1, <2>3, <2>6, OneFile DEF SameBut
  <2>8. ASSUME NEW i \in DOMAIN Listed(s)
        PROVE  /\ i < proc[s].item =>
                    /\ upd'[Listed(s)[i]] = Absent /\ app'[Listed(s)[i]] > 0
                    /\ app'[Listed(s)[i]] >= bak'[Listed(s)[i]]
               /\ i >= proc[s].item => upd'[Listed(s)[i]] # Torn
    <3>1. /\ i < proc[s].item => /\ upd[Listed(s)[i]] = Absent
                                 /\ app[Listed(s)[i]] > 0
                                 /\ app[Listed(s)[i]] >= bak[Listed(s)[i]]
          /\ i >= proc[s].item => upd[Listed(s)[i]] # Torn
      BY <1>1, <1>2 DEF UpdaterInv, Listed, Installing
    <3>2. i < proc[s].item => Listed(s)[i] \in Files \ {f} BY <1>2, <2>2
    <3> QED BY <1>1, <2>3, <3>1, <3>2
  <2>9. upd'[Listed(s)[proc[s].item]] > 0 BY <1>1, <1>2 DEF File
  <2>10. UpdaterInv(proc[s])'
    BY <1>1, <1>2, <2>1, <2>8, <2>9
    DEF UpdaterInv, Moved, Installing, Installed, Listed
  <2> QED BY <1>2, <2>1, <2>7, <2>10 DEF RoleInv, Moved
<1> QED BY <1>3, <1>4 DEF Backup

LEMMA InstallStep ==
  ASSUME Ordered, Bringing, TypeInv, TypeInv', DiskInv, NEW s \in Slots,
         proc[s].role \in {"main", "updater"}, RoleInv(proc[s]), Install(s)
  PROVE  DiskInv' /\ RoleInv(proc[s])'
<1> USE DEF TypeInv, ProcType
<1>1. proc[s].at = "install" /\ UNCHANGED <<remote, bak, info>>
  BY DEF Install, At
<1>2. /\ proc[s].role = "updater" /\ UpdaterInv(proc[s])
      /\ proc[s].UpdateData \in Rules /\ Listed(s) \in Seq(Files)
      /\ File(s) \in Files /\ proc[s].item \in DOMAIN Listed(s)
      /\ proc[s].item \in Nat \ {0} /\ upd[File(s)] > 0
      /\ \A i \in DOMAIN Listed(s) :
           i < proc[s].item => Listed(s)[i] \in Files \ {File(s)}
  BY <1>1, UpdaterInstalls DEF Installing
<1>3. CASE NotReady(s, "fetch") /\ UNCHANGED <<app, upd>>
  BY <1>1, <1>2, <1>3, UpdaterStops DEF Installing
<1>4. CASE /\ app' = [app EXCEPT ![File(s)] = upd[File(s)]]
           /\ upd' = [upd EXCEPT ![File(s)] = Absent] /\ Next1(s, "item")
  <2>1. Moved(proc'[s], proc[s], "item", proc[s].item + 1, proc[s].UpdateData)
    BY <1>4, GoesOn DEF Place
  <2>2. PICK f \in Files : f = File(s) BY <1>2
  <2>3. /\ app'[f] = upd[f] /\ upd'[f] = Absent
        /\ \A g \in Files \ {f} : app'[g] = app[g] /\ upd'[g] = upd[g]
    BY <1>4, <2>2 DEF DiskType
  <2>4. FileInv(f) /\ shelf[f] \in Release /\ upd[f] > 0
    BY <1>2, <2>2 DEF DiskInv, DiskType
  <2>5. FileInv(f)'
    BY <1>1, <2>3, <2>4, SMT DEF FileInv, Absent, Torn, Release
  <2>6. DiskInv' BY <1>1, <2>3, <2>5, OneFile DEF SameBut
  <2>7. app'[f] > 0 /\ app'[f] >= bak'[f] /\ upd'[f] = Absent
    BY <1>1, <2>3, <2>4 DEF FileInv
  <2>8. ASSUME NEW i \in DOMAIN Listed(s)
        PROVE  /\ i < proc[s].item + 1 =>
                    /\ upd'[Listed(s)[i]] = Absent /\ app'[Listed(s)[i]] > 0
                    /\ app'[Listed(s)[i]] >= bak'[Listed(s)[i]]
               /\ i >= proc[s].item + 1 => upd'[Listed(s)[i]] # Torn
    <3>1. i \in Nat /\ Listed(s)[i] \in Files BY <1>2, Indices
    <3>2. CASE Listed(s)[i] = f BY <2>7, <3>2 DEF Absent, Torn
    <3>3. CASE Listed(s)[i] # f
      <4>1. /\ app'[Listed(s)[i]] = app[Listed(s)[i]]
            /\ bak'[Listed(s)[i]] = bak[Listed(s)[i]]
            /\ upd'[Listed(s)[i]] = upd[Listed(s)[i]]
        BY <1>1, <2>3, <3>1, <3>3
      <4>2. i # proc[s].item BY <2>2, <3>3 DEF File
      <4>3. /\ i < proc[s].item => /\ upd[Listed(s)[i]] = Absent
                                   /\ app[Listed(s)[i]] > 0
                                   /\ app[Listed(s)[i]] >= bak[Listed(s)[i]]
            /\ i >= proc[s].item => upd[Listed(s)[i]] # Torn
        BY <1>1, <1>2 DEF UpdaterInv, Listed, Installing
      <4> QED BY <1>2, <3>1, <4>1, <4>2, <4>3
    <3> QED BY <3>2, <3>3
  <2>9. UpdaterInv(proc[s])'
    BY <1>1, <1>2, <2>1, <2>8
    DEF UpdaterInv, Moved, Installing, Installed, Listed
  <2> QED BY <1>2, <2>1, <2>6, <2>9 DEF RoleInv, Moved
<1> QED BY <1>3, <1>4 DEF Install

(* Once every file is in place, the updater writes the new value, cleans   *)
(* up, leaves its mark and runs the program.                               *)
LEMMA FinishStep ==
  ASSUME Ordered, Bringing, TypeInv, TypeInv', DiskInv, NEW s \in Slots,
         proc[s].role \in {"main", "updater"}, RoleInv(proc[s]),
         Modify(s) \/ Save(s) \/ Clean(s) \/ Mark(s)
  PROVE  DiskInv' /\ RoleInv(proc[s])'
<1> USE DEF TypeInv, ProcType
<1>1. /\ proc[s].at \in Installed /\ UNCHANGED <<remote, app, bak>>
  BY DEF Modify, Save, Clean, Mark, At, Installed
<1>2. /\ proc[s].role = "updater" /\ UpdaterInv(proc[s])
      /\ proc[s].UpdateData \in Rules /\ Listed(s) \in Seq(Files)
      /\ proc[s].item \in Nat \ {0}
  BY <1>1, UpdaterInstalls
<1>3. CASE (Go(s, "fetch") \/ Go(s, "runMain")) /\ UNCHANGED upd
  BY <1>1, <1>2, <1>3, UpdaterStops
<1>4. CASE \E where \in {"save", "clean", "mark"} :
             Go(s, where) /\ (UNCHANGED upd \/ upd' = Nowhere)
  <2>1. PICK where \in {"save", "clean", "mark"} :
          Go(s, where) /\ (UNCHANGED upd \/ upd' = Nowhere)
    BY <1>4
  <2>2. Moved(proc'[s], proc[s], where, proc[s].item, proc[s].UpdateData)
    BY <2>1, Goes DEF Place
  <2>3. \A g \in Files : upd'[g] = upd[g] \/ upd'[g] = Absent
    BY <2>1 DEF Nowhere
  <2>4. DiskInv'
    <3>1. ASSUME NEW g \in Files PROVE FileInv(g)'
      <4>1. FileInv(g) /\ shelf[g] \in Release BY DEF DiskInv, DiskType
      <4>2. PICK u : u = upd'[g] OBVIOUS
      <4>3. u = upd[g] \/ u = 0 BY <2>3, <4>2 DEF Absent
      <4> QED BY <1>1, <4>1, <4>2, <4>3 DEF FileInv, Release
    <3> QED BY <1>1, <3>1 DEF DiskInv
  <2>5. \A i \in DOMAIN Listed(s) : Listed(s)[i] \in Files BY <1>2, Indices
  <2>6. \A i \in DOMAIN Listed(s) :
          /\ i < proc[s].item => /\ upd'[Listed(s)[i]] = Absent
                                 /\ app'[Listed(s)[i]] > 0
                                 /\ app'[Listed(s)[i]] >= bak'[Listed(s)[i]]
          /\ i >= proc[s].item => upd'[Listed(s)[i]] # Torn
    BY <1>1, <1>2, <2>3, <2>5 DEF UpdaterInv, Listed, Absent, Torn
  <2>7. proc[s].item > Len(Listed(s)) BY <1>1, <1>2 DEF UpdaterInv, Listed
  <2>8. UpdaterInv(proc[s])'
    BY <1>1, <1>2, <2>1, <2>2, <2>6, <2>7
    DEF UpdaterInv, Moved, Installing, Installed, Listed
  <2> QED BY <1>2, <2>2, <2>4, <2>8 DEF RoleInv, Moved
<1> QED BY <1>3, <1>4 DEF Modify, Save, Clean, Mark

LEMMA RunMainStep ==
  ASSUME Ordered, Bringing, TypeInv, TypeInv', DiskInv, NEW s \in Slots, RunMain(s)
  PROVE  DiskInv' /\ RoleInv(proc[s])'
<1> USE DEF TypeInv, ProcType
<1>1. DiskInv' BY SameDisk DEF RunMain
<1>2. CASE Become(s, None)
  <2>1. proc'[s] = None BY <1>2, NoneType, Becomes
  <2> QED BY <1>1, <2>1 DEF None, RoleInv
<1>3. CASE /\ app["exe"] > 0
           /\ \E found \in BOOLEAN : Become(s, Process("main", app["exe"], found))
  <2>1. app["exe"] \in Release
    BY <1>3 DEF DiskType, Content, Absent, Torn, Files
  <2>2. PICK found \in BOOLEAN : Become(s, Process("main", app["exe"], found))
    BY <1>3
  <2>3. PICK p : p = Process("main", app["exe"], found) OBVIOUS
  <2>4. /\ p \in Proc /\ p.role = "main" /\ p.at \in {"pending", "idle"}
        /\ p.UpdateData = Unread
    BY <2>1, <2>3, ProcessType DEF Role
  <2>5. proc'[s] = p BY <2>2, <2>3, <2>4, Becomes
  <2> QED BY <1>1, <2>4, <2>5 DEF RoleInv, MainInv, Asking, Downloading
<1> QED BY <1>2, <1>3 DEF RunMain

-----------------------------------------------------------------------------
(* The invariant.                                                          *)
LEMMA ActorStep ==
  ASSUME Ordered, Bringing, TypeInv, TypeInv', DiskInv, NEW s \in Slots,
         proc[s].role \in {"main", "updater"}, RoleInv(proc[s]), Step(s)
  PROVE  DiskInv' /\ RoleInv(proc[s])'
<1>1. CASE CheckPendings(s) BY <1>1, PendingStep
<1>2. CASE DoUpgrade(s)
  BY <1>2, FetchStep, BeginDownloadStep, CopyFileStep, MakeUpdaterStep,
     CopyUpdaterStep, SpawnStep DEF DoUpgrade
<1>3. CASE ApplyUpdate(s)
  BY <1>3, NextItemStep, UnbackupStep, BackupStep, InstallStep, FinishStep
  DEF ApplyUpdate
<1>4. CASE Mark(s) BY <1>4, FinishStep
<1>5. CASE RunMain(s) BY <1>5, RunMainStep
<1> QED BY <1>1, <1>2, <1>3, <1>4, <1>5 DEF Step

LEMMA OthersStay ==
  ASSUME NEW s \in Slots, proc \in [Slots -> Proc],
         Step(s) \/ Launch(s) \/ Quit(s) \/ Crash(s)
  PROVE  Others(s)
<1>1. ASSUME NEW where, Go(s, where) \/ Next1(s, where) \/ NotReady(s, where)
      PROVE  Others(s)
  BY <1>1 DEF Go, Next1, NotReady, Others
<1>2. ASSUME NEW p, Become(s, p) PROVE Others(s) BY <1>2 DEF Become, Others
<1>3. CASE CheckPendings(s)
  <2>1. CASE PendingUpdater(s) BY <2>1 DEF PendingUpdater, Others
  <2> QED BY <1>1, <1>3, <2>1
          DEF CheckPendings, PendingMarked, PendingBroken, DropUpdater, DropMark,
              PendingNone
<1>4. CASE DoUpgrade(s)
  <2>1. CASE ParseInfo(s) BY <2>1 DEF ParseInfo, Others
  <2>2. CASE FetchInfo(s) \/ CopyInfo(s) BY <1>1, <2>2 DEF FetchInfo, CopyInfo
  <2>3. CASE BeginDownload(s) \/ CopyFile(s)
    BY <1>1, <2>3 DEF BeginDownload, CopyFile
  <2>4. CASE MakeUpdater(s) \/ CopyUpdater(s)
    BY <1>1, <2>4 DEF MakeUpdater, CopyUpdater
  <2>5. CASE Spawn(s) BY <1>1, <1>2, <2>5 DEF Spawn
  <2> QED BY <1>4, <2>1, <2>2, <2>3, <2>4, <2>5 DEF DoUpgrade
<1>5. CASE ApplyUpdate(s)
  <2>1. CASE NextItem(s) BY <1>1, <2>1 DEF NextItem
  <2>2. CASE Unbackup(s) \/ Backup(s) \/ Install(s)
    BY <1>1, <2>2 DEF Unbackup, Backup, Install
  <2>3. CASE Modify(s) \/ Save(s) \/ Clean(s) BY <1>1, <2>3 DEF Modify, Save, Clean
  <2> QED BY <1>5, <2>1, <2>2, <2>3 DEF ApplyUpdate
<1>6. CASE Mark(s) BY <1>1, <1>6 DEF Mark
<1>7. CASE RunMain(s) BY <1>2, <1>7 DEF RunMain
<1>8. CASE Launch(s) \/ Quit(s) \/ Crash(s) BY <1>2, <1>8 DEF Launch, Quit, Crash
<1> QED BY <1>3, <1>4, <1>5, <1>6, <1>7, <1>8 DEF Step

(* A step is one of a process at work; no step undoes shared.              *)
LEMMA StepIsBusy ==
  ASSUME NEW s \in Slots, Step(s)
  PROVE  Busy(s)
  BY DEF Step, CheckPendings, DoUpgrade, ApplyUpdate, PendingMarked,
         PendingBroken, DropUpdater, DropMark, PendingNone, PendingUpdater,
         FetchInfo, CopyInfo, ParseInfo, BeginDownload, CopyFile, MakeUpdater,
         Downloaded, CopyUpdater, Spawn, NextItem, Unbackup, Backup, Install,
         Modify, Save, Clean, Mark, RunMain, At

LEMMA StepKeepsShared ==
  ASSUME NEW s \in Slots, Step(s)
  PROVE  UNCHANGED shared
<1>1. CASE CheckPendings(s)
  BY <1>1, Zenon DEF CheckPendings, PendingMarked, PendingBroken, DropUpdater,
     DropMark, PendingNone, PendingUpdater, NoTrouble, Trouble
<1>2. CASE DoUpgrade(s)
  BY <1>2, Zenon DEF DoUpgrade, FetchInfo, CopyInfo, ParseInfo, BeginDownload,
     CopyFile, MakeUpdater, CopyUpdater, Spawn, NoTrouble, Trouble
<1>3. CASE ApplyUpdate(s)
  BY <1>3, Zenon DEF ApplyUpdate, NextItem, Unbackup, Backup, Install, Modify,
     Save, Clean, NoTrouble, Trouble
<1>4. CASE Mark(s) \/ RunMain(s)
  BY <1>4, Zenon DEF Mark, RunMain, NoTrouble, Trouble
<1> QED BY <1>1, <1>2, <1>3, <1>4 DEF Step

LEMMA PublishStep ==
  ASSUME Bringing, TypeInv, TypeInv', DiskInv, SoloInv, Publish
  PROVE  DiskInv' /\ SoloInv'
<1>1. /\ repo.ver \in Release /\ repo'.ver = repo.ver + 1 /\ repo'.list \in Lists
      /\ UNCHANGED <<app, bak, upd, info, updater, proc>>
  BY DEF Publish, TypeInv, DiskType, Rules
<1>2. shelf' = [f \in Files |-> IF f \in ToSet(repo'.list) THEN repo'.ver ELSE shelf[f]]
  BY DEF Publish
<1>3. shelf'["exe"] = repo'.ver BY <1>1, <1>2 DEF Bringing, Files
<1>4. ASSUME NEW f \in Files PROVE shelf'[f] <= repo'.ver /\ FileInv(f)'
  <2>1. /\ FileInv(f) /\ shelf[f] <= repo.ver /\ shelf[f] \in Release
        /\ app[f] \in Content /\ bak[f] \in Content /\ upd[f] \in Content
    BY DEF DiskInv, TypeInv, DiskType
  <2>2. shelf'[f] \in {repo.ver + 1, shelf[f]} BY <1>1, <1>2
  <2> QED BY <1>1, <2>1, <2>2 DEF FileInv, Content, Release, Absent, Torn
<1>5. ASSUME NEW s \in Slots, proc'[s].role # "none"
      PROVE  /\ \A t \in Slots : proc'[t].role # "none" => t = s
             /\ RoleInv(proc[s])'
  <2>1. RoleInv(proc[s]) /\ \A t \in Slots : proc[t].role # "none" => t = s
    BY <1>1, <1>5 DEF SoloInv
  <2>2. info \in Rules => info.ver \in Int BY DEF Rules, Release
  <2>3. MainInv(proc[s]) => MainInv(proc[s])'
    BY <1>1, <2>2 DEF MainInv, Release
  <2>4. UpdaterInv(proc[s]) => UpdaterInv(proc[s])' BY <1>1 DEF UpdaterInv
  <2> QED BY <1>1, <2>1, <2>3, <2>4 DEF RoleInv
<1> QED BY <1>3, <1>4, <1>5 DEF DiskInv, SoloInv

LEMMA SoloStep ==
  ASSUME NEW s \in Slots, ProcType, SoloInv, Others(s),
         \A t \in Slots \ {s} : proc[t].role = "none", RoleInv(proc[s])'
  PROVE  SoloInv'
<1>1. \A t \in Slots \ {s} : proc'[t].role = "none" BY DEF Others
<1> QED BY <1>1 DEF SoloInv

LEMMA InvStep == Ordered /\ Bringing /\ IInv /\ [Next]_vars => IInv'
<1> SUFFICES ASSUME Ordered, Bringing, IInv, [Next]_vars PROVE IInv' OBVIOUS
<1>1. TypeInv /\ TypeInv' BY TypeStep DEF IInv
<1>2. proc \in [Slots -> Proc] BY <1>1 DEF TypeInv, ProcType
<1>3. ASSUME NEW s \in Slots, Step(s), ~shared' PROVE DiskInv' /\ SoloInv'
  <2>1. DiskInv /\ SoloInv BY <1>3, StepKeepsShared DEF IInv
  <2>2. proc[s].role # "none" BY <1>3, StepIsBusy DEF Busy
  <2>3. proc[s].role \in {"main", "updater"} BY <1>2, <2>2, ProcFields DEF Role
  <2>4. RoleInv(proc[s]) /\ \A t \in Slots \ {s} : proc[t].role = "none"
    BY <2>1, <2>2 DEF SoloInv
  <2>5. DiskInv' /\ RoleInv(proc[s])' BY <1>1, <1>3, <2>1, <2>3, <2>4, ActorStep
  <2> QED BY <1>1, <1>2, <1>3, <2>1, <2>4, <2>5, OthersStay, SoloStep DEF TypeInv
<1>4. ASSUME NEW s \in Slots, Launch(s), ~shared' PROVE DiskInv' /\ SoloInv'
  <2>1. ~shared /\ Alone BY <1>4 DEF Launch
  <2>2. DiskInv /\ SoloInv BY <2>1 DEF IInv
  <2>3. DiskInv' BY <1>4, <2>2, SameDisk DEF Launch
  <2>4. app["exe"] \in Release
    BY <1>1, <1>4 DEF Launch, TypeInv, DiskType, Content, Absent, Torn, Files
  <2>5. PICK found \in BOOLEAN : Become(s, Process("main", app["exe"], found))
    BY <1>4 DEF Launch
  <2>6. PICK p : p = Process("main", app["exe"], found) OBVIOUS
  <2>7. /\ p \in Proc /\ p.role = "main" /\ p.at \in {"pending", "idle"}
        /\ p.UpdateData = Unread
    BY <2>4, <2>6, ProcessType DEF Role
  <2>8. proc'[s] = p BY <1>2, <2>5, <2>6, <2>7, Becomes
  <2>9. RoleInv(proc[s])' BY <2>7, <2>8 DEF RoleInv, MainInv, Asking, Downloading
  <2> QED BY <1>1, <1>2, <1>4, <2>1, <2>2, <2>3, <2>9, OthersStay, SoloStep
          DEF TypeInv, Alone
<1>5. ASSUME NEW s \in Slots, Quit(s) \/ Crash(s), ~shared' PROVE DiskInv' /\ SoloInv'
  <2>1. ~shared BY <1>5 DEF Quit, Crash, NoTrouble, Trouble
  <2>2. DiskInv /\ SoloInv BY <2>1 DEF IInv
  <2>3. DiskInv' BY <1>5, <2>2, SameDisk DEF Quit, Crash
  <2>4. proc'[s] = None BY <1>2, <1>5, NoneType, Becomes DEF Quit, Crash
  <2>5. RoleInv(proc[s])' BY <2>4 DEF RoleInv, None
  <2>6. proc[s].role # "none" BY <1>5 DEF Quit, Crash, Busy
  <2>7. \A t \in Slots \ {s} : proc[t].role = "none" BY <2>2, <2>6 DEF SoloInv
  <2> QED BY <1>1, <1>2, <1>5, <2>2, <2>3, <2>5, <2>7, OthersStay, SoloStep
          DEF TypeInv
<1>6. ASSUME Publish, ~shared' PROVE DiskInv' /\ SoloInv'
  <2>1. ~shared BY <1>6 DEF Publish
  <2> QED BY <1>1, <1>6, <2>1, PublishStep DEF IInv
<1>7. ASSUME UNCHANGED vars, ~shared' PROVE DiskInv' /\ SoloInv'
  <2>1. DiskInv /\ SoloInv /\ UNCHANGED <<remote, app, bak, upd, info, updater, proc>>
    BY <1>7 DEF IInv, vars
  <2>2. SoloInv' BY <2>1 DEF SoloInv, RoleInv, MainInv, UpdaterInv
  <2> QED BY <2>1, <2>2, SameDisk
<1> QED BY <1>1, <1>3, <1>4, <1>5, <1>6, <1>7 DEF IInv, Next

LEMMA InitInv == Init => IInv
<1> SUFFICES ASSUME Init PROVE IInv OBVIOUS
<1>1. 1 \in Release BY ReleaseAssumption DEF Release
<1>2. DiskInv
  BY <1>1 DEF Init, DiskInv, FileInv, Nowhere, Absent, Torn, Files
<1>3. SoloInv BY DEF Init, SoloInv, None
<1> QED BY <1>2, <1>3, InitType DEF IInv

LEMMA Invariant ==
  ASSUME Ordered, Bringing
  PROVE  Spec => []IInv
<1>1. IInv /\ [Next]_vars => IInv' BY InvStep
<1> QED BY <1>1, InitInv, PTL DEF Spec

-----------------------------------------------------------------------------
(* An updater whose update fails starts no other: it is as new as its      *)
(* rules, or newer, and so asks for nothing again.                         *)
THEOREM NoLoop ==
  ASSUME Ordered, Bringing
  PROVE  Spec => []NoUnwantedLoop
<1>1. IInv => NoUnwantedLoop
  <2> SUFFICES ASSUME IInv, NEW s \in Slots, At(s, "spawn"), ~shared
               PROVE  As(s, "main")
    BY DEF NoUnwantedLoop
  <2>1. RoleInv(proc[s]) /\ proc[s].role \in {"main", "updater"}
    BY ProcFields DEF IInv, SoloInv, TypeInv, ProcType, At, Busy, Role
  <2> QED BY <2>1, WhoIsWhere DEF At, As, Downloading
<1> QED BY <1>1, Invariant, PTL

(* Whatever fails or dies, a file of the program is in place or in Backup, *)
(* and whole there, as long as no two processes meet.                      *)
FileSurvives ==
  ~shared => \A f \in Files : (app[f] > 0 \/ bak[f] > 0) /\ Torn \notin {app[f], bak[f]}

THEOREM FilesSurvive ==
  ASSUME Ordered, Bringing
  PROVE  Spec => []FileSurvives
<1>1. IInv => FileSurvives BY DEF IInv, DiskInv, FileInv, FileSurvives
<1> QED BY <1>1, Invariant, PTL

(* A step that changes a file of the program but does not remove it is     *)
(* Install, which puts there what waits in Update.                         *)
LEMMA WhoInstalls ==
  ASSUME Ordered, Bringing, IInv, ~shared, [Next]_vars, NEW f \in Files,
         app'[f] \notin {app[f], Absent}
  PROVE  app'[f] >= bak[f] /\ app'[f] > 0
<1>1. TypeInv /\ DiskInv /\ SoloInv BY DEF IInv
<1>2. PICK s \in Slots : Step(s) /\ app' # app
  BY DEF Next, Launch, Quit, Crash, Publish, vars
<1>3. Busy(s) BY <1>2, StepIsBusy
<1>4. RoleInv(proc[s]) /\ proc[s].role \in {"main", "updater"}
  BY <1>1, <1>3, ProcFields DEF SoloInv, TypeInv, ProcType, Busy, Role
<1>5. CopyFile(s) \/ Backup(s) \/ Install(s)
  BY <1>2 DEF Step, CheckPendings, DoUpgrade, ApplyUpdate, PendingMarked,
     PendingBroken, DropUpdater, DropMark, PendingNone, PendingUpdater,
     FetchInfo, CopyInfo, ParseInfo, BeginDownload, MakeUpdater, CopyUpdater,
     Spawn, NextItem, Unbackup, Modify, Save, Clean, Mark, RunMain
<1>6. CASE CopyFile(s)
  <2>1. proc[s].at = "copyFile" BY <1>6 DEF CopyFile, At
  <2>2. File(s) \in Files BY <1>1, <1>4, <2>1, MainDownloads DEF Downloading
  <2>3. FileInv(File(s)) BY <1>1, <2>2 DEF DiskInv
  <2>4. app' = app
    BY <1>1, <1>6, <2>2, <2>3 DEF CopyFile, Filled, FileInv, TypeInv, DiskType
  <2> QED BY <2>4
<1>7. CASE Backup(s)
  <2>1. \A g \in Files : app'[g] \in {app[g], Absent}
    BY <1>1, <1>7 DEF Backup, TypeInv, DiskType
  <2> QED BY <2>1
<1>8. CASE Install(s)
  <2>1. app' = [app EXCEPT ![File(s)] = upd[File(s)]] BY <1>2, <1>8 DEF Install
  <2>2. proc[s].at = "install" BY <1>8 DEF Install, At
  <2>3. upd[File(s)] > 0 BY <1>1, <1>4, <2>2, UpdaterInstalls DEF Installing
  <2>4. f = File(s) /\ app'[f] = upd[f] BY <1>1, <2>1 DEF TypeInv, DiskType
  <2>5. FileInv(f) BY <1>1 DEF DiskInv
  <2> QED BY <2>3, <2>4, <2>5 DEF FileInv
<1> QED BY <1>5, <1>6, <1>7, <1>8

(* No file is replaced by an older or a torn one.                          *)
THEOREM NoneOlder ==
  ASSUME Ordered, Bringing
  PROVE  Spec => NeverOlder
<1>1. IInv /\ [Next]_vars =>
        [\A f \in Files : ~shared /\ app'[f] \notin {app[f], Absent} =>
           app'[f] >= bak[f] /\ app'[f] > 0]_vars
  BY WhoInstalls
<1> QED BY <1>1, Invariant, PTL DEF Spec, NeverOlder

(* .justupdate is created only by an updater that has put every file of    *)
(* its list in place.                                                      *)
THEOREM MarkIsTrue ==
  ASSUME Ordered, Bringing
  PROVE  Spec => MarkMeansDone
<1>1. ASSUME IInv, [Next]_vars, justUpdate', ~justUpdate, ~shared
      PROVE  \E s \in Slots : /\ At(s, "mark")
                              /\ \A f \in ToSet(Listed(s)) : app[f] > 0 /\ app[f] >= bak[f]
  <2>1. TypeInv /\ DiskInv /\ SoloInv BY <1>1 DEF IInv
  <2>2. PICK s \in Slots : Mark(s)
    <3>1. PICK s \in Slots : Step(s) /\ justUpdate' # justUpdate
      BY <1>1 DEF Next, Launch, Quit, Crash, Publish, vars
    <3> QED BY <1>1, <3>1 DEF Step, CheckPendings, DoUpgrade, ApplyUpdate,
         PendingMarked, PendingBroken, DropUpdater, DropMark, PendingNone,
         PendingUpdater, FetchInfo, CopyInfo, ParseInfo, BeginDownload, CopyFile,
         MakeUpdater, CopyUpdater, Spawn, NextItem, Unbackup, Backup, Install,
         Modify, Save, Clean, RunMain
  <2>3. At(s, "mark") BY <2>2 DEF Mark
  <2>4. RoleInv(proc[s]) /\ proc[s].role \in {"main", "updater"}
    BY <2>1, <2>3, ProcFields DEF SoloInv, TypeInv, ProcType, At, Busy, Role
  <2>5. UpdaterInv(proc[s]) /\ Listed(s) \in Seq(Files) /\ proc[s].item \in Nat
    BY <2>1, <2>3, <2>4, UpdaterInstalls DEF At, Installed
  <2>6. \A i \in DOMAIN Listed(s) : i < proc[s].item
    BY <2>3, <2>5, Indices DEF UpdaterInv, Listed, At, Installed
  <2>7. \A i \in DOMAIN Listed(s) :
          app[Listed(s)[i]] > 0 /\ app[Listed(s)[i]] >= bak[Listed(s)[i]]
    BY <2>3, <2>5, <2>6 DEF UpdaterInv, Listed, At, Installed
  <2>8. \A f \in ToSet(Listed(s)) : app[f] > 0 /\ app[f] >= bak[f]
    BY <2>5, <2>7 DEF ToSet
  <2> QED BY <2>3, <2>8
<1>2. IInv /\ [Next]_vars =>
        [justUpdate' /\ ~justUpdate /\ ~shared =>
           \E s \in Slots : /\ At(s, "mark")
                            /\ \A f \in ToSet(Listed(s)) : app[f] > 0 /\ app[f] >= bak[f]]_vars
  BY <1>1
<1> QED BY <1>2, Invariant, PTL DEF Spec, MarkMeansDone

-----------------------------------------------------------------------------
(* While nothing goes wrong.  Every release has all the files, each listed *)
(* once; then what the repository holds is one release.                    *)
Whole ==
  \A l \in Lists :
    ToSet(l) = Files /\ \A i, j \in DOMAIN l : l[i] = l[j] => i = j

Settled == app["data"] = app["exe"] /\ \A f \in Files : upd[f] = Absent

(* The program leaves its files alone.  It fills an empty Update, file by  *)
(* file, with the release that is in the repository.                       *)
CalmMain(p) ==
  LET L == p.UpdateData.list IN
  /\ app["data"] = app["exe"]
  /\ p.at \notin Downloading => \A f \in Files : upd[f] = Absent
  /\ p.at \in Downloading =>
       \A i \in DOMAIN L :
         /\ i < p.item => upd[L[i]] = repo.ver
         /\ i > p.item \/ (i = p.item /\ p.at = "download") => upd[L[i]] = Absent
  /\ p.at = "spawn" => updater > 0

(* The updater puts that release in place, file by file, and every one.    *)
CalmUpdater(p) ==
  LET L == p.UpdateData.list IN
  /\ p.at = "pending" => \A f \in Files : upd[f] = repo.ver
  /\ p.at \in Installing =>
       \A i \in DOMAIN L :
         /\ i < p.item => app[L[i]] = repo.ver
         /\ i >= p.item => upd[L[i]] = repo.ver
  /\ p.at \notin Installing \cup {"pending"} => Settled

CalmProc(p) ==
  /\ p.role = "main" => CalmMain(p)
  /\ p.role = "updater" => CalmUpdater(p)

CalmInv ==
  Calm =>
    /\ \A f \in Files : shelf[f] = repo.ver
    /\ \A s \in Slots : proc[s].role # "none" => CalmProc(proc[s])
    /\ Alone => Settled

(* What a step of a process at work may take for granted.                  *)
AtWork(s) ==
  /\ TypeInv /\ DiskInv /\ proc[s].role \in {"main", "updater"}
  /\ RoleInv(proc[s]) /\ CalmProc(proc[s]) /\ Calm
  /\ \A f \in Files : shelf[f] = repo.ver

LEMMA NoneFails ==
  ASSUME Calm, Calm', Trouble
  PROVE  FALSE
  BY DEF Calm, Trouble

LEMMA RepoVersion ==
  ASSUME TypeInv
  PROVE  repo.ver \in Release /\ repo.ver > 0
  BY DEF TypeInv, DiskType, Rules, Release

(* The lists the processes work with are whole.                            *)
LEMMA WholeList ==
  ASSUME Whole, NEW d \in Rules
  PROVE  /\ d.list \in Seq(Files)
         /\ \A i, j \in DOMAIN d.list : d.list[i] = d.list[j] => i = j
         /\ \A f \in Files : \E i \in DOMAIN d.list : d.list[i] = f
<1>1. d.list \in Lists /\ d.list \in Seq(Files)
  BY ReadLists DEF Rules, Read
<1>2. ToSet(d.list) = Files /\ \A i, j \in DOMAIN d.list : d.list[i] = d.list[j] => i = j
  BY <1>1 DEF Whole
<1> QED BY <1>1, <1>2 DEF ToSet

(* Where nothing is downloaded or installed.                               *)
LEMMA CalmMainStays ==
  ASSUME NEW s \in Slots, NEW where, NEW item, NEW data,
         CalmMain(proc[s]), proc[s].at \notin Downloading, where \notin Downloading,
         Moved(proc'[s], proc[s], where, item, data), UNCHANGED <<app, upd>>
  PROVE  CalmMain(proc[s])'
  BY DEF CalmMain, Moved, Downloading

LEMMA CalmUpdaterStays ==
  ASSUME NEW s \in Slots, NEW where, NEW item, NEW data,
         CalmUpdater(proc[s]), proc[s].at \notin Installing \cup {"pending"},
         where \notin Installing \cup {"pending"},
         Moved(proc'[s], proc[s], where, item, data), UNCHANGED <<app, upd>>
  PROVE  CalmUpdater(proc[s])'
  BY DEF CalmUpdater, Settled, Moved

LEMMA CalmPending ==
  ASSUME Whole, NEW s \in Slots, AtWork(s), Calm', CheckPendings(s)
  PROVE  proc'[s].role # "none" /\ CalmProc(proc[s])'
<1> USE DEF AtWork, TypeInv, ProcType
<1>1. CASE PendingUpdater(s)
  <2>1. /\ UNCHANGED <<remote, app, upd>> /\ proc[s].role = "updater"
        /\ proc[s].at = "pending" /\ proc[s].item = 1
    BY <1>1 DEF PendingUpdater, At, As, ItemOK
  <2>2. Moved(proc'[s], proc[s], "item", 1, info)
    BY <1>1, <2>1, Reads DEF DiskType
  <2>3. \A f \in Files : upd[f] = repo.ver BY <2>1 DEF CalmProc, CalmUpdater
  <2>4. \A i \in DOMAIN info.list : ~(i < 1) /\ info.list[i] \in Files
    BY ReadLists, Indices DEF Read, DiskType
  <2>5. CalmUpdater(proc[s])'
    BY <2>1, <2>2, <2>3, <2>4 DEF CalmUpdater, Moved, Installing
  <2> QED BY <2>1, <2>2, <2>5 DEF CalmProc, Moved
<1>2. CASE PendingMarked(s) \/ PendingBroken(s) \/ DropUpdater(s) \/ DropMark(s)
           \/ PendingNone(s)
  <2>1. /\ UNCHANGED <<app, upd>> /\ proc[s].role = "main"
        /\ proc[s].at \notin Downloading
    BY <1>2, WhoIsWhere
    DEF PendingMarked, PendingBroken, DropUpdater, DropMark, PendingNone, At, As,
        Downloading
  <2>2. PICK where \in {"dropUpdater", "dropMark", "fetch"} :
          Go(s, where) \/ NotReady(s, where)
    BY <1>2
    DEF PendingMarked, PendingBroken, DropUpdater, DropMark, PendingNone
  <2>3. Moved(proc'[s], proc[s], where, proc[s].item, proc[s].UpdateData)
    BY <2>2, Goes, GivesUp DEF Place
  <2>4. CalmMain(proc[s])'
    BY <2>1, <2>3, CalmMainStays DEF CalmProc, Downloading
  <2> QED BY <2>1, <2>3, <2>4 DEF CalmProc, Moved
<1> QED BY <1>1, <1>2 DEF CheckPendings

LEMMA CalmFetch ==
  ASSUME Whole, NEW s \in Slots, AtWork(s), Calm', RoleInv(proc[s])',
         FetchInfo(s) \/ CopyInfo(s) \/ ParseInfo(s)
  PROVE  proc'[s].role # "none" /\ CalmProc(proc[s])'
<1> USE DEF AtWork, TypeInv, ProcType
<1>1. /\ UNCHANGED <<remote, app, upd>>
      /\ proc[s].at \in {"fetch", "copyInfo", "parse"}
  BY DEF FetchInfo, CopyInfo, ParseInfo, At
<1>2. PICK where, item, data :
        /\ Moved(proc'[s], proc[s], where, item, data)
        /\ where \in {"idle", "copyInfo", "parse"} \/ (where = "download" /\ item = 1)
  <2>1. CASE FetchInfo(s) BY <2>1, Goes DEF FetchInfo, Place
  <2>2. CASE CopyInfo(s) BY <2>2, Goes, GivesUp DEF CopyInfo, Place
  <2>3. CASE ParseInfo(s) BY <2>3, Parses DEF DiskType
  <2> QED BY <2>1, <2>2, <2>3
<1>3. CASE where \in {"idle", "copyInfo", "parse"}
  <2>1. proc[s].role = "main" => CalmMain(proc[s])'
    BY <1>1, <1>2, <1>3, CalmMainStays DEF CalmProc, Downloading
  <2>2. proc[s].role = "updater" => CalmUpdater(proc[s])'
    BY <1>1, <1>2, <1>3, CalmUpdaterStays DEF CalmProc, Installing
  <2> QED BY <1>2, <2>1, <2>2 DEF CalmProc, Moved
<1>4. CASE where = "download" /\ item = 1
  <2>1. proc'[s].role = "main" /\ proc[s].role = "main" /\ proc'[s].at = "download"
    BY <1>2, <1>4 DEF Moved, RoleInv, UpdaterInv, Installing, Installed
  <2>2. app["data"] = app["exe"] /\ \A f \in Files : upd[f] = Absent
    BY <1>1, <2>1 DEF CalmProc, CalmMain, Downloading
  <2>3. proc'[s].UpdateData.list \in Seq(Files)
    BY <1>2, <2>1, ReadLists DEF RoleInv, MainInv, Downloading, Read
  <2>4. \A i \in DOMAIN proc'[s].UpdateData.list :
          ~(i < 1) /\ proc'[s].UpdateData.list[i] \in Files
    BY <2>3, Indices
  <2>5. CalmMain(proc[s])'
    BY <1>1, <1>2, <1>4, <2>1, <2>2, <2>4 DEF CalmMain, Moved, Downloading
  <2> QED BY <2>1, <2>5 DEF CalmProc
<1> QED BY <1>2, <1>3, <1>4

LEMMA CalmDownload ==
  ASSUME Whole, NEW s \in Slots, AtWork(s), Calm', BeginDownload(s)
  PROVE  proc'[s].role # "none" /\ CalmProc(proc[s])'
<1> USE DEF AtWork, TypeInv, ProcType
<1>1. proc[s].at = "download" /\ UNCHANGED <<remote, app, info>>
      /\ proc[s].item <= Len(Listed(s))
  BY DEF BeginDownload, At
<1>2. /\ proc[s].role = "main" /\ CalmMain(proc[s]) /\ Listed(s) = info.list
      /\ info \in Rules /\ info.list \in Seq(Files) /\ proc[s].item \in Nat \ {0}
  BY <1>1, MainDownloads DEF Downloading, CalmProc
<1>3. proc[s].item \in DOMAIN info.list /\ File(s) = info.list[proc[s].item]
  BY <1>1, <1>2 DEF File
<1>4. upd[File(s)] = Absent
  BY <1>1, <1>2, <1>3 DEF CalmMain, Listed, Downloading
<1>5. upd' = [upd EXCEPT ![File(s)] = Torn] /\ Go(s, "copyFile")
  BY <1>4 DEF BeginDownload
<1>6. Moved(proc'[s], proc[s], "copyFile", proc[s].item, proc[s].UpdateData)
  BY <1>5, Goes DEF Place
<1>7. ASSUME NEW i \in DOMAIN info.list, i # proc[s].item
      PROVE  upd'[info.list[i]] = upd[info.list[i]]
  BY <1>2, <1>3, <1>5, <1>7, WholeList DEF DiskType
<1>8. \A i \in DOMAIN info.list :
        /\ i < proc[s].item => upd'[info.list[i]] = repo.ver
        /\ i > proc[s].item => upd'[info.list[i]] = Absent
  BY <1>1, <1>2, <1>7 DEF CalmMain, Listed, Downloading
<1>9. CalmMain(proc[s])'
  BY <1>1, <1>2, <1>6, <1>8 DEF CalmMain, Moved, Listed, Downloading
<1> QED BY <1>2, <1>6, <1>9 DEF CalmProc, Moved

LEMMA CalmCopyFile ==
  ASSUME Whole, NEW s \in Slots, AtWork(s), Calm', CopyFile(s)
  PROVE  proc'[s].role # "none" /\ CalmProc(proc[s])'
<1> USE DEF AtWork, TypeInv, ProcType
<1>1. proc[s].at = "copyFile" /\ UNCHANGED <<remote, info>>
  BY DEF CopyFile, At
<1>2. /\ proc[s].role = "main" /\ CalmMain(proc[s]) /\ MainInv(proc[s])
      /\ Listed(s) = info.list
      /\ info \in Rules /\ info.list \in Seq(Files) /\ proc[s].item \in Nat \ {0}
      /\ File(s) \in Files /\ proc[s].item \in DOMAIN info.list
  BY <1>1, MainDownloads DEF Downloading, CalmProc
<1>3. upd[File(s)] = Torn /\ app[File(s)] # Torn /\ bak[File(s)] # Torn
  BY <1>1, <1>2 DEF MainInv, File, Listed, DiskInv, FileInv
<1>4. upd' = Filled(upd, File(s)) /\ UNCHANGED <<app, bak>> /\ Next1(s, "download")
  BY <1>3, NoneFails DEF CopyFile
<1>5. Moved(proc'[s], proc[s], "download", proc[s].item + 1, proc[s].UpdateData)
  BY <1>4, GoesOn DEF Place
<1>6. upd' = [upd EXCEPT ![File(s)] = repo.ver]
  BY <1>2, <1>3, <1>4 DEF Filled, DiskType
<1>7. ASSUME NEW i \in DOMAIN info.list
      PROVE  /\ i < proc[s].item + 1 => upd'[info.list[i]] = repo.ver
             /\ i >= proc[s].item + 1 => upd'[info.list[i]] = Absent
  <2>1. i \in Nat BY <1>2, Indices
  <2>2. CASE i = proc[s].item
    <3>1. upd'[info.list[i]] = repo.ver BY <1>2, <1>6, <2>2 DEF File, DiskType
    <3> QED BY <1>2, <2>2, <3>1
  <2>3. CASE i # proc[s].item
    <3>1. upd'[info.list[i]] = upd[info.list[i]]
      BY <1>2, <1>6, <2>3, WholeList DEF File, DiskType
    <3>2. /\ i < proc[s].item => upd[info.list[i]] = repo.ver
          /\ i > proc[s].item => upd[info.list[i]] = Absent
      BY <1>1, <1>2 DEF CalmMain, Listed, Downloading
    <3> QED BY <1>2, <2>1, <2>3, <3>1, <3>2
  <2> QED BY <2>2, <2>3
<1>8. \A i \in DOMAIN info.list : i = proc[s].item + 1 => i >= proc[s].item + 1
  BY <1>2, Indices
<1>9. \A i \in DOMAIN info.list : i > proc[s].item + 1 => i >= proc[s].item + 1
  BY <1>2, Indices
<1>10. CalmMain(proc[s])'
  BY <1>1, <1>2, <1>4, <1>5, <1>7, <1>8, <1>9
  DEF CalmMain, Moved, Listed, Downloading
<1> QED BY <1>2, <1>5, <1>10 DEF CalmProc, Moved

(* The updater gets the release that was in the repository.                *)
LEMMA CalmSpawn ==
  ASSUME Whole, Bringing, NEW s \in Slots, AtWork(s), Calm',
         MakeUpdater(s) \/ CopyUpdater(s) \/ Spawn(s)
  PROVE  proc'[s].role # "none" /\ CalmProc(proc[s])'
<1> USE DEF AtWork, TypeInv, ProcType
<1>1. /\ UNCHANGED <<remote, app, upd, info>>
      /\ proc[s].at \in {"download", "copyUpdater", "spawn"}
  BY DEF MakeUpdater, CopyUpdater, Spawn, Downloaded, At
<1>2. /\ proc[s].role = "main" /\ CalmMain(proc[s]) /\ MainInv(proc[s])
      /\ Listed(s) = info.list
      /\ info \in Rules /\ info.list \in Seq(Files) /\ proc[s].item \in Nat \ {0}
  BY <1>1, MainDownloads DEF Downloading, CalmProc
<1>3. proc[s].item > Len(Listed(s))
  <2>1. CASE MakeUpdater(s) BY <2>1 DEF MakeUpdater, Downloaded
  <2>2. CASE CopyUpdater(s) BY <1>2, <2>2 DEF CopyUpdater, At, MainInv, Listed
  <2>3. CASE Spawn(s) BY <1>2, <2>3 DEF Spawn, At, MainInv, Listed
  <2> QED BY <2>1, <2>2, <2>3
<1>4. WithExe(s) /\ upd["exe"] > 0
  BY <1>1, <1>2, <1>3, ExeDownloaded DEF Downloading
<1>5. CASE MakeUpdater(s) \/ CopyUpdater(s)
  <2>1. PICK where \in {"copyUpdater", "spawn"} :
          Go(s, where) /\ (where = "spawn" => updater' > 0)
    <3>1. CASE MakeUpdater(s) BY <1>4, <3>1 DEF MakeUpdater, Absent
    <3>2. CASE CopyUpdater(s)
      <4>1. updater # Absent
        BY <1>2, <3>2 DEF CopyUpdater, At, MainInv, Torn, Absent
      <4> QED BY <1>4, <3>2, <4>1, NoneFails DEF CopyUpdater, Absent
    <3> QED BY <1>5, <3>1, <3>2
  <2>2. Moved(proc'[s], proc[s], where, proc[s].item, proc[s].UpdateData)
    BY <2>1, Goes DEF Place
  <2>3. CalmMain(proc[s])'
    BY <1>1, <1>2, <2>1, <2>2 DEF CalmMain, Moved, Listed, Downloading
  <2> QED BY <1>2, <2>2, <2>3 DEF CalmProc, Moved
<1>6. CASE Spawn(s)
  <2>1. updater > 0 BY <1>2, <1>6 DEF Spawn, At, CalmMain
  <2>2. updater \in Release BY <2>1 DEF DiskType, Content, Absent, Torn
  <2>3. Become(s, Process("updater", updater, TRUE))
    <3>1. ~(updater <= 0) BY <2>1, <2>2 DEF Release
    <3>2. ~Trouble BY NoneFails
    <3> QED BY <1>6, <3>1, <3>2, Zenon DEF Spawn
  <2>4. PICK p : p = Process("updater", updater, TRUE) OBVIOUS
  <2>5. p \in Proc /\ p.role = "updater" /\ p.at = "pending"
    BY <2>2, <2>4, ProcessType DEF Role
  <2>6. proc'[s] = p BY <2>3, <2>4, <2>5, Becomes
  <2>7. ASSUME NEW f \in Files PROVE upd[f] = repo.ver
    <3>1. PICK i \in DOMAIN info.list : info.list[i] = f BY <1>2, WholeList
    <3>2. i < proc[s].item BY <1>2, <1>3, <3>1, Indices
    <3> QED BY <1>1, <1>2, <3>1, <3>2 DEF CalmMain, Listed, Downloading
  <2>8. CalmUpdater(proc[s])'
    BY <1>1, <2>5, <2>6, <2>7 DEF CalmUpdater, Installing
  <2> QED BY <2>5, <2>6, <2>8 DEF CalmProc
<1> QED BY <1>5, <1>6

LEMMA CalmInstalls ==
  ASSUME Whole, NEW s \in Slots, AtWork(s), proc[s].at \in Installing
  PROVE  /\ proc[s].role = "updater" /\ CalmUpdater(proc[s]) /\ UpdaterInv(proc[s])
         /\ Listed(s) \in Seq(Files) /\ proc[s].item \in Nat \ {0}
         /\ \A i, j \in DOMAIN Listed(s) : Listed(s)[i] = Listed(s)[j] => i = j
         /\ \A f \in Files : \E i \in DOMAIN Listed(s) : Listed(s)[i] = f
         /\ proc[s].item \in DOMAIN Listed(s) =>
              File(s) \in Files /\ upd[File(s)] = repo.ver
         /\ proc[s].at # "item" => proc[s].item \in DOMAIN Listed(s)
<1>1. /\ proc[s].role = "updater" /\ UpdaterInv(proc[s])
      /\ proc[s].UpdateData \in Rules
      /\ Listed(s) \in Seq(Files) /\ proc[s].item \in Nat \ {0}
      /\ proc[s].at # "item" => proc[s].item \in DOMAIN Listed(s)
  BY UpdaterInstalls DEF AtWork, Installing
<1>2. CalmUpdater(proc[s]) BY <1>1 DEF AtWork, CalmProc
<1>3. /\ \A i, j \in DOMAIN Listed(s) : Listed(s)[i] = Listed(s)[j] => i = j
      /\ \A f \in Files : \E i \in DOMAIN Listed(s) : Listed(s)[i] = f
  BY <1>1, WholeList DEF Listed
<1>4. proc[s].item \in DOMAIN Listed(s) =>
        File(s) \in Files /\ upd[File(s)] = repo.ver
  BY <1>1, <1>2 DEF CalmUpdater, Listed, File
<1> QED BY <1>1, <1>2, <1>3, <1>4

(* A step of the updater at its item, after which the files before item    *)
(* are in place and the others wait.                                       *)
LEMMA CalmInstalling ==
  ASSUME NEW s \in Slots, NEW where \in Installing, NEW item,
         proc[s].role = "updater", UNCHANGED remote,
         Moved(proc'[s], proc[s], where, item, proc[s].UpdateData),
         \A i \in DOMAIN Listed(s) :
           /\ i < item => app'[Listed(s)[i]] = repo.ver
           /\ i >= item => upd'[Listed(s)[i]] = repo.ver
  PROVE  proc'[s].role # "none" /\ CalmProc(proc[s])'
<1>1. CalmUpdater(proc[s])' BY DEF CalmUpdater, Moved, Listed, Installing
<1> QED BY <1>1 DEF CalmProc, Moved

LEMMA CalmNextItem ==
  ASSUME Whole, NEW s \in Slots, AtWork(s), Calm', NextItem(s)
  PROVE  proc'[s].role # "none" /\ CalmProc(proc[s])'
<1> USE DEF AtWork, TypeInv, ProcType
<1>1. proc[s].at = "item" /\ UNCHANGED <<remote, app, upd>>
  BY DEF NextItem, At
<1>2. /\ proc[s].role = "updater" /\ CalmUpdater(proc[s]) /\ UpdaterInv(proc[s])
      /\ Listed(s) \in Seq(Files) /\ proc[s].item \in Nat \ {0}
      /\ \A f \in Files : \E i \in DOMAIN Listed(s) : Listed(s)[i] = f
      /\ proc[s].item \in DOMAIN Listed(s) =>
           File(s) \in Files /\ upd[File(s)] = repo.ver
  BY <1>1, CalmInstalls DEF Installing
<1>3. \A i \in DOMAIN Listed(s) :
        /\ i < proc[s].item =>
             app[Listed(s)[i]] = repo.ver /\ upd[Listed(s)[i]] = Absent
        /\ i >= proc[s].item => upd[Listed(s)[i]] = repo.ver
  BY <1>1, <1>2 DEF CalmUpdater, UpdaterInv, Listed, Installing
<1>4. CASE proc[s].item > Len(Listed(s))
  <2>1. Go(s, "modify") BY <1>4 DEF NextItem
  <2>2. Moved(proc'[s], proc[s], "modify", proc[s].item, proc[s].UpdateData)
    BY <2>1, Goes DEF Place
  <2>3. \A f \in Files : app[f] = repo.ver /\ upd[f] = Absent
    <3>1. \A i \in DOMAIN Listed(s) : i < proc[s].item BY <1>2, <1>4, Indices
    <3> QED BY <1>2, <1>3, <3>1
  <2>4. CalmUpdater(proc[s])'
    BY <1>1, <2>2, <2>3 DEF CalmUpdater, Settled, Moved, Installing, Files
  <2> QED BY <1>2, <2>2, <2>4 DEF CalmProc, Moved
<1>5. CASE ~(proc[s].item > Len(Listed(s)))
  <2>1. upd[File(s)] # Absent
    <3>1. upd[File(s)] = repo.ver BY <1>2, <1>5
    <3> QED BY <3>1, RepoVersion DEF Absent
  <2>2. PICK where \in {"install", "unbackup", "backup"} : Go(s, where)
    BY <1>5, <2>1 DEF NextItem
  <2>3. Moved(proc'[s], proc[s], where, proc[s].item, proc[s].UpdateData)
    BY <2>2, Goes DEF Place
  <2> QED BY <1>1, <1>2, <1>3, <2>3, CalmInstalling, ZenonT(60) DEF Installing
<1> QED BY <1>4, <1>5

LEMMA CalmBackup ==
  ASSUME Whole, NEW s \in Slots, AtWork(s), Calm', Unbackup(s) \/ Backup(s)
  PROVE  proc'[s].role # "none" /\ CalmProc(proc[s])'
<1> USE DEF AtWork, TypeInv, ProcType
<1>1. proc[s].at \in {"unbackup", "backup"} /\ UNCHANGED <<remote, upd>>
  BY DEF Unbackup, Backup, At
<1>2. /\ proc[s].role = "updater" /\ CalmUpdater(proc[s]) /\ UpdaterInv(proc[s])
      /\ Listed(s) \in Seq(Files) /\ proc[s].item \in Nat \ {0}
      /\ \A i, j \in DOMAIN Listed(s) : Listed(s)[i] = Listed(s)[j] => i = j
      /\ File(s) \in Files /\ proc[s].item \in DOMAIN Listed(s)
  BY <1>1, CalmInstalls DEF Installing
<1>3. ~Trouble BY NoneFails
<1>4. app[File(s)] > 0 BY <1>1, <1>2 DEF UpdaterInv, File, Listed
<1>5. PICK where \in {"backup", "install"} :
        /\ Go(s, where)
        /\ app' = app \/ app' = [app EXCEPT ![File(s)] = Absent]
  BY <1>3, <1>4 DEF Unbackup, Backup, Absent
<1>6. Moved(proc'[s], proc[s], where, proc[s].item, proc[s].UpdateData)
  BY <1>5, Goes DEF Place
<1>7. ASSUME NEW i \in DOMAIN Listed(s)
      PROVE  /\ i < proc[s].item => app'[Listed(s)[i]] = repo.ver
             /\ i >= proc[s].item => upd'[Listed(s)[i]] = repo.ver
  <2>1. /\ i < proc[s].item => app[Listed(s)[i]] = repo.ver
        /\ i >= proc[s].item => upd[Listed(s)[i]] = repo.ver
    BY <1>1, <1>2 DEF CalmUpdater, Listed, Installing
  <2>2. i < proc[s].item => Listed(s)[i] # File(s)
    BY <1>2 DEF File
  <2>3. Listed(s)[i] \in Files BY <1>2, Indices
  <2> QED BY <1>1, <1>5, <2>1, <2>2, <2>3 DEF DiskType
<1> QED BY <1>1, <1>2, <1>6, <1>7, CalmInstalling DEF Installing

LEMMA CalmInstall ==
  ASSUME Whole, NEW s \in Slots, AtWork(s), Calm', Install(s)
  PROVE  proc'[s].role # "none" /\ CalmProc(proc[s])'
<1> USE DEF AtWork, TypeInv, ProcType
<1>1. proc[s].at = "install" /\ UNCHANGED remote
  BY DEF Install, At
<1>2. /\ proc[s].role = "updater" /\ CalmUpdater(proc[s]) /\ UpdaterInv(proc[s])
      /\ Listed(s) \in Seq(Files) /\ proc[s].item \in Nat \ {0}
      /\ \A i, j \in DOMAIN Listed(s) : Listed(s)[i] = Listed(s)[j] => i = j
      /\ File(s) \in Files /\ proc[s].item \in DOMAIN Listed(s)
      /\ upd[File(s)] = repo.ver
  BY <1>1, CalmInstalls DEF Installing
<1>3. ~Trouble BY NoneFails
<1>4. upd[File(s)] # Absent BY <1>2, RepoVersion DEF Absent
<1>5. /\ app' = [app EXCEPT ![File(s)] = upd[File(s)]]
      /\ upd' = [upd EXCEPT ![File(s)] = Absent] /\ Next1(s, "item")
  BY <1>3, <1>4 DEF Install
<1>6. Moved(proc'[s], proc[s], "item", proc[s].item + 1, proc[s].UpdateData)
  BY <1>5, GoesOn DEF Place
<1>7. ASSUME NEW i \in DOMAIN Listed(s)
      PROVE  /\ i < proc[s].item + 1 => app'[Listed(s)[i]] = repo.ver
             /\ i >= proc[s].item + 1 => upd'[Listed(s)[i]] = repo.ver
  <2>1. i \in Nat /\ Listed(s)[i] \in Files BY <1>2, Indices
  <2>2. CASE i = proc[s].item
    <3>1. app'[Listed(s)[i]] = repo.ver BY <1>2, <1>5, <2>2 DEF File, DiskType
    <3> QED BY <1>2, <2>2, <3>1
  <2>3. CASE i # proc[s].item
    <3>1. Listed(s)[i] # File(s) BY <1>2, <2>3 DEF File
    <3>2. /\ app'[Listed(s)[i]] = app[Listed(s)[i]]
          /\ upd'[Listed(s)[i]] = upd[Listed(s)[i]]
      BY <1>5, <2>1, <3>1 DEF DiskType
    <3>3. /\ i < proc[s].item => app[Listed(s)[i]] = repo.ver
          /\ i >= proc[s].item => upd[Listed(s)[i]] = repo.ver
      BY <1>1, <1>2 DEF CalmUpdater, Listed, Installing
    <3> QED BY <1>2, <2>1, <2>3, <3>2, <3>3
  <2> QED BY <2>2, <2>3
<1> QED BY <1>1, <1>2, <1>6, <1>7, CalmInstalling DEF Installing

LEMMA CalmFinish ==
  ASSUME NEW s \in Slots, AtWork(s), Calm',
         Modify(s) \/ Save(s) \/ Clean(s) \/ Mark(s)
  PROVE  proc'[s].role # "none" /\ CalmProc(proc[s])'
<1> USE DEF AtWork, TypeInv, ProcType
<1>1. proc[s].at \in Installed /\ UNCHANGED <<remote, app>>
  BY DEF Modify, Save, Clean, Mark, At, Installed
<1>2. proc[s].role = "updater" /\ Settled
  BY <1>1, UpdaterInstalls DEF CalmProc, CalmUpdater, Installing, Installed
<1>3. Settled'
  <2>1. upd' = upd \/ upd' = Nowhere BY DEF Modify, Save, Clean, Mark
  <2> QED BY <1>1, <1>2, <2>1 DEF Settled, Nowhere
<1>4. PICK where \in {"save", "clean", "fetch", "mark", "runMain"} : Go(s, where)
  BY DEF Modify, Save, Clean, Mark
<1>5. Moved(proc'[s], proc[s], where, proc[s].item, proc[s].UpdateData)
  BY <1>4, Goes DEF Place
<1>6. CalmUpdater(proc[s])' BY <1>3, <1>5 DEF CalmUpdater, Moved, Installing
<1> QED BY <1>2, <1>5, <1>6 DEF CalmProc, Moved

LEMMA CalmRunMain ==
  ASSUME NEW s \in Slots, AtWork(s), Calm', RunMain(s)
  PROVE  CalmProc(proc[s])' /\ Settled'
<1> USE DEF AtWork, TypeInv, ProcType
<1>1. proc[s].at = "runMain" /\ UNCHANGED <<app, upd>> BY DEF RunMain, At
<1>2. Settled
  BY <1>1, UpdaterInstalls DEF CalmProc, CalmUpdater, Installing
<1>3. Settled' BY <1>1, <1>2 DEF Settled
<1>4. ~Trouble BY NoneFails
<1>5. CASE Become(s, None)
  <2>1. proc'[s] = None BY <1>5, NoneType, Becomes
  <2> QED BY <1>3, <2>1 DEF CalmProc, None
<1>6. CASE app["exe"] > 0 /\ Become(s, Process("main", app["exe"], TRUE))
  <2>1. app["exe"] \in Release
    BY <1>6 DEF DiskType, Content, Absent, Torn, Files
  <2>2. PICK p : p = Process("main", app["exe"], TRUE) OBVIOUS
  <2>3. p \in Proc /\ p.role = "main" /\ p.at = "pending"
    BY <2>1, <2>2, ProcessType DEF Role
  <2>4. proc'[s] = p BY <1>6, <2>2, <2>3, Becomes
  <2>5. CalmMain(proc[s])'
    BY <1>3, <2>3, <2>4 DEF CalmMain, Settled, Downloading
  <2> QED BY <1>3, <2>3, <2>4, <2>5 DEF CalmProc
<1> QED BY <1>4, <1>5, <1>6, Zenon DEF RunMain

LEMMA CalmStep ==
  ASSUME Whole, Bringing, NEW s \in Slots, AtWork(s), Calm', RoleInv(proc[s])',
         Step(s)
  PROVE  CalmProc(proc[s])' /\ (proc'[s].role # "none" \/ Settled')
<1>1. CASE CheckPendings(s) BY <1>1, CalmPending
<1>2. CASE DoUpgrade(s)
  BY <1>2, CalmFetch, CalmDownload, CalmCopyFile, CalmSpawn DEF DoUpgrade
<1>3. CASE ApplyUpdate(s)
  BY <1>3, CalmNextItem, CalmBackup, CalmInstall, CalmFinish DEF ApplyUpdate
<1>4. CASE Mark(s) BY <1>4, CalmFinish
<1>5. CASE RunMain(s) BY <1>5, CalmRunMain
<1> QED BY <1>1, <1>2, <1>3, <1>4, <1>5 DEF Step

LEMMA StepKeepsRemote ==
  ASSUME NEW s \in Slots, Step(s) \/ Launch(s) \/ Quit(s) \/ Crash(s)
  PROVE  UNCHANGED remote
  BY DEF Step, CheckPendings, DoUpgrade, ApplyUpdate, PendingMarked,
         PendingBroken, DropUpdater, DropMark, PendingNone, PendingUpdater,
         FetchInfo, CopyInfo, ParseInfo, BeginDownload, CopyFile, MakeUpdater,
         CopyUpdater, Spawn, NextItem, Unbackup, Backup, Install, Modify, Save,
         Clean, Mark, RunMain, Launch, Quit, Crash

(* What has gone wrong stays so.                                           *)
LEMMA CalmBefore ==
  ASSUME TypeInv, [Next]_vars, Calm'
  PROVE  Calm
<1>1. ASSUME NoTrouble PROVE Calm BY <1>1 DEF NoTrouble, Calm
<1>2. ASSUME Trouble PROVE Calm
  BY <1>2 DEF Trouble, Calm, TypeInv, DiskType
<1>3. ASSUME NEW s \in Slots, Step(s) PROVE NoTrouble \/ Trouble
  <2>1. CASE CheckPendings(s)
    BY <2>1, Zenon DEF CheckPendings, PendingMarked, PendingBroken, DropUpdater,
       DropMark, PendingNone, PendingUpdater
  <2>2. CASE DoUpgrade(s)
    BY <2>2, Zenon DEF DoUpgrade, FetchInfo, CopyInfo, ParseInfo, BeginDownload,
       CopyFile, MakeUpdater, CopyUpdater, Spawn
  <2>3. CASE ApplyUpdate(s)
    BY <2>3, Zenon DEF ApplyUpdate, NextItem, Unbackup, Backup, Install, Modify,
       Save, Clean
  <2>4. CASE Mark(s) \/ RunMain(s) BY <2>4, Zenon DEF Mark, RunMain
  <2> QED BY <1>3, <2>1, <2>2, <2>3, <2>4 DEF Step
<1>4. ASSUME NEW s \in Slots, Launch(s) PROVE Calm
  <2>1. ~shared /\ ~amid BY <1>4 DEF Launch, Calm
  <2>2. troubles = 0
    <3>1. UNCHANGED troubles \/ troubles' = troubles + 1
      BY <1>4, Zenon DEF Launch
    <3> QED BY <3>1 DEF Calm, TypeInv, DiskType
  <2> QED BY <2>1, <2>2 DEF Calm
<1>5. ASSUME NEW s \in Slots, Quit(s) \/ Crash(s) PROVE NoTrouble \/ Trouble
  BY <1>5 DEF Quit, Crash
<1>6. CASE Publish
  <2>1. ~amid /\ ~shared /\ troubles = 0 BY <1>6 DEF Publish, Calm
  <2> QED BY <2>1 DEF Calm
<1>7. CASE UNCHANGED vars BY <1>7 DEF vars, Calm
<1> QED BY <1>1, <1>2, <1>3, <1>4, <1>5, <1>6, <1>7 DEF Next

LEMMA CalmPublish ==
  ASSUME Whole, TypeInv, SoloInv, CalmInv, Calm, Calm', Publish
  PROVE  CalmInv'
<1>1. /\ repo' \in Rules /\ UNCHANGED <<app, upd, updater, proc>>
      /\ repo'.list \in Lists
  BY DEF Publish, TypeInv, DiskType, Rules, Release
<1>2. \A s \in Slots : ~Busy(s) BY DEF Publish, Calm
<1>3. \A f \in Files : shelf'[f] = repo'.ver BY <1>1 DEF Publish, Whole
<1>4. Alone' => Settled' BY <1>1 DEF CalmInv, Alone, Settled
<1>5. ASSUME NEW s \in Slots, proc'[s].role # "none" PROVE CalmProc(proc[s])'
  <2>1. proc'[s] = proc[s] /\ proc[s].at = "idle" /\ CalmProc(proc[s])
    BY <1>1, <1>2, <1>5 DEF Busy, CalmInv
  <2>2. CalmMain(proc[s]) => CalmMain(proc[s])'
    BY <1>1, <2>1 DEF CalmMain, Downloading
  <2>3. CalmUpdater(proc[s]) => CalmUpdater(proc[s])'
    BY <1>1, <2>1 DEF CalmUpdater, Settled, Installing
  <2> QED BY <2>1, <2>2, <2>3 DEF CalmProc
<1> QED BY <1>3, <1>4, <1>5 DEF CalmInv

LEMMA CalmStart ==
  ASSUME NEW s \in Slots, TypeInv, CalmInv, Calm, Calm', Launch(s)
  PROVE  CalmInv'
<1>1. UNCHANGED <<remote, app, upd>> BY DEF Launch
<1>2. Alone
  <2>1. ~shared' BY DEF Calm
  <2> QED BY <2>1 DEF Launch
<1>3. Settled' /\ \A f \in Files : shelf'[f] = repo'.ver
  BY <1>1, <1>2 DEF CalmInv, Settled
<1>4. app["exe"] \in Release
  BY DEF Launch, TypeInv, DiskType, Content, Absent, Torn, Files
<1>5. PICK found \in BOOLEAN : Become(s, Process("main", app["exe"], found))
  BY DEF Launch
<1>6. PICK p : p = Process("main", app["exe"], found) OBVIOUS
<1>7. p \in Proc /\ p.role = "main" /\ p.at \in {"pending", "idle"}
  BY <1>4, <1>6, ProcessType DEF Role
<1>8. proc'[s] = p /\ Others(s)
  BY <1>5, <1>6, <1>7, Becomes DEF TypeInv, ProcType
<1>9. CalmProc(proc[s])'
  BY <1>3, <1>7, <1>8 DEF CalmProc, CalmMain, Settled, Downloading
<1>10. \A t \in Slots \ {s} : proc'[t].role = "none"
  BY <1>2, <1>8 DEF Alone, Others
<1> QED BY <1>3, <1>9, <1>10 DEF CalmInv

LEMMA CalmEnd ==
  ASSUME NEW s \in Slots, TypeInv, SoloInv, CalmInv, Calm, Calm', Quit(s) \/ Crash(s)
  PROVE  CalmInv'
<1>1. Quit(s) BY NoneFails DEF Crash
<1>2. /\ UNCHANGED <<remote, app, upd>> /\ Become(s, None)
      /\ proc[s].role # "none" /\ proc[s].at = "idle"
  BY <1>1 DEF Quit, Busy
<1>3. CalmProc(proc[s]) /\ RoleInv(proc[s]) /\ \A t \in Slots \ {s} : proc[t].role = "none"
  BY <1>2 DEF CalmInv, SoloInv
<1>4. proc[s].role \in {"main", "updater"}
  BY <1>2, ProcFields DEF TypeInv, ProcType, Role
<1>5. Settled
  BY <1>2, <1>3, <1>4
  DEF CalmProc, CalmMain, CalmUpdater, Settled, Downloading, Installing
<1>6. Settled' /\ \A f \in Files : shelf'[f] = repo'.ver
  BY <1>2, <1>5 DEF CalmInv, Settled
<1>7. proc'[s] = None /\ Others(s)
  BY <1>2, NoneType, Becomes DEF TypeInv, ProcType
<1>8. \A t \in Slots : proc'[t].role = "none"
  BY <1>3, <1>7 DEF Others, None
<1> QED BY <1>6, <1>8 DEF CalmInv

LEMMA CalmInvStep ==
  ASSUME Ordered, Bringing, Whole, IInv, CalmInv, [Next]_vars
  PROVE  CalmInv'
<1> SUFFICES ASSUME Calm' PROVE CalmInv' BY DEF CalmInv
<1>1. IInv' BY InvStep
<1>2. TypeInv /\ TypeInv' BY <1>1 DEF IInv
<1>3. Calm BY <1>2, CalmBefore
<1>4. DiskInv /\ SoloInv /\ SoloInv' BY <1>1, <1>3 DEF IInv, Calm
<1>5. proc \in [Slots -> Proc] BY <1>2 DEF TypeInv, ProcType
<1>6. ASSUME NEW s \in Slots, Step(s) PROVE CalmInv'
  <2>1. proc[s].role \in {"main", "updater"}
    BY <1>5, <1>6, StepIsBusy, ProcFields DEF Busy, Role
  <2>2. /\ RoleInv(proc[s]) /\ CalmProc(proc[s])
        /\ \A t \in Slots \ {s} : proc[t].role = "none"
        /\ \A f \in Files : shelf[f] = repo.ver
    BY <1>3, <1>4, <2>1 DEF SoloInv, CalmInv
  <2>3. RoleInv(proc[s])' BY <1>2, <1>4, <1>6, <2>1, <2>2, ActorStep
  <2>4. AtWork(s) BY <1>2, <1>3, <1>4, <2>1, <2>2 DEF AtWork
  <2>5. CalmProc(proc[s])' /\ (proc'[s].role # "none" \/ Settled')
    BY <1>6, <2>3, <2>4, CalmStep
  <2>6. \A t \in Slots \ {s} : proc'[t].role = "none"
    BY <1>5, <1>6, <2>2, OthersStay DEF Others
  <2>7. \A f \in Files : shelf'[f] = repo'.ver BY <1>6, <2>2, StepKeepsRemote
  <2> QED BY <2>5, <2>6, <2>7 DEF CalmInv, Alone
<1>7. ASSUME NEW s \in Slots, Launch(s) PROVE CalmInv'
  BY <1>2, <1>3, <1>7, CalmStart
<1>8. ASSUME NEW s \in Slots, Quit(s) \/ Crash(s) PROVE CalmInv'
  BY <1>2, <1>3, <1>4, <1>8, CalmEnd
<1>9. CASE Publish BY <1>2, <1>3, <1>4, <1>9, CalmPublish
<1>10. CASE UNCHANGED vars
  <2>1. UNCHANGED <<remote, app, upd, updater, proc>> BY <1>10 DEF vars
  <2> QED BY <1>3, <2>1
          DEF CalmInv, CalmProc, CalmMain, CalmUpdater, Settled, Alone
<1> QED BY <1>6, <1>7, <1>8, <1>9, <1>10 DEF Next

LEMMA CalmInit == Init => CalmInv
<1> SUFFICES ASSUME Init PROVE CalmInv OBVIOUS
<1>1. Settled BY DEF Init, Settled, Nowhere, Files
<1>2. \A f \in Files : shelf[f] = repo.ver BY DEF Init
<1>3. \A s \in Slots : proc[s].role = "none" BY DEF Init, None
<1> QED BY <1>1, <1>2, <1>3 DEF CalmInv

(* While nothing goes wrong, the files of the program are of one release   *)
(* whenever no updater works at them.                                      *)
THEOREM ReleasesStayWhole ==
  ASSUME Ordered, Whole
  PROVE  Spec => []OneRelease
<1>0. Bringing BY DEF Whole, Bringing, Files
<1>1. IInv /\ CalmInv => OneRelease
  <2> SUFFICES ASSUME IInv, CalmInv, Calm,
                      \A s \in Slots : ~(As(s, "updater") /\ Busy(s))
               PROVE  app["data"] = app["exe"]
    BY DEF OneRelease
  <2>1. CASE Alone BY <2>1 DEF CalmInv, Settled
  <2>2. CASE ~Alone
    <3>1. PICK s \in Slots : proc[s].role # "none" BY <2>2 DEF Alone
    <3>2. CalmProc(proc[s]) /\ proc[s].role \in {"main", "updater"}
      BY <3>1, ProcFields DEF CalmInv, IInv, TypeInv, ProcType, Role
    <3>3. CASE proc[s].role = "main" BY <3>2, <3>3 DEF CalmProc, CalmMain
    <3>4. CASE proc[s].role = "updater"
      <4>1. proc[s].at = "idle" BY <3>4 DEF As, Busy
      <4> QED BY <3>2, <3>4, <4>1 DEF CalmProc, CalmUpdater, Settled, Installing
    <3> QED BY <3>2, <3>3, <3>4
  <2> QED BY <2>1, <2>2
<1>2. IInv /\ CalmInv /\ [Next]_vars => CalmInv' BY <1>0, CalmInvStep
<1>3. Spec => []IInv BY <1>0, Invariant
<1> QED BY <1>1, <1>2, <1>3, CalmInit, PTL DEF Spec
-----------------------------------------------------------------------------
(* Two processes at a time, while nothing fails and nobody dies.  Every    *)
(* release lists every file.                                               *)
Complete == \A l \in Lists : Files \subseteq ToSet(l)

(* The process has still to find f Absent in Update, and to download it,   *)
(* before it may run an updater ...                                        *)
Behind(p, f) ==
  \/ p.role = "none"
  \/ p.at \in {"idle", "dropUpdater", "dropMark", "fetch", "copyInfo", "parse", "mark",
               "runMain"}
  \/ p.at = "pending" /\ p.role = "main"
  \/ /\ p.at \in {"download", "copyFile"} /\ p.UpdateData \in Rules
     /\ \A i \in DOMAIN p.UpdateData.list : i < p.item => p.UpdateData.list[i] # f

(* ... or it is at f, or ahead: it has downloaded it, or is an updater.    *)
AtFile == {"copyFile", "unbackup", "backup", "install"}
Handles(p, f) ==
  p.role # "none" /\ p.at \in AtFile /\ p.UpdateData.list[p.item] = f
Stand(p, f) ==
  IF Handles(p, f) THEN p.at ELSE IF Behind(p, f) THEN "behind" ELSE "ahead"
Stands == AtFile \cup {"behind", "ahead"}

(* What one process, which stands at k, knows of the three copies a, b and *)
(* u of a file, in its place, in Backup and in Update, when the other one  *)
(* stands at m.  A process at work on the file would lose it only if the   *)
(* other one took it too, and that one is never where it could.            *)
OneSide(k, m, a, b, u) ==
  /\ k = "unbackup" =>
       /\ \/ a > 0
          \/ u > 0 /\ ((a = Absent /\ m = "install") \/ (a = Torn /\ m = "copyFile"))
       /\ m \in {"unbackup", "backup", "install"} => u > 0
  /\ k = "backup" /\ a = Torn => b = Absent /\ u > 0 /\ m = "copyFile"
  /\ k = "install" =>
       \/ b > 0
       \/ /\ u > 0
          /\ \/ m = "backup"
             \/ a = Absent /\ b = Absent /\ m = "behind"
             \/ a = Absent /\ b = Torn /\ m = "copyFile"

(* A torn copy is being written by somebody.                               *)
TornInv(k, m, a, b, u) ==
  /\ k # "copyFile" /\ m # "copyFile" => Torn \notin {a, b, u}
  /\ k # "copyFile" \/ m # "copyFile" =>
       ~(a = Torn /\ b = Torn) /\ ~(a = Torn /\ u = Torn) /\ ~(b = Torn /\ u = Torn)
  /\ ~(a = Torn /\ b = Torn /\ u = Torn)

(* Only Update holds the file, and a process is about to install it.       *)
Waits(k, m, a, b, u) ==
  /\ u > 0
  /\ \/ a = Absent /\ b = Absent /\ k = "install" /\ m \in {"backup", "behind"}
     \/ a = Torn /\ b = Absent /\ k = "backup" /\ m = "copyFile"
     \/ a = Absent /\ b = Torn /\ k = "install" /\ m = "copyFile"

PairInv(k, m, a, b, u) ==
  /\ OneSide(k, m, a, b, u) /\ OneSide(m, k, a, b, u) /\ TornInv(k, m, a, b, u)
  /\ a > 0 \/ b > 0 \/ Waits(k, m, a, b, u) \/ Waits(m, k, a, b, u)

(* One step of a process, from k to n, as a file sees it: c, d and v are   *)
(* its new copies.                                                         *)
Mended(old, new) == IF old = Torn THEN new > 0 ELSE new = old
FileStep(k, n, a, b, u, c, d, v) ==
  \/ /\ k \in {"behind", "ahead"} /\ n \in {"behind", k} /\ c = a /\ d = b /\ v = u
  \/ /\ k \in {"behind", "ahead"} /\ n = "copyFile" /\ c = a /\ d = b
     /\ u = Absent /\ v = Torn
  \/ /\ k = "copyFile" /\ n = "ahead" /\ c = a /\ d = b /\ u = Torn /\ v > 0
  \/ /\ k = "copyFile" /\ n = "behind" /\ Mended(a, c) /\ Mended(b, d) /\ v = u
     /\ u # Torn \/ Torn \in {a, b}
  \/ /\ k = "ahead" /\ u # Absent /\ c = a /\ d = b /\ v = u
     /\ \/ n = "install" /\ a = Absent
        \/ n = "unbackup" /\ a # Absent
        \/ n = "backup" /\ a # Absent /\ b = Absent
  \/ k = "ahead" /\ n = "behind" /\ c = a /\ d = b /\ v = Absent
  \/ k = "unbackup" /\ n = "backup" /\ c = a /\ d = Absent /\ v = u
  \/ k = "backup" /\ n = "install" /\ a # Absent /\ c = Absent /\ d = a /\ v = u
  \/ k = "backup" /\ n = "behind" /\ a = Absent /\ c = a /\ d = b /\ v = u
  \/ k = "install" /\ n = "ahead" /\ u # Absent /\ c = u /\ d = b /\ v = Absent
  \/ k = "install" /\ n = "behind" /\ u = Absent /\ c = a /\ d = b /\ v = u

LEMMA PairStep ==
  ASSUME NEW k \in Stands, NEW n \in Stands, NEW m \in Stands,
         NEW a \in Int, NEW b \in Int, NEW u \in Int,
         NEW c \in Int, NEW d \in Int, NEW v \in Int,
         PairInv(k, m, a, b, u), FileStep(k, n, a, b, u, c, d, v),
         {a, b, u, c, d, v} \subseteq {i \in Int : i >= -1}
  PROVE  PairInv(n, m, c, d, v)
<1> USE DEF PairInv, OneSide, TornInv, Waits, Stands, AtFile, Absent, Torn, Mended
<1>1. CASE k \in {"behind", "ahead"} /\ n \in {"behind", k} /\ c = a /\ d = b /\ v = u
  BY <1>1
<1>2. CASE k \in {"behind", "ahead"} /\ n = "copyFile" /\ c = a /\ d = b
           /\ u = Absent /\ v = Torn
  BY <1>2
<1>3. CASE k = "copyFile" /\ n = "ahead" /\ c = a /\ d = b /\ u = Torn /\ v > 0
  BY <1>3
<1>4. CASE k = "copyFile" /\ n = "behind" /\ Mended(a, c) /\ Mended(b, d) /\ v = u
           /\ (u # Torn \/ Torn \in {a, b})
  BY <1>4
<1>5. CASE k = "ahead" /\ n = "install" /\ u # Absent /\ a = Absent
           /\ c = a /\ d = b /\ v = u
  BY <1>5
<1>6. CASE k = "ahead" /\ n = "unbackup" /\ u # Absent /\ a # Absent
           /\ c = a /\ d = b /\ v = u
  BY <1>6
<1>7. CASE k = "ahead" /\ n = "backup" /\ u # Absent /\ a # Absent /\ b = Absent
           /\ c = a /\ d = b /\ v = u
  BY <1>7
<1>8. CASE k = "ahead" /\ n = "behind" /\ c = a /\ d = b /\ v = Absent
  BY <1>8
<1>9. CASE k = "unbackup" /\ n = "backup" /\ c = a /\ d = Absent /\ v = u
  BY <1>9
<1>10. CASE k = "backup" /\ n = "install" /\ a # Absent /\ c = Absent /\ d = a /\ v = u
  BY <1>10
<1>11. CASE k = "backup" /\ n = "behind" /\ a = Absent /\ c = a /\ d = b /\ v = u
  BY <1>11
<1>12. CASE k = "install" /\ n = "ahead" /\ u # Absent /\ c = u /\ d = b /\ v = Absent
  BY <1>12
<1>13. CASE k = "install" /\ n = "behind" /\ u = Absent /\ c = a /\ d = b /\ v = u
  BY <1>13
<1> QED
  BY <1>1, <1>2, <1>3, <1>4, <1>5, <1>6, <1>7, <1>8, <1>9, <1>10, <1>11, <1>12,
     <1>13 DEF FileStep

-----------------------------------------------------------------------------
(* Each step of a process is one of these for every file.                  *)
Seen(s, f) ==
  FileStep(Stand(proc[s], f), Stand(proc'[s], f), app[f], bak[f], upd[f],
           app'[f], bak'[f], upd'[f])
Quiet == troubles = 0 /\ troubles' = 0
SameFiles == UNCHANGED <<app, bak, upd>>

LEMMA NoFailure ==
  ASSUME Quiet, Trouble
  PROVE  FALSE
  BY DEF Quiet, Trouble

LEMMA StandOf == ASSUME NEW p, NEW f PROVE Stand(p, f) \in Stands
  BY DEF Stand, Stands, Handles

LEMMA SeenPending ==
  ASSUME TypeInv, Quiet, NEW s \in Slots, NEW f \in Files, CheckPendings(s)
  PROVE  Seen(s, f)
<1> USE DEF TypeInv, ProcType
<1>1. CASE PendingUpdater(s)
  <2>1. /\ SameFiles /\ proc[s].role = "updater" /\ proc[s].at = "pending"
    BY <1>1 DEF PendingUpdater, At, As, SameFiles
  <2>2. Moved(proc'[s], proc[s], "item", proc[s].item, info)
    BY <1>1, Reads DEF DiskType
  <2>3. Stand(proc[s], f) = "ahead" /\ Stand(proc'[s], f) = "ahead"
    BY <2>1, <2>2 DEF Stand, Handles, Behind, AtFile, Moved
  <2> QED BY <2>1, <2>3 DEF Seen, FileStep, SameFiles
<1>2. CASE PendingMarked(s) \/ PendingBroken(s) \/ DropUpdater(s) \/ DropMark(s)
           \/ PendingNone(s)
  <2>1. /\ SameFiles
        /\ \/ proc[s].at = "pending" /\ proc[s].role = "main"
           \/ proc[s].at \in {"dropUpdater", "dropMark"}
    BY <1>2
    DEF PendingMarked, PendingBroken, DropUpdater, DropMark, PendingNone, At, As,
        SameFiles
  <2>2. PICK where \in {"dropUpdater", "dropMark", "fetch"} :
          Go(s, where) \/ NotReady(s, where)
    BY <1>2
    DEF PendingMarked, PendingBroken, DropUpdater, DropMark, PendingNone
  <2>3. Moved(proc'[s], proc[s], where, proc[s].item, proc[s].UpdateData)
    BY <2>2, Goes, GivesUp DEF Place
  <2>4. Stand(proc[s], f) = "behind" /\ Stand(proc'[s], f) = "behind"
    BY <2>1, <2>3 DEF Stand, Handles, Behind, AtFile, Moved
  <2> QED BY <2>1, <2>4 DEF Seen, FileStep, SameFiles
<1> QED BY <1>1, <1>2 DEF CheckPendings

(* Rules that call for an update are rules of a release.                   *)
LEMMA NeededRules ==
  ASSUME TypeInv, NEW s \in Slots, UpdateNeeded(s)
  PROVE  Parsed(s) \in Rules
<1>1. proc[s].UpdateData \in Read /\ info \in Rules \cup {NoRules}
  BY ProcFields DEF TypeInv, ProcType, DiskType
<1> QED BY <1>1 DEF UpdateNeeded, Parsed, Read

LEMMA SeenFetch ==
  ASSUME TypeInv, Quiet, NEW s \in Slots, NEW f \in Files,
         FetchInfo(s) \/ CopyInfo(s) \/ ParseInfo(s)
  PROVE  Seen(s, f)
<1> USE DEF TypeInv, ProcType
<1>1. SameFiles /\ proc[s].at \in {"fetch", "copyInfo", "parse"}
  BY DEF FetchInfo, CopyInfo, ParseInfo, At, SameFiles
<1>2. PICK where, item, data :
        /\ Moved(proc'[s], proc[s], where, item, data)
        /\ \/ where \in {"idle", "copyInfo", "parse"}
           \/ where = "download" /\ item = 1 /\ data \in Rules
  <2>1. CASE FetchInfo(s) BY <2>1, Goes DEF FetchInfo, Place
  <2>2. CASE CopyInfo(s) BY <2>2, Goes, GivesUp DEF CopyInfo, Place
  <2>3. CASE ParseInfo(s) BY <2>3, Parses, NeededRules DEF DiskType
  <2> QED BY <2>1, <2>2, <2>3
<1>3. Stand(proc[s], f) = "behind"
  BY <1>1 DEF Stand, Handles, Behind, AtFile
<1>4. CASE where \in {"idle", "copyInfo", "parse"}
  <2>1. Stand(proc'[s], f) = "behind"
    BY <1>2, <1>4 DEF Stand, Handles, Behind, AtFile, Moved
  <2> QED BY <1>1, <1>3, <2>1 DEF Seen, FileStep, SameFiles
<1>5. CASE where = "download" /\ item = 1 /\ data \in Rules
  <2>1. data.list \in Seq(Files) BY <1>5, ReadLists DEF Read
  <2>2. \A i \in DOMAIN data.list : ~(i < 1) BY <2>1, Indices
  <2>3. Stand(proc'[s], f) = "behind"
    BY <1>2, <1>5, <2>2 DEF Stand, Handles, Behind, AtFile, Moved
  <2> QED BY <1>1, <1>3, <2>3 DEF Seen, FileStep, SameFiles
<1> QED BY <1>2, <1>4, <1>5

(* What a process that is downloading stands at.                           *)
LEMMA AtAnItem ==
  ASSUME TypeInv, NEW s \in Slots, proc[s].item <= Len(Listed(s))
  PROVE  proc[s].item \in DOMAIN Listed(s) /\ File(s) \in Files
<1>1. Listed(s) \in Seq(Files) /\ proc[s].item \in Nat \ {0}
  BY ProcFields DEF TypeInv, ProcType, Listed
<1> QED BY <1>1 DEF File

LEMMA SeenBegin ==
  ASSUME TypeInv, Quiet, NEW s \in Slots, NEW f \in Files, BeginDownload(s)
  PROVE  Seen(s, f)
<1> USE DEF TypeInv, ProcType
<1>1. /\ proc[s].at = "download" /\ proc[s].role # "none" /\ UNCHANGED <<app, bak>>
      /\ proc[s].item <= Len(Listed(s))
  BY DEF BeginDownload, At, Busy
<1>2. File(s) \in Files BY <1>1, AtAnItem
<1>3. Stand(proc[s], f) \in {"behind", "ahead"}
  BY <1>1 DEF Stand, Handles, AtFile
<1>4. CASE upd[File(s)] # Absent
  <2>1. UNCHANGED upd /\ NotReady(s, "idle") BY <1>4 DEF BeginDownload
  <2>2. Moved(proc'[s], proc[s], "idle", proc[s].item, proc[s].UpdateData)
    BY <2>1, GivesUp DEF Place
  <2>3. Stand(proc'[s], f) = "behind"
    BY <2>2 DEF Stand, Handles, Behind, AtFile, Moved
  <2> QED BY <1>1, <1>3, <2>1, <2>3 DEF Seen, FileStep
<1>5. CASE upd[File(s)] = Absent
  <2>1. upd' = [upd EXCEPT ![File(s)] = Torn] /\ Go(s, "copyFile")
    BY <1>5 DEF BeginDownload
  <2>2. Moved(proc'[s], proc[s], "copyFile", proc[s].item, proc[s].UpdateData)
    BY <2>1, Goes DEF Place
  <2>3. CASE f = File(s)
    <3>1. Stand(proc'[s], f) = "copyFile"
      BY <1>1, <2>2, <2>3 DEF Stand, Handles, AtFile, Moved, File, Listed
    <3>2. upd[f] = Absent /\ upd'[f] = Torn
      BY <1>2, <1>5, <2>1, <2>3 DEF DiskType
    <3> QED BY <1>1, <1>3, <3>1, <3>2 DEF Seen, FileStep
  <2>4. CASE f # File(s)
    <3>1. Stand(proc'[s], f) \in {"behind", Stand(proc[s], f)}
      BY <1>1, <2>2, <2>4 DEF Stand, Handles, Behind, AtFile, Moved, File, Listed
    <3>2. upd'[f] = upd[f] BY <1>2, <2>1, <2>4 DEF DiskType
    <3> QED BY <1>1, <1>3, <3>1, <3>2 DEF Seen, FileStep
  <2> QED BY <2>3, <2>4
<1> QED BY <1>4, <1>5

(* A step that changes the copies of no other file and is not about f.     *)
Elsewhere(s, f) ==
  /\ Stand(proc[s], f) \in {"behind", "ahead"}
  /\ Stand(proc'[s], f) \in {"behind", Stand(proc[s], f)}
  /\ app'[f] = app[f] /\ bak'[f] = bak[f] /\ upd'[f] = upd[f]

LEMMA SeenElsewhere ==
  ASSUME NEW s \in Slots, NEW f \in Files, Elsewhere(s, f)
  PROVE  Seen(s, f)
  BY DEF Elsewhere, Seen, FileStep

LEMMA ReleaseIsWhole == \A r \in Release : r > 0 /\ r # Torn /\ r # Absent
  BY DEF Release, Torn, Absent

LEMMA SeenCopy ==
  ASSUME TypeInv, Quiet, NEW s \in Slots, NEW f \in Files, CopyFile(s)
  PROVE  Seen(s, f)
<1> USE DEF TypeInv, ProcType
<1>1. proc[s].at = "copyFile" /\ proc[s].role # "none" BY DEF CopyFile, At, Busy
<1>2. /\ proc[s].item \in Nat \ {0} /\ proc[s].item <= Len(Listed(s))
      /\ Listed(s) \in Seq(Files)
  BY <1>1, ProcFields DEF ItemOK, Listed
<1>3. proc[s].item \in DOMAIN Listed(s) /\ File(s) \in Files BY <1>2, AtAnItem
<1>4. f # File(s) => Stand(proc[s], f) \in {"behind", "ahead"}
  BY <1>1 DEF Stand, Handles, AtFile, File, Listed
<1>5. f = File(s) => Stand(proc[s], f) = "copyFile"
  BY <1>1 DEF Stand, Handles, AtFile, File, Listed
<1>6. CASE /\ upd[File(s)] = Torn /\ upd' = Filled(upd, File(s))
           /\ UNCHANGED <<app, bak>> /\ Next1(s, "download")
  <2>1. Moved(proc'[s], proc[s], "download", proc[s].item + 1, proc[s].UpdateData)
    BY <1>6, GoesOn DEF Place
  <2>2. CASE f # File(s)
    <3>1. \A i \in DOMAIN Listed(s) :
            i < proc[s].item + 1 => i < proc[s].item \/ Listed(s)[i] = File(s)
      BY <1>2, <1>3 DEF File
    <3>2. Stand(proc'[s], f) \in {"behind", Stand(proc[s], f)}
      BY <1>1, <1>3, <1>4, <2>1, <2>2, <3>1
      DEF Stand, Handles, Behind, AtFile, Moved, Listed, File
    <3>3. upd'[f] = upd[f] BY <1>3, <1>6, <2>2 DEF Filled, DiskType
    <3> QED BY <1>4, <1>6, <2>2, <3>2, <3>3, SeenElsewhere DEF Elsewhere
  <2>3. CASE f = File(s)
    <3>1. proc[s].item < proc[s].item + 1 BY <1>2
    <3>2. Stand(proc'[s], f) = "ahead"
      BY <1>1, <1>3, <2>1, <2>3, <3>1
      DEF Stand, Handles, Behind, AtFile, Moved, Listed, File
    <3>3. upd'[f] = shelf[f] /\ shelf[f] > 0
      BY <1>6, <2>3, ReleaseIsWhole DEF Filled, DiskType
    <3> QED BY <1>5, <1>6, <2>3, <3>2, <3>3 DEF Seen, FileStep
  <2> QED BY <2>2, <2>3
<1>7. CASE /\ upd[File(s)] # Torn \/ Torn \in {app[File(s)], bak[File(s)]}
           /\ app' = Filled(app, File(s)) /\ bak' = Filled(bak, File(s))
           /\ NotReady(s, "idle") /\ UNCHANGED upd
  <2>1. Moved(proc'[s], proc[s], "idle", proc[s].item, proc[s].UpdateData)
    BY <1>7, GivesUp DEF Place
  <2>2. Stand(proc'[s], f) = "behind"
    BY <2>1 DEF Stand, Handles, Behind, AtFile, Moved
  <2>3. CASE f # File(s)
    <3>1. app'[f] = app[f] /\ bak'[f] = bak[f]
      BY <1>3, <1>7, <2>3 DEF Filled, DiskType
    <3> QED BY <1>4, <1>7, <2>2, <2>3, <3>1, SeenElsewhere DEF Elsewhere
  <2>4. CASE f = File(s)
    <3>1. Mended(app[f], app'[f]) /\ Mended(bak[f], bak'[f])
      BY <1>7, <2>4, ReleaseIsWhole DEF Filled, DiskType, Mended
    <3> QED BY <1>5, <1>7, <2>2, <2>4, <3>1 DEF Seen, FileStep
  <2> QED BY <2>3, <2>4
<1> QED BY <1>6, <1>7, NoFailure DEF CopyFile

LEMMA SeenSpawn ==
  ASSUME Complete, TypeInv, Quiet, NEW s \in Slots, NEW f \in Files,
         MakeUpdater(s) \/ CopyUpdater(s) \/ Spawn(s)
  PROVE  Seen(s, f)
<1> USE DEF TypeInv, ProcType
<1>1. SameFiles /\ proc[s].role # "none"
  BY DEF MakeUpdater, CopyUpdater, Spawn, Downloaded, At, Busy, SameFiles
<1>2. Stand(proc[s], f) = "ahead"
  <2>1. CASE MakeUpdater(s)
    <3>1. proc[s].at = "download" /\ proc[s].item > Len(Listed(s))
      BY <2>1 DEF MakeUpdater, Downloaded, At
    <3>2. CASE proc[s].UpdateData \in Rules
      <4>1. Listed(s) \in Lists BY <3>2 DEF Rules, Listed
      <4>2. PICK i \in DOMAIN Listed(s) : Listed(s)[i] = f
        BY <4>1 DEF Complete, ToSet
      <4>3. i < proc[s].item
        BY <3>1, <4>2, ProcFields, Indices DEF Listed
      <4> QED BY <1>1, <3>1, <4>2, <4>3 DEF Stand, Handles, Behind, AtFile, Listed
    <3>3. CASE proc[s].UpdateData \notin Rules
      BY <1>1, <3>1, <3>3 DEF Stand, Handles, Behind, AtFile
    <3> QED BY <3>2, <3>3
  <2>2. CASE CopyUpdater(s) \/ Spawn(s)
    <3>1. proc[s].at \in {"copyUpdater", "spawn"} BY <2>2 DEF CopyUpdater, Spawn, At
    <3> QED BY <1>1, <3>1 DEF Stand, Handles, Behind, AtFile
  <2> QED BY <2>1, <2>2
<1>3. proc'[s].at \notin AtFile
  <2>1. ASSUME NEW where \in {"idle", "spawn", "copyUpdater"}, Go(s, where)
        PROVE  proc'[s].at \notin AtFile
    BY <2>1, Goes DEF Place, Moved, AtFile
  <2>2. ASSUME updater > 0, NEW found \in BOOLEAN,
               Become(s, Process("updater", updater, found))
        PROVE  proc'[s].at \notin AtFile
    <3>1. updater \in Release BY <2>2 DEF DiskType, Content, Absent, Torn
    <3>2. PICK p : p = Process("updater", updater, found) OBVIOUS
    <3>3. p \in Proc /\ p.at \in {"pending", "idle"}
      BY <3>1, <3>2, ProcessType DEF Role
    <3>4. proc'[s] = p BY <2>2, <3>2, <3>3, Becomes
    <3> QED BY <3>3, <3>4 DEF AtFile
  <2> QED BY <2>1, <2>2 DEF MakeUpdater, CopyUpdater, Spawn
<1>4. Stand(proc'[s], f) \in {"behind", "ahead"} BY <1>3 DEF Stand, Handles
<1> QED BY <1>1, <1>2, <1>4 DEF Seen, FileStep, SameFiles

(* An updater at an item of its list.                                      *)
LEMMA InstallerStands ==
  ASSUME TypeInv, NEW s \in Slots, NEW f \in Files, proc[s].role # "none",
         proc[s].at \in {"unbackup", "backup", "install"}
  PROVE  /\ File(s) \in Files
         /\ f = File(s) => Stand(proc[s], f) = proc[s].at
         /\ f # File(s) => Stand(proc[s], f) = "ahead"
<1>1. proc[s].item <= Len(Listed(s))
  BY DEF TypeInv, ProcType, ItemOK, Listed
<1>2. File(s) \in Files BY <1>1, AtAnItem
<1>3. /\ f = File(s) => Stand(proc[s], f) = proc[s].at
      /\ f # File(s) => Stand(proc[s], f) = "ahead"
  BY DEF Stand, Handles, Behind, AtFile, File, Listed
<1> QED BY <1>2, <1>3

(* Where an updater goes on.                                               *)
LEMMA GoesAhead ==
  ASSUME NEW s \in Slots, NEW f \in Files, NEW where, NEW item,
         Moved(proc'[s], proc[s], where, item, proc[s].UpdateData),
         where \in {"item", "modify", "save", "clean", "mark", "fetch", "idle"}
  PROVE  Stand(proc'[s], f) \in {"behind", "ahead"}
  BY DEF Stand, Handles, AtFile, Moved

LEMMA GoesToFile ==
  ASSUME NEW s \in Slots, NEW f \in Files, proc[s].role # "none",
         NEW where \in {"unbackup", "backup", "install"},
         Moved(proc'[s], proc[s], where, proc[s].item, proc[s].UpdateData)
  PROVE  /\ f = File(s) => Stand(proc'[s], f) = where
         /\ f # File(s) => Stand(proc'[s], f) = "ahead"
  BY DEF Stand, Handles, Behind, AtFile, Moved, File, Listed

LEMMA SeenNextItem ==
  ASSUME TypeInv, Quiet, NEW s \in Slots, NEW f \in Files, NextItem(s)
  PROVE  Seen(s, f)
<1> USE DEF TypeInv, ProcType
<1>1. SameFiles /\ proc[s].role # "none" /\ proc[s].at = "item"
  BY DEF NextItem, SameFiles, At, Busy
<1>2. Stand(proc[s], f) = "ahead"
  BY <1>1 DEF Stand, Handles, Behind, AtFile
<1>3. CASE Go(s, "modify") \/ Go(s, "fetch")
  <2>1. PICK where \in {"modify", "fetch"} : Go(s, where) BY <1>3
  <2>2. Moved(proc'[s], proc[s], where, proc[s].item, proc[s].UpdateData)
    BY <2>1, Goes DEF Place
  <2>3. Stand(proc'[s], f) \in {"behind", "ahead"} BY <2>2, GoesAhead
  <2> QED BY <1>1, <1>2, <2>3 DEF Seen, FileStep, SameFiles
<1>4. ASSUME NEW where \in {"unbackup", "backup", "install"}, Go(s, where),
             upd[File(s)] # Absent,
             IF app[File(s)] = Absent THEN where = "install"
             ELSE where = IF bak[File(s)] # Absent THEN "unbackup" ELSE "backup"
      PROVE  Seen(s, f)
  <2>1. Moved(proc'[s], proc[s], where, proc[s].item, proc[s].UpdateData)
    BY <1>4, Goes DEF Place
  <2>2. CASE f = File(s)
    <3>1. Stand(proc'[s], f) = where BY <1>1, <2>1, <2>2, GoesToFile
    <3> QED BY <1>1, <1>2, <1>4, <2>2, <3>1 DEF Seen, FileStep, SameFiles
  <2>3. CASE f # File(s)
    <3>1. Stand(proc'[s], f) = "ahead" BY <1>1, <2>1, <2>3, GoesToFile
    <3> QED BY <1>1, <1>2, <3>1 DEF Seen, FileStep, SameFiles
  <2> QED BY <2>2, <2>3
<1>5. \/ Go(s, "modify") \/ Go(s, "fetch")
      \/ \E where \in {"unbackup", "backup", "install"} :
           /\ Go(s, where) /\ upd[File(s)] # Absent
           /\ IF app[File(s)] = Absent THEN where = "install"
              ELSE where = IF bak[File(s)] # Absent THEN "unbackup" ELSE "backup"
  BY DEF NextItem
<1> QED BY <1>3, <1>4, <1>5

LEMMA SeenUnbackup ==
  ASSUME TypeInv, Quiet, NEW s \in Slots, NEW f \in Files, Unbackup(s)
  PROVE  Seen(s, f)
<1> USE DEF TypeInv, ProcType
<1>1. /\ proc[s].role # "none" /\ proc[s].at = "unbackup" /\ UNCHANGED <<app, upd>>
      /\ bak' = [bak EXCEPT ![File(s)] = Absent] /\ Go(s, "backup")
  BY NoFailure DEF Unbackup, At, Busy
<1>2. Moved(proc'[s], proc[s], "backup", proc[s].item, proc[s].UpdateData)
  BY <1>1, Goes DEF Place
<1>3. CASE f = File(s)
  <2>1. Stand(proc[s], f) = "unbackup" /\ Stand(proc'[s], f) = "backup"
    BY <1>1, <1>2, <1>3, InstallerStands, GoesToFile
  <2>2. bak'[f] = Absent BY <1>1, <1>3 DEF DiskType
  <2> QED BY <1>1, <2>1, <2>2 DEF Seen, FileStep
<1>4. CASE f # File(s)
  <2>1. Stand(proc[s], f) = "ahead" /\ Stand(proc'[s], f) = "ahead"
    BY <1>1, <1>2, <1>4, InstallerStands, GoesToFile
  <2>2. bak'[f] = bak[f] BY <1>1, <1>4 DEF DiskType
  <2> QED BY <1>1, <2>1, <2>2 DEF Seen, FileStep
<1> QED BY <1>3, <1>4

LEMMA SeenBackup ==
  ASSUME TypeInv, Quiet, NEW s \in Slots, NEW f \in Files, Backup(s)
  PROVE  Seen(s, f)
<1> USE DEF TypeInv, ProcType
<1>1. proc[s].role # "none" /\ proc[s].at = "backup" /\ UNCHANGED upd
  BY DEF Backup, At, Busy
<1>2. File(s) \in Files BY <1>1, InstallerStands
<1>3. CASE /\ app[File(s)] # Absent /\ bak' = [bak EXCEPT ![File(s)] = app[File(s)]]
           /\ app' = [app EXCEPT ![File(s)] = Absent] /\ Go(s, "install")
  <2>1. Moved(proc'[s], proc[s], "install", proc[s].item, proc[s].UpdateData)
    BY <1>3, Goes DEF Place
  <2>2. CASE f = File(s)
    <3>1. Stand(proc[s], f) = "backup" /\ Stand(proc'[s], f) = "install"
      BY <1>1, <2>1, <2>2, InstallerStands, GoesToFile
    <3>2. app[f] # Absent /\ app'[f] = Absent /\ bak'[f] = app[f]
      BY <1>3, <2>2 DEF DiskType
    <3> QED BY <1>1, <3>1, <3>2 DEF Seen, FileStep
  <2>3. CASE f # File(s)
    <3>1. Stand(proc[s], f) = "ahead" /\ Stand(proc'[s], f) = "ahead"
      BY <1>1, <2>1, <2>3, InstallerStands, GoesToFile
    <3>2. app'[f] = app[f] /\ bak'[f] = bak[f] BY <1>3, <2>3 DEF DiskType
    <3> QED BY <1>1, <3>1, <3>2 DEF Seen, FileStep
  <2> QED BY <2>2, <2>3
<1>4. CASE app[File(s)] = Absent /\ UNCHANGED <<app, bak>> /\ NotReady(s, "fetch")
  <2>1. Moved(proc'[s], proc[s], "fetch", proc[s].item, proc[s].UpdateData)
    BY <1>4, GivesUp DEF Place
  <2>2. Stand(proc'[s], f) = "behind"
    BY <2>1 DEF Stand, Handles, Behind, AtFile, Moved
  <2>3. f = File(s) => Stand(proc[s], f) = "backup"
    BY <1>1, InstallerStands
  <2>4. f # File(s) => Stand(proc[s], f) = "ahead"
    BY <1>1, InstallerStands
  <2> QED BY <1>1, <1>4, <2>2, <2>3, <2>4 DEF Seen, FileStep
<1> QED BY <1>3, <1>4, NoFailure DEF Backup

LEMMA SeenInstall ==
  ASSUME TypeInv, Quiet, NEW s \in Slots, NEW f \in Files, Install(s)
  PROVE  Seen(s, f)
<1> USE DEF TypeInv, ProcType
<1>1. proc[s].role # "none" /\ proc[s].at = "install" /\ UNCHANGED bak
  BY DEF Install, At, Busy
<1>2. File(s) \in Files BY <1>1, InstallerStands
<1>3. CASE /\ upd[File(s)] # Absent /\ app' = [app EXCEPT ![File(s)] = upd[File(s)]]
           /\ upd' = [upd EXCEPT ![File(s)] = Absent] /\ Next1(s, "item")
  <2>1. Moved(proc'[s], proc[s], "item", proc[s].item + 1, proc[s].UpdateData)
    BY <1>3, GoesOn DEF Place
  <2>2. Stand(proc'[s], f) = "ahead"
    BY <1>1, <2>1 DEF Stand, Handles, Behind, AtFile, Moved
  <2>3. CASE f = File(s)
    <3>1. Stand(proc[s], f) = "install" BY <1>1, <2>3, InstallerStands
    <3>2. upd[f] # Absent /\ app'[f] = upd[f] /\ upd'[f] = Absent
      BY <1>3, <2>3 DEF DiskType
    <3> QED BY <1>1, <2>2, <3>1, <3>2 DEF Seen, FileStep
  <2>4. CASE f # File(s)
    <3>1. Stand(proc[s], f) = "ahead" BY <1>1, <2>4, InstallerStands
    <3>2. app'[f] = app[f] /\ upd'[f] = upd[f] BY <1>3, <2>4 DEF DiskType
    <3> QED BY <1>1, <2>2, <3>1, <3>2 DEF Seen, FileStep
  <2> QED BY <2>3, <2>4
<1>4. CASE upd[File(s)] = Absent /\ UNCHANGED <<app, upd>> /\ NotReady(s, "fetch")
  <2>1. Moved(proc'[s], proc[s], "fetch", proc[s].item, proc[s].UpdateData)
    BY <1>4, GivesUp DEF Place
  <2>2. Stand(proc'[s], f) = "behind"
    BY <2>1 DEF Stand, Handles, Behind, AtFile, Moved
  <2>3. f = File(s) => Stand(proc[s], f) = "install"
    BY <1>1, InstallerStands
  <2>4. f # File(s) => Stand(proc[s], f) = "ahead"
    BY <1>1, InstallerStands
  <2> QED BY <1>1, <1>4, <2>2, <2>3, <2>4 DEF Seen, FileStep
<1> QED BY <1>3, <1>4, NoFailure DEF Install

LEMMA SeenFinish ==
  ASSUME TypeInv, Quiet, NEW s \in Slots, NEW f \in Files,
         Modify(s) \/ Save(s) \/ Clean(s) \/ Mark(s)
  PROVE  Seen(s, f)
<1> USE DEF TypeInv, ProcType
<1>1. /\ proc[s].role # "none" /\ proc[s].at \in {"modify", "save", "clean", "mark"}
      /\ UNCHANGED <<app, bak>>
  BY DEF Modify, Save, Clean, Mark, At, Busy
<1>2. PICK where \in {"save", "clean", "fetch", "mark", "runMain"} :
        /\ Go(s, where)
        /\ \/ where # "runMain" /\ UNCHANGED upd /\ proc[s].at \in {"modify", "save"}
           \/ where = "runMain" /\ UNCHANGED upd /\ proc[s].at = "mark"
           \/ where = "mark" /\ upd' = Nowhere /\ proc[s].at = "clean"
  BY DEF Modify, Save, Clean, Mark, At
<1>3. Moved(proc'[s], proc[s], where, proc[s].item, proc[s].UpdateData)
  BY <1>2, Goes DEF Place
<1>4. CASE where # "runMain" /\ UNCHANGED upd /\ proc[s].at \in {"modify", "save"}
  <2>1. /\ Stand(proc[s], f) = "ahead"
        /\ Stand(proc'[s], f) \in {"behind", "ahead"}
    BY <1>1, <1>2, <1>3, <1>4 DEF Stand, Handles, Behind, AtFile, Moved
  <2> QED BY <1>1, <1>4, <2>1 DEF Seen, FileStep
<1>5. CASE where = "runMain" /\ UNCHANGED upd /\ proc[s].at = "mark"
  <2>1. Stand(proc[s], f) = "behind" /\ Stand(proc'[s], f) = "behind"
    BY <1>1, <1>3, <1>5 DEF Stand, Handles, Behind, AtFile, Moved
  <2> QED BY <1>1, <1>5, <2>1 DEF Seen, FileStep
<1>6. CASE where = "mark" /\ upd' = Nowhere /\ proc[s].at = "clean"
  <2>1. Stand(proc[s], f) = "ahead" /\ Stand(proc'[s], f) = "behind"
    BY <1>1, <1>3, <1>6 DEF Stand, Handles, Behind, AtFile, Moved
  <2>2. upd'[f] = Absent BY <1>6 DEF Nowhere
  <2> QED BY <1>1, <2>1, <2>2 DEF Seen, FileStep
<1> QED BY <1>2, <1>4, <1>5, <1>6

(* A program that starts or ends has everything before it.                 *)
LEMMA SeenStartOrEnd ==
  ASSUME TypeInv, Quiet, NEW s \in Slots, NEW f \in Files,
         RunMain(s) \/ Launch(s) \/ Quit(s) \/ Crash(s)
  PROVE  Seen(s, f)
<1> USE DEF TypeInv, ProcType
<1>1. SameFiles BY DEF RunMain, Launch, Quit, Crash, SameFiles
<1>2. Stand(proc[s], f) = "behind"
  BY NoFailure DEF RunMain, Launch, Quit, Crash, At, Busy, Stand, Handles, Behind, AtFile
<1>3. CASE Become(s, None)
  <2>1. proc'[s] = None BY <1>3, NoneType, Becomes
  <2>2. Stand(proc'[s], f) = "behind"
    BY <2>1 DEF None, Stand, Handles, Behind, AtFile
  <2> QED BY <1>1, <1>2, <2>2 DEF Seen, FileStep, SameFiles
<1>4. CASE /\ app["exe"] > 0
           /\ \E found \in BOOLEAN : Become(s, Process("main", app["exe"], found))
  <2>1. app["exe"] \in Release
    BY <1>4 DEF DiskType, Content, Absent, Torn, Files
  <2>2. PICK found \in BOOLEAN : Become(s, Process("main", app["exe"], found))
    BY <1>4
  <2>3. PICK p : p = Process("main", app["exe"], found) OBVIOUS
  <2>4. p \in Proc /\ p.role = "main" /\ p.at \in {"pending", "idle"}
    BY <2>1, <2>3, ProcessType DEF Role
  <2>5. proc'[s] = p BY <2>2, <2>3, <2>4, Becomes
  <2>6. Stand(proc'[s], f) = "behind"
    BY <2>4, <2>5 DEF Stand, Handles, Behind, AtFile
  <2> QED BY <1>1, <1>2, <2>6 DEF Seen, FileStep, SameFiles
<1> QED BY <1>3, <1>4 DEF RunMain, Launch, Quit, Crash

LEMMA SeenStep ==
  ASSUME Complete, TypeInv, Quiet, NEW s \in Slots, NEW f \in Files,
         Step(s) \/ Launch(s) \/ Quit(s) \/ Crash(s)
  PROVE  Seen(s, f)
<1>1. CASE CheckPendings(s) BY <1>1, SeenPending
<1>2. CASE DoUpgrade(s)
  BY <1>2, SeenFetch, SeenBegin, SeenCopy, SeenSpawn DEF DoUpgrade
<1>3. CASE ApplyUpdate(s) \/ Mark(s)
  BY <1>3, SeenNextItem, SeenUnbackup, SeenBackup, SeenInstall, SeenFinish
  DEF ApplyUpdate
<1>4. CASE RunMain(s) \/ Launch(s) \/ Quit(s) \/ Crash(s) BY <1>4, SeenStartOrEnd
<1> QED BY <1>1, <1>2, <1>3, <1>4 DEF Step

(* What went wrong once counts for ever.                                   *)
LEMMA QuietBefore ==
  ASSUME TypeInv, [Next]_vars, troubles' = 0
  PROVE  troubles = 0
<1>1. troubles \in Nat BY BoundsAssumption DEF TypeInv, DiskType
<1>2. UNCHANGED troubles \/ troubles' = troubles + 1
  <2>1. ASSUME NEW s \in Slots, Step(s) PROVE NoTrouble \/ Trouble
    <3>1. CASE CheckPendings(s)
      BY <3>1, Zenon DEF CheckPendings, PendingMarked, PendingBroken, DropUpdater,
         DropMark, PendingNone, PendingUpdater
    <3>2. CASE DoUpgrade(s)
      BY <3>2, Zenon DEF DoUpgrade, FetchInfo, CopyInfo, ParseInfo, BeginDownload,
         CopyFile, MakeUpdater, CopyUpdater, Spawn
    <3>3. CASE ApplyUpdate(s)
      BY <3>3, Zenon DEF ApplyUpdate, NextItem, Unbackup, Backup, Install, Modify,
         Save, Clean
    <3>4. CASE Mark(s) \/ RunMain(s) BY <3>4, Zenon DEF Mark, RunMain
    <3> QED BY <2>1, <3>1, <3>2, <3>3, <3>4 DEF Step
  <2>2. ASSUME NEW s \in Slots, Launch(s)
        PROVE  UNCHANGED troubles \/ troubles' = troubles + 1
    BY <2>2, Zenon DEF Launch
  <2> QED BY <2>1, <2>2 DEF Next, Quit, Crash, Publish, vars, NoTrouble, Trouble
<1> QED BY <1>1, <1>2

BothInv(one, two) ==
  troubles = 0 =>
    \A f \in Files :
      PairInv(Stand(proc[one], f), Stand(proc[two], f), app[f], bak[f], upd[f])

LEMMA PairTurns ==
  ASSUME NEW k, NEW m, NEW a, NEW b, NEW u, PairInv(k, m, a, b, u)
  PROVE  PairInv(m, k, a, b, u)
  BY DEF PairInv, TornInv

LEMMA BothStep ==
  ASSUME Complete, NEW one, NEW two, one # two, Slots = {one, two},
         TypeInv, TypeInv', BothInv(one, two), [Next]_vars
  PROVE  BothInv(one, two)'
<1> SUFFICES ASSUME troubles' = 0, NEW f \in Files
             PROVE  PairInv(Stand(proc[one], f), Stand(proc[two], f),
                            app[f], bak[f], upd[f])'
  BY DEF BothInv
<1>1. Quiet BY QuietBefore DEF Quiet
<1>2. PairInv(Stand(proc[one], f), Stand(proc[two], f), app[f], bak[f], upd[f])
  BY <1>1 DEF Quiet, BothInv
<1>3. ASSUME NEW s \in Slots, NEW t \in Slots, s # t,
             Step(s) \/ Launch(s) \/ Quit(s) \/ Crash(s),
             PairInv(Stand(proc[s], f), Stand(proc[t], f), app[f], bak[f], upd[f])
      PROVE  PairInv(Stand(proc'[s], f), Stand(proc'[t], f), app'[f], bak'[f], upd'[f])
  <2>1. Seen(s, f) BY <1>1, <1>3, SeenStep
  <2>2. proc'[t] = proc[t] BY <1>3, OthersStay DEF TypeInv, ProcType, Others
  <2>3. /\ app[f] \in Content /\ bak[f] \in Content /\ upd[f] \in Content
        /\ app'[f] \in Content /\ bak'[f] \in Content /\ upd'[f] \in Content
    BY DEF TypeInv, DiskType
  <2>4. \A c \in Content : c \in Int /\ c >= -1
    BY DEF Content, Release, Torn, Absent
  <2>5. {app[f], bak[f], upd[f], app'[f], bak'[f], upd'[f]} \subseteq {i \in Int : i >= -1}
    BY <2>3, <2>4
  <2>6. /\ Stand(proc[s], f) \in Stands /\ Stand(proc[t], f) \in Stands
        /\ Stand(proc'[s], f) \in Stands
    BY StandOf
  <2>7. PairInv(Stand(proc'[s], f), Stand(proc[t], f), app'[f], bak'[f], upd'[f])
    BY <1>3, <2>1, <2>3, <2>4, <2>5, <2>6, PairStep DEF Seen
  <2> QED BY <2>2, <2>7
<1>4. CASE \E s \in Slots : Step(s) \/ Launch(s) \/ Quit(s) \/ Crash(s)
  <2>1. PICK s \in Slots : Step(s) \/ Launch(s) \/ Quit(s) \/ Crash(s) BY <1>4
  <2>2. CASE s = one BY <1>2, <1>3, <2>1, <2>2
  <2>3. CASE s = two
    <3>1. PairInv(Stand(proc'[two], f), Stand(proc'[one], f), app'[f], bak'[f], upd'[f])
      BY <1>2, <1>3, <2>1, <2>3, PairTurns
    <3> QED BY <3>1, PairTurns
  <2> QED BY <2>1, <2>2, <2>3
<1>5. CASE Publish \/ UNCHANGED vars
  <2>1. UNCHANGED <<app, bak, upd, proc>> BY <1>5 DEF Publish, vars
  <2> QED BY <1>2, <2>1
<1> QED BY <1>4, <1>5 DEF Next

LEMMA BothInit ==
  ASSUME Init, NEW one \in Slots, NEW two \in Slots
  PROVE  BothInv(one, two)
<1>1. /\ app = [f \in Files |-> 1] /\ bak = [f \in Files |-> Absent]
      /\ upd = [f \in Files |-> Absent]
  BY DEF Init, Nowhere
<1>2. proc[one] = None /\ proc[two] = None BY DEF Init
<1>3. \A f \in Files : Stand(None, f) = "behind"
  BY DEF None, Stand, Handles, Behind, AtFile
<1>4. PairInv("behind", "behind", 1, Absent, Absent)
  BY DEF PairInv, OneSide, TornInv, Absent, Torn
<1> QED BY <1>1, <1>2, <1>3, <1>4 DEF BothInv

(* Each file of the program stays in one piece in its place, in Backup or  *)
(* in Update: whatever fails or dies as long as no two processes meet, and *)
(* when two work at the same time as long as nothing fails.  Without       *)
(* Complete a second process could finish another update, and clean Update,*)
(* while the first still needs the file that waits there.                  *)
THEOREM NothingIsLost ==
  ASSUME Ordered, Complete, NEW one, NEW two, one # two, Slots = {one, two}
  PROVE  Spec => []NothingLost
<1>1. Bringing BY DEF Bringing, Complete, Files
<1>2. Init => BothInv(one, two) BY BothInit
<1>3. TypeInv /\ TypeInv' /\ BothInv(one, two) /\ [Next]_vars => BothInv(one, two)'
  BY BothStep
<1>4. FileSurvives /\ TypeInv /\ BothInv(one, two) => NothingLost
  <2> SUFFICES ASSUME FileSurvives, TypeInv, BothInv(one, two),
                      troubles = 0 \/ ~shared, NEW f \in Files
               PROVE  app[f] > 0 \/ bak[f] > 0 \/ upd[f] > 0
    BY DEF NothingLost
  <2>1. CASE ~shared BY <2>1 DEF FileSurvives
  <2>2. CASE troubles = 0 BY <2>2 DEF BothInv, PairInv, Waits
  <2> QED BY <2>1, <2>2
<1>5. Spec => []FileSurvives BY <1>1, FilesSurvive
<1>6. Spec => []IInv BY <1>1, Invariant
<1>7. IInv => TypeInv BY DEF IInv
<1> QED BY <1>2, <1>3, <1>4, <1>5, <1>6, <1>7, PTL DEF Spec
=============================================================================
