------------------------------- MODULE DUpdate -------------------------------
(***************************************************************************)
(* The self-update of an installed program (lib/DUpdate.cpp).  The program *)
(* downloads the rules and the files of a newer release, copies itself to  *)
(* DuryUpdater and runs that copy; the same code, run under that name,     *)
(* puts the files in place and runs the program again.                     *)
(*                                                                         *)
(* A slot holds one process.  exit after ExecuteDetached lets the new      *)
(* process take over its parent's slot.  A file is the release its content *)
(* came with, Absent, or Torn while or after a write that did not end.     *)
(* "data" stands for the files of a release beside the executable, cfg for *)
(* the file the Modify section writes a value into.  The program's folder  *)
(* is its current path, the repository is a FOLDER, and its publisher puts *)
(* a whole release there at once.                                          *)
(***************************************************************************)
EXTENDS Integers, Sequences, SequencesExt

CONSTANTS
  Slots,        \* bound: processes alive at once
  Versions,     \* the version strings of the releases in order, as numbers
  Lists,        \* Replace sections a publisher may write
  Modifies,     \* Modify sections: "none", "set" or "bad" (refused)
  MaxInt,       \* the largest int
  MaxTroubles   \* bound: crashes and failed operations

ASSUME BoundsAssumption == MaxInt \in Nat /\ MaxTroubles \in Nat
ASSUME ReleaseAssumption == Versions \in Seq(Seq(Nat)) /\ Len(Versions) > 0
ASSUME RulesAssumption ==
  /\ Lists \subseteq Seq({"exe", "data"}) /\ Modifies \subseteq {"none", "set", "bad"}
  /\ Lists # {} /\ Modifies # {}

VARIABLES
  repo, shelf,         \* the rules and the files the repository holds
  app, bak, upd, cfg,  \* files of the program, of Backup and of Update; cfg
  info,                \* Update/UpdateRules.json
  updater, justUpdate, \* the DuryUpdater executable; .justupdate exists
  proc,                \* the process of each slot
  troubles,            \* crashes and failures so far
  shared, amid         \* histories: two processes were alive at once; a
                       \* release was published while one was at work

remote == <<repo, shelf>>
marks == <<updater, justUpdate>>
vars == <<remote, app, bak, upd, cfg, info, marks, proc, troubles, shared, amid>>

Files == {"exe", "data"}
Absent == 0
Torn == -1
Release == 1..Len(Versions)
Content == Release \union {Absent, Torn}
Nowhere == [f \in Files |-> Absent]

(* Rules that could not be read have the values of an empty tree; Unread   *)
(* is the null pointer.                                                    *)
Rules == [ver : Release, list : Lists, modify : Modifies]
NoRules == [ver |-> 0, list |-> <<>>, modify |-> "none"]
Unread == [NoRules EXCEPT !.ver = -1]

Append10(n, part) ==
  n * (CHOOSE p \in {10, 100, 1000} : part < p /\ (p = 10 \/ part >= p \div 10)) + part

(* The digits of a version string read as one number; 0 when no int holds  *)
(* it.                                                                     *)
Number(v) ==
  LET n == IF v \notin Release THEN 0 ELSE FoldLeft(Append10, 0, Versions[v])
  IN IF n > MaxInt THEN 0 ELSE n

None == [role |-> "none", at |-> "idle", ver |-> 0, Ready |-> FALSE,
         UpdateData |-> Unread, item |-> 1]

(* A new process: Init finds the repository, or DoUpgrade is not called.   *)
Process(role, ver, found) ==
  [None EXCEPT !.role = role, !.at = IF found THEN "pending" ELSE "idle",
               !.ver = ver, !.Ready = found]

Busy(s) == proc[s].role # "none" /\ proc[s].at # "idle"
At(s, where) == Busy(s) /\ proc[s].at = where
As(s, role) == proc[s].role = role
Listed(s) == proc[s].UpdateData.list
File(s) == Listed(s)[proc[s].item]
Go(s, where) == proc' = [proc EXCEPT ![s].at = where]
Next1(s, where) == proc' = [proc EXCEPT ![s].at = where, ![s].item = @ + 1]
NotReady(s, where) == proc' = [proc EXCEPT ![s].at = where, ![s].Ready = FALSE]
Become(s, p) == proc' = [proc EXCEPT ![s] = p]

NoTrouble == UNCHANGED <<troubles, shared, amid>>
Trouble == troubles < MaxTroubles /\ troubles' = troubles + 1 /\ UNCHANGED <<shared, amid>>

Init ==
  /\ repo = [ver |-> 1, list |-> CHOOSE l \in Lists : TRUE,
             modify |-> CHOOSE m \in Modifies : TRUE]  \* nobody needs these
  /\ shelf = [f \in Files |-> 1]
  /\ app = [f \in Files |-> 1] /\ bak = Nowhere /\ upd = Nowhere /\ cfg = 1
  /\ info = NoRules /\ updater = Absent /\ justUpdate = FALSE
  /\ proc = [s \in Slots |-> None]
  /\ troubles = 0 /\ shared = FALSE /\ amid = FALSE

-----------------------------------------------------------------------------
(* Fault: .justupdate stays.                                               *)
PendingMarked_Keeps(s) ==
  /\ At(s, "pending") /\ As(s, "main") /\ justUpdate
  /\ NotReady(s, "dropUpdater") /\ NoTrouble
  /\ UNCHANGED <<remote, app, bak, upd, cfg, info, marks>>

(* CheckPendings of the program: marks of an update are removed, and the   *)
(* run checks for no other.                                                *)
PendingMarked(s) ==
  /\ At(s, "pending") /\ As(s, "main") /\ justUpdate
  /\ NotReady(s, "dropUpdater")
  /\ \/ justUpdate' = FALSE /\ NoTrouble
     \/ UNCHANGED justUpdate /\ Trouble
  /\ UNCHANGED <<remote, app, bak, upd, cfg, info, updater>>

PendingBroken(s) ==
  /\ At(s, "pending") /\ As(s, "main") /\ ~justUpdate /\ updater # Absent
  /\ NotReady(s, "dropMark")
  /\ \/ updater' = Absent /\ NoTrouble
     \/ UNCHANGED updater /\ Trouble
  /\ UNCHANGED <<remote, app, bak, upd, cfg, info, justUpdate>>

DropUpdater(s) ==
  /\ At(s, "dropUpdater") /\ Go(s, "fetch")
  /\ \/ updater' = Absent /\ NoTrouble
     \/ UNCHANGED updater /\ Trouble
  /\ UNCHANGED <<remote, app, bak, upd, cfg, info, justUpdate>>

DropMark(s) ==
  /\ At(s, "dropMark") /\ Go(s, "fetch")
  /\ \/ justUpdate' = FALSE /\ NoTrouble
     \/ UNCHANGED justUpdate /\ Trouble
  /\ UNCHANGED <<remote, app, bak, upd, cfg, info, updater>>

PendingNone(s) ==
  /\ At(s, "pending") /\ As(s, "main") /\ ~justUpdate /\ updater = Absent
  /\ Go(s, "fetch") /\ NoTrouble
  /\ UNCHANGED <<remote, app, bak, upd, cfg, info, marks>>

(* CheckPendings of the updater: the rules are read, whatever they say.    *)
PendingUpdater(s) ==
  /\ At(s, "pending") /\ As(s, "updater")
  /\ proc' = [proc EXCEPT ![s].at = "item", ![s].UpdateData = info]
  /\ NoTrouble /\ UNCHANGED <<remote, app, bak, upd, cfg, info, marks>>

CheckPendings(s) ==
  \/ PendingMarked(s) \/ PendingBroken(s) \/ DropUpdater(s) \/ DropMark(s)
  \/ PendingNone(s) \/ PendingUpdater(s)

-----------------------------------------------------------------------------
(* DownloadRemoteInfoFile: the old rules are removed, the new ones copied. *)
FetchInfo(s) ==
  /\ At(s, "fetch") /\ NoTrouble
  /\ IF proc[s].Ready THEN info' = NoRules /\ Go(s, "copyInfo")
                      ELSE UNCHANGED info /\ Go(s, "idle")
  /\ UNCHANGED <<remote, app, bak, upd, cfg, marks>>

CopyInfo(s) ==
  /\ At(s, "copyInfo")
  /\ \/ info' = repo /\ Go(s, "parse") /\ NoTrouble
     \/ UNCHANGED info /\ NotReady(s, "idle") /\ Trouble
  /\ UNCHANGED <<remote, app, bak, upd, cfg, marks>>

(* ParseLocalRepoInfoFile keeps rules it has read before.                  *)
Parsed(s) == IF proc[s].UpdateData = Unread THEN info ELSE proc[s].UpdateData

(* Fault: rules of any version are an update.                              *)
UpdateNeeded_Always(s) == Parsed(s) # NoRules

UpdateNeeded(s) == Parsed(s) # NoRules /\ Number(Parsed(s).ver) > Number(proc[s].ver)

ParseInfo(s) ==
  /\ At(s, "parse") /\ NoTrouble
  /\ proc' = [proc EXCEPT ![s].at = IF UpdateNeeded(s) THEN "download" ELSE "idle",
                          ![s].UpdateData = Parsed(s), ![s].item = 1]
  /\ UNCHANGED <<remote, app, bak, upd, cfg, info, marks>>

(* Fault: files left over from an earlier try are taken for the new ones.  *)
BeginDownload_Keeps(s) ==
  /\ At(s, "download") /\ proc[s].item <= Len(Listed(s)) /\ NoTrouble
  /\ IF upd[File(s)] # Absent
     THEN Next1(s, "download") /\ UNCHANGED upd
     ELSE upd' = [upd EXCEPT ![File(s)] = Torn] /\ Go(s, "copyFile")
  /\ UNCHANGED <<remote, app, bak, cfg, info, marks>>

(* DownloadFiles: no file is overwritten; one that is there is an error.   *)
BeginDownload(s) ==
  /\ At(s, "download") /\ proc[s].item <= Len(Listed(s)) /\ NoTrouble
  /\ IF upd[File(s)] # Absent
     THEN NotReady(s, "idle") /\ UNCHANGED upd
     ELSE upd' = [upd EXCEPT ![File(s)] = Torn] /\ Go(s, "copyFile")
  /\ UNCHANGED <<remote, app, bak, cfg, info, marks>>

Filled(files, f) == [files EXCEPT ![f] = IF @ = Torn THEN shelf[f] ELSE @]

(* A torn copy elsewhere may be the one this process was writing.          *)
CopyFile(s) ==
  /\ At(s, "copyFile")
  /\ \/ /\ upd[File(s)] = Torn /\ NoTrouble
        /\ upd' = Filled(upd, File(s)) /\ UNCHANGED <<app, bak>>
        /\ Next1(s, "download")
     \/ /\ upd[File(s)] # Torn \/ Torn \in {app[File(s)], bak[File(s)]}
        /\ NoTrouble  \* an updater took or cleaned it
        /\ app' = Filled(app, File(s)) /\ bak' = Filled(bak, File(s))
        /\ NotReady(s, "idle") /\ UNCHANGED upd
     \/ Trouble /\ NotReady(s, "idle") /\ UNCHANGED <<app, bak, upd>>
  /\ UNCHANGED <<remote, cfg, info, marks>>

Downloaded(s) == At(s, "download") /\ proc[s].item > Len(Listed(s))
WithExe(s) == "exe" \in ToSet(Listed(s))

(* DoUpgrade's end: the updater is made of the new executable, or of this  *)
(* one; an updater does not copy itself onto itself.  No error stops it    *)
(* before it runs the updater.                                             *)
MakeUpdater(s) ==
  /\ Downloaded(s) /\ NoTrouble
  /\ \/ /\ WithExe(s) /\ upd["exe"] = Absent /\ Go(s, "idle") /\ UNCHANGED updater
     \/ /\ ~WithExe(s) /\ As(s, "updater") /\ Go(s, "spawn") /\ UNCHANGED updater
     \/ /\ IF WithExe(s) THEN upd["exe"] # Absent ELSE As(s, "main")
        /\ updater' = Torn /\ Go(s, "copyUpdater")
  /\ UNCHANGED <<remote, app, bak, upd, cfg, info, justUpdate>>

CopyUpdater(s) ==
  /\ At(s, "copyUpdater") /\ Go(s, "spawn")
  /\ \/ /\ updater # Absent /\ NoTrouble
        /\ updater' = IF ~WithExe(s) THEN proc[s].ver
                      ELSE IF upd["exe"] # Absent THEN upd["exe"] ELSE Torn
     \/ ((updater = Absent /\ NoTrouble) \/ Trouble) /\ UNCHANGED updater
  /\ UNCHANGED <<remote, app, bak, upd, cfg, info, justUpdate>>

Spawn(s) ==
  /\ At(s, "spawn")
  /\ \/ updater > 0 /\ Become(s, Process("updater", updater, TRUE)) /\ NoTrouble
     \/ updater > 0 /\ Become(s, Process("updater", updater, FALSE)) /\ Trouble
     \/ updater > 0 /\ Go(s, "idle") /\ Trouble
     \/ updater <= 0 /\ Go(s, "idle") /\ NoTrouble
  /\ UNCHANGED <<remote, app, bak, upd, cfg, info, marks>>

DoUpgrade(s) ==
  \/ FetchInfo(s) \/ CopyInfo(s) \/ ParseInfo(s) \/ BeginDownload(s) \/ CopyFile(s)
  \/ MakeUpdater(s) \/ CopyUpdater(s) \/ Spawn(s)

-----------------------------------------------------------------------------
(* Fault: the last file is left out.                                       *)
NextItem_Misses(s) ==
  /\ At(s, "item") /\ NoTrouble
  /\ IF proc[s].item >= Len(Listed(s)) THEN Go(s, "modify")
     ELSE IF upd[File(s)] = Absent THEN Go(s, "fetch")
     ELSE IF app[File(s)] = Absent THEN Go(s, "install")
     ELSE Go(s, IF bak[File(s)] # Absent THEN "unbackup" ELSE "backup")
  /\ UNCHANGED <<remote, app, bak, upd, cfg, info, marks>>

(* ApplyUpdate returns false: the updater goes on with DoUpgrade, to which *)
(* Ready tells whether the repository may still be asked.                  *)
NextItem(s) ==
  /\ At(s, "item") /\ NoTrouble
  /\ IF proc[s].item > Len(Listed(s)) THEN Go(s, "modify")
     ELSE IF upd[File(s)] = Absent THEN Go(s, "fetch")
     ELSE IF app[File(s)] = Absent THEN Go(s, "install")
     ELSE Go(s, IF bak[File(s)] # Absent THEN "unbackup" ELSE "backup")
  /\ UNCHANGED <<remote, app, bak, upd, cfg, info, marks>>

Unbackup(s) ==
  /\ At(s, "unbackup")
  /\ \/ bak' = [bak EXCEPT ![File(s)] = Absent] /\ Go(s, "backup") /\ NoTrouble
     \/ UNCHANGED bak /\ NotReady(s, "fetch") /\ Trouble
  /\ UNCHANGED <<remote, app, upd, cfg, info, marks>>

(* Fault: the old file is removed, not moved to Backup.                    *)
Backup_Removes(s) ==
  /\ At(s, "backup") /\ NoTrouble /\ UNCHANGED bak
  /\ app' = [app EXCEPT ![File(s)] = Absent] /\ Go(s, "install")
  /\ UNCHANGED <<remote, upd, cfg, info, marks>>

Backup(s) ==
  /\ At(s, "backup")
  /\ \/ /\ app[File(s)] # Absent /\ NoTrouble
        /\ bak' = [bak EXCEPT ![File(s)] = app[File(s)]]
        /\ app' = [app EXCEPT ![File(s)] = Absent]
        /\ Go(s, "install")
     \/ /\ (app[File(s)] = Absent /\ NoTrouble) \/ Trouble
        /\ UNCHANGED <<app, bak>> /\ NotReady(s, "fetch")
  /\ UNCHANGED <<remote, upd, cfg, info, marks>>

(* Fault: a file that cannot be installed is passed over.                  *)
Install_Skips(s) ==
  /\ At(s, "install") /\ Next1(s, "item")
  /\ \/ /\ upd[File(s)] # Absent /\ NoTrouble
        /\ app' = [app EXCEPT ![File(s)] = upd[File(s)]]
        /\ upd' = [upd EXCEPT ![File(s)] = Absent]
     \/ Trouble /\ UNCHANGED <<app, upd>>
  /\ UNCHANGED <<remote, bak, cfg, info, marks>>

Install(s) ==
  /\ At(s, "install")
  /\ \/ /\ upd[File(s)] # Absent /\ NoTrouble
        /\ app' = [app EXCEPT ![File(s)] = upd[File(s)]]
        /\ upd' = [upd EXCEPT ![File(s)] = Absent]
        /\ Next1(s, "item")
     \/ /\ (upd[File(s)] = Absent /\ NoTrouble) \/ Trouble
        /\ UNCHANGED <<app, upd>> /\ NotReady(s, "fetch")
  /\ UNCHANGED <<remote, bak, cfg, info, marks>>

(* The Modify section: cfg is read and written anew in place.              *)
Modify(s) ==
  LET what == proc[s].UpdateData.modify IN
  /\ At(s, "modify") /\ NoTrouble
  /\ IF what = "set" /\ cfg # Torn THEN cfg' = Torn /\ Go(s, "save")
     ELSE UNCHANGED cfg /\ Go(s, IF what = "none" THEN "clean" ELSE "fetch")
  /\ UNCHANGED <<remote, app, bak, upd, info, marks>>

Save(s) ==
  /\ At(s, "save")
  /\ \/ cfg' = proc[s].UpdateData.ver /\ Go(s, "clean") /\ NoTrouble
     \/ UNCHANGED cfg /\ Go(s, "fetch") /\ Trouble
  /\ UNCHANGED <<remote, app, bak, upd, info, marks>>

Clean(s) ==
  /\ At(s, "clean") /\ Go(s, "mark") /\ NoTrouble
  /\ upd' = Nowhere /\ info' = NoRules
  /\ UNCHANGED <<remote, app, bak, cfg, marks>>

ApplyUpdate(s) ==
  \/ NextItem(s) \/ Unbackup(s) \/ Backup(s) \/ Install(s)
  \/ Modify(s) \/ Save(s) \/ Clean(s)

(* CheckPendings of the updater goes on after a successful ApplyUpdate.    *)
Mark(s) ==
  /\ At(s, "mark") /\ Go(s, "runMain")
  /\ \/ justUpdate' = TRUE /\ NoTrouble
     \/ UNCHANGED justUpdate /\ Trouble
  /\ UNCHANGED <<remote, app, bak, upd, cfg, info, updater>>

RunMain(s) ==
  /\ At(s, "runMain")
  /\ \/ /\ proc[s].UpdateData # NoRules /\ app["exe"] > 0
        /\ \/ Become(s, Process("main", app["exe"], TRUE)) /\ NoTrouble
           \/ Become(s, Process("main", app["exe"], FALSE)) /\ Trouble
           \/ Become(s, None) /\ Trouble
     \/ /\ proc[s].UpdateData = NoRules \/ app["exe"] <= 0
        /\ Become(s, None) /\ NoTrouble
  /\ UNCHANGED <<remote, app, bak, upd, cfg, info, marks>>

Step(s) == CheckPendings(s) \/ DoUpgrade(s) \/ ApplyUpdate(s) \/ Mark(s) \/ RunMain(s)

-----------------------------------------------------------------------------
(* The user starts and ends the program; any process may die.              *)
Alone == \A s \in Slots : proc[s].role = "none"

Launch(s) ==
  /\ proc[s].role = "none" /\ app["exe"] > 0
  /\ shared' = (shared \/ ~Alone) /\ UNCHANGED amid
  /\ \/ Become(s, Process("main", app["exe"], TRUE)) /\ UNCHANGED troubles
     \/ /\ Become(s, Process("main", app["exe"], FALSE))
        /\ troubles < MaxTroubles /\ troubles' = troubles + 1
  /\ UNCHANGED <<remote, app, bak, upd, cfg, info, marks>>

Quit(s) ==
  /\ proc[s].role # "none" /\ ~Busy(s) /\ Become(s, None) /\ NoTrouble
  /\ UNCHANGED <<remote, app, bak, upd, cfg, info, marks>>

Crash(s) ==
  /\ Busy(s) /\ Become(s, None) /\ Trouble
  /\ UNCHANGED <<remote, app, bak, upd, cfg, info, marks>>

Publish ==
  /\ repo.ver < Len(Versions)
  /\ \E l \in Lists, m \in Modifies : repo' = [ver |-> repo.ver + 1, list |-> l, modify |-> m]
  /\ shelf' = [f \in Files |-> IF f \in ToSet(repo'.list) THEN repo'.ver ELSE shelf[f]]
  /\ amid' = (amid \/ \E s \in Slots : Busy(s))
  /\ UNCHANGED <<app, bak, upd, cfg, info, marks, proc, troubles, shared>>

Next ==
  \/ \E s \in Slots : Step(s) \/ Launch(s) \/ Quit(s) \/ Crash(s)
  \/ Publish

(* A process is scheduled, and the user starts the program again whenever  *)
(* it has ended.                                                           *)
Fairness ==
  /\ \A s \in Slots : WF_vars(Step(s)) /\ WF_vars(Quit(s))
  /\ WF_vars(Alone /\ \E s \in Slots : Launch(s))

Spec == Init /\ [][Next]_vars /\ Fairness

-----------------------------------------------------------------------------
Calm == troubles = 0 /\ ~shared /\ ~amid

(* Type invariant.                                                         *)
TypeOK ==
  /\ repo \in Rules /\ shelf \in [Files -> Release]
  /\ app \in [Files -> Content] /\ bak \in [Files -> Content]
  /\ upd \in [Files -> Content] /\ cfg \in Content
  /\ info \in Rules \union {NoRules}
  /\ updater \in Content /\ justUpdate \in BOOLEAN
  /\ DOMAIN proc = Slots
  /\ \A s \in Slots : /\ proc[s].ver \in Release \union {0}
                      /\ proc[s].UpdateData \in Rules \union {NoRules, Unread}
                      /\ proc[s].item \in 1..(Len(Listed(s)) + 1)
  /\ troubles \in 0..MaxTroubles /\ shared \in BOOLEAN /\ amid \in BOOLEAN

(* Each file of the program stays in one piece in its place, in Backup or  *)
(* in Update, whatever fails or dies, and also when two processes work at  *)
(* the same time, but not when both happen.                                *)
NothingLost ==
  troubles = 0 \/ ~shared => \A f \in Files : app[f] > 0 \/ bak[f] > 0 \/ upd[f] > 0

(* As long as no two processes meet, a file is put in place whole, and     *)
(* never older than the one it replaces.                                   *)
NeverOlder ==
  [][\A f \in Files : ~shared /\ app'[f] \notin {app[f], Absent} => app'[f] >= bak[f] /\ app'[f] > 0]_vars

(* As long as no two processes meet, .justupdate is created only once every *)
(* file the rules list is in place and no older than the one in Backup.    *)
MarkMeansDone ==
  [][justUpdate' /\ ~justUpdate /\ ~shared =>
       \E s \in Slots : /\ At(s, "mark")
                        /\ \A f \in ToSet(Listed(s)) : app[f] > 0 /\ app[f] >= bak[f]]_vars

(* While nothing goes wrong, all the files of the program are of one       *)
(* release whenever the program itself runs or nothing does.               *)
OneRelease ==
  Calm => \/ \E s \in Slots : As(s, "updater") /\ Busy(s)
          \/ app["data"] = app["exe"]

(* While nothing goes wrong, a program whose user starts it now and then   *)
(* ends up with the files of the last release, provided version numbers    *)
(* grow.                                                                   *)
Growing == \A v, w \in Release : v < w => Number(v) < Number(w)
UpToDate == (Growing /\ []Calm) => <>[](app = shelf)

(* .justupdate is there "to avoid unwanted loop if newst update make some  *)
(* issues" (DUpdate.cpp:45).  An updater whose update fails starts no      *)
(* other, as long as no two processes meet and releases bring the          *)
(* executable.                                                             *)
NoUnwantedLoop ==
  \A s \in Slots : At(s, "spawn") /\ ~shared /\ WithExe(s) => As(s, "main")
=============================================================================
