----------------------------- MODULE DSyncFile ------------------------------
(***************************************************************************)
(* One DSyncFile (lib/DSyncFile.cpp): DoSync copies Source over Dest when  *)
(* the whole second of Source's last write is later than that of Dest's.   *)
(* DoSync and the DPath::Copy_File it calls (lib/DPath.cpp) are one file   *)
(* operation per step, because a user writes and removes the files at the  *)
(* same time.                                                              *)
(*                                                                         *)
(* Contents are numbered in the order they are written; 0 is none of them: *)
(* what an unfinished copy leaves, or a mixture of several.  Time is a     *)
(* number of ticks.  DChrono::to_time_t reads two clocks, one after the    *)
(* other: what that adds to a time is taken to be less than a tick.        *)
(***************************************************************************)
EXTENDS Integers, SyncOutcomes

CONSTANTS
  MaxTime,         \* bound: the last tick
  MaxContent,      \* bound: how many contents are written
  TicksPerSecond,  \* file times differ by less than the second DoSync reads
  SafeModes,       \* the values SetSafeMode is called with
  Writes, Removes, \* which of "source", "dest" the users write, remove
  Users            \* who may use the object

ASSUME BoundsAssumption ==
  /\ MaxTime \in Nat /\ TicksPerSecond \in Nat /\ MaxContent \in Nat
  /\ 0 < TicksPerSecond /\ TicksPerSecond <= MaxTime /\ 0 < MaxContent

(* A user acts at any time, or waits for the end of the call and for a     *)
(* later second than Dest was written in; file operations fail for him or  *)
(* do not; the owner of the object calls InvertSync or does not.  The last *)
(* tick and the number of contents he sees are bounds.                     *)
User ==
  [waits : BOOLEAN, fails : BOOLEAN, inverts : BOOLEAN,
   ticks : 0..MaxTime, contents : 0..MaxContent]

ASSUME UserAssumption ==
  /\ SafeModes \subseteq BOOLEAN /\ SafeModes # {}
  /\ Writes \subseteq {"source", "dest"} /\ Removes \subseteq {"source", "dest"}
  /\ Users \subseteq User

VARIABLES
  user,            \* who uses the object, for good
  disk,            \* the two files
  now, written,    \* the clock, the number of the last content written
  Source, Dest, Ready, LastSyncStatus, SafeMode,
  at,              \* where DoSync is
  st,              \* DoSync's Source time
  buffer,          \* what the Source that copy_file opened has held since
  linked,          \* the path Source still names the file it opened
  ret,             \* what DoSync last returned
  seen,            \* history: what Source held since DoSync was called
  outage           \* history: FILE_NOT_FOUND was returned, not yet RESTORED

world == <<disk, now, written>>
object == <<Source, Dest, Ready, LastSyncStatus, SafeMode>>
reading == <<buffer, linked>>
call == <<at, st, reading>>
vars == <<user, world, object, call, ret, seen, outage>>

File == {"a", "b"}
Path == File \cup {"link"}
Absent == [there |-> FALSE, content |-> 0, time |-> 0]

(* A path names the file it is called, or through a link another's.        *)
FileOf(p) == IF p = "link" THEN "a" ELSE p
On(d, p) == d[FileOf(p)]
Put(p, file) == disk' = [disk EXCEPT ![FileOf(p)] = file]

Held(d) == IF On(d, Source).there THEN {On(d, Source).content} ELSE {}

(* Fault: a filesystem that keeps every other second.                      *)
Second_Fat(t) == t \div (2 * TicksPerSecond)

(* DPath::LastWriteTime: whole seconds, the epoch for a file that is gone. *)
Second(t) == t \div TicksPerSecond

(* The constructor.  With SyncNow it runs DoSync before anything has given *)
(* LastSyncStatus a value: any value the memory held, below 0 or not.      *)
Init ==
  /\ user \in Users
  /\ now = TicksPerSecond /\ written = 1
  /\ disk \in [File -> {Absent,
                        [there |-> TRUE, content |-> 1, time |-> now]}]
  /\ Source = "a" /\ Dest \in Path
  /\ Ready = On(disk, Source).there
  /\ SafeMode \in SafeModes
  /\ \/ at = "idle" /\ LastSyncStatus = "SYNC_NOT_YET"
     \/ at = "source" /\ LastSyncStatus \in {"SYNC_NOT_YET", "SYNC_ERR_BHO"}
  /\ st = 0 /\ buffer = {} /\ linked = FALSE /\ ret = "SYNC_NOT_YET"
  /\ seen = Held(disk) /\ outage = FALSE

-----------------------------------------------------------------------------
(* DoSync.                                                                 *)

Return(status, last) ==
  /\ at' = "idle" /\ ret' = status /\ LastSyncStatus' = last
  /\ outage' = (status = "SYNC_ERR_FILE_NOT_FOUND"
                \/ (outage /\ status # "SYNC_RESTORED"))
  /\ UNCHANGED <<Source, Dest, SafeMode, st, reading, seen>>

Go(from, to) ==
  /\ at = from /\ at' = to
  /\ UNCHANGED <<Source, Dest, SafeMode, LastSyncStatus, ret, seen, outage>>

DoSync ==
  /\ at = "idle" /\ at' = "source"
  /\ seen' = Held(disk)
  /\ UNCHANGED <<world, object, st, reading, ret, outage>>

(* Fault: a missing source is reported again and again.                    *)
SourceMissing_Repeats ==
  /\ at = "source" /\ ~On(disk, Source).there
  /\ Ready' = FALSE
  /\ Return("SYNC_ERR_FILE_NOT_FOUND", "SYNC_ERR_FILE_NOT_FOUND")
  /\ UNCHANGED world

SourceMissing ==
  /\ at = "source" /\ ~On(disk, Source).there
  /\ Ready' = FALSE
  /\ IF Ready
       THEN Return("SYNC_ERR_FILE_NOT_FOUND", "SYNC_ERR_FILE_NOT_FOUND")
       ELSE Return("SYNC_NOT_READY", "SYNC_NOT_READY")
  /\ UNCHANGED world

(* The rest of the test of Source: same path, back again, or go on.        *)
SourceThere ==
  /\ at = "source" /\ On(disk, Source).there
  /\ \/ /\ Source = Dest
        /\ Ready' = FALSE
        /\ Return("SYNC_ERR_SAME_AS_DEST", "SYNC_ERR_SAME_AS_DEST")
     \/ /\ Source # Dest /\ ~Ready
        /\ Ready' = TRUE
        /\ Return("SYNC_RESTORED", "SYNC_RESTORED")
     \/ /\ Source # Dest /\ Ready
        /\ Go("source", "dest") /\ UNCHANGED <<Ready, st, reading>>
  /\ UNCHANGED world

DestTest ==
  /\ Go("dest", IF On(disk, Dest).there THEN "sourceTime" ELSE "status")
  /\ UNCHANGED <<world, Ready, st, reading>>

SourceTime ==
  /\ Go("sourceTime", "destTime")
  /\ st' = Second(On(disk, Source).time)
  /\ UNCHANGED <<world, Ready, reading>>

(* Fault: files of the same second are copied.                             *)
DestTime_OrEqual ==
  /\ at = "destTime"
  /\ IF st >= Second(On(disk, Dest).time)
       THEN Go("destTime", "status") /\ UNCHANGED <<st, reading>>
       ELSE Return("SYNC_NO_NEEDED", "SYNC_NO_NEEDED")
  /\ UNCHANGED <<world, Ready>>

DestTime ==
  /\ at = "destTime"
  /\ IF st > Second(On(disk, Dest).time)
       THEN Go("destTime", "status") /\ UNCHANGED <<st, reading>>
       ELSE Return("SYNC_NO_NEEDED", "SYNC_NO_NEEDED")
  /\ UNCHANGED <<world, Ready>>

-----------------------------------------------------------------------------
(* Copy_File(Source, Dest, true, SafeMode), called by DoSync.              *)

CopyError ==
  Return("SYNC_ERR_COPY", "SYNC_ERR_COPY") /\ UNCHANGED Ready

(* fs::status without an error code throws; DoSync catches it.             *)
StatusThrows ==
  /\ at = "status" /\ user.fails
  /\ Return("SYNC_ERR_BHO", "SYNC_ERR_BHO") /\ UNCHANGED <<world, Ready>>

ReadPermissions ==
  /\ Go("status",
        IF SafeMode /\ On(disk, Dest).there THEN "remove" ELSE "open")
  /\ UNCHANGED <<world, Ready, st, reading>>

(* Fault: the safe copy removes the file it was to copy.                   *)
RemoveDest_Source ==
  /\ at = "remove"
  /\ Put(Source, Absent) /\ Go("remove", "open")
  /\ UNCHANGED <<now, written, Ready, st, reading>>

RemoveDest ==
  /\ at = "remove"
  /\ \/ /\ Put(Dest, Absent) /\ Go("remove", "open")
        /\ UNCHANGED <<Ready, st, reading>>
     \/ user.fails /\ CopyError /\ UNCHANGED disk
  /\ UNCHANGED <<now, written>>

(* Fault: an existing Dest is skipped (the gcc 7 fault SetSafeMode names). *)
Newer_Never == FALSE

(* copy_options::update_existing compares the full times.                  *)
Newer == On(disk, Source).time > On(disk, Dest).time

SameFile == FileOf(Source) = FileOf(Dest)

(* copy_file refuses two paths of one file, and one that is there unless   *)
(* it may update it; it opens Source and creates or truncates Dest.        *)
CopyOpen ==
  /\ at = "open"
  /\ LET s == On(disk, Source)
         d == On(disk, Dest) IN
     \/ /\ ~s.there \/ (d.there /\ (SafeMode \/ SameFile)) \/ user.fails
        /\ CopyError /\ UNCHANGED disk
     \/ /\ s.there /\ d.there /\ ~SafeMode /\ ~SameFile /\ ~Newer
        /\ buffer' = {}
        /\ Go("open", "permissions") /\ UNCHANGED <<disk, Ready, st, linked>>
     \/ /\ s.there /\ (d.there => ~SafeMode /\ ~SameFile /\ Newer)
        /\ buffer' = {s.content} /\ linked' = TRUE
        /\ Put(Dest, [there |-> TRUE, content |-> 0, time |-> now])
        /\ Go("open", "write") /\ UNCHANGED <<Ready, st>>
  /\ UNCHANGED <<now, written>>

(* Source was written while copy_file had it open.                         *)
Torn == \E b, c \in buffer : b # c

(* copy_file reads and writes piece by piece: every piece is of what       *)
(* Source held when it was read.  A Dest that is removed meanwhile is      *)
(* written all the same, but no path names it.                             *)
CopyWrite ==
  /\ at = "write"
  /\ \/ /\ \E c \in buffer \cup (IF Torn THEN {0} ELSE {}) :
             IF On(disk, Dest).there
               THEN Put(Dest, [there |-> TRUE, content |-> c, time |-> now])
               ELSE UNCHANGED disk
        /\ Go("write", "permissions") /\ UNCHANGED <<Ready, st, reading>>
     \/ user.fails /\ CopyError /\ UNCHANGED disk
  /\ UNCHANGED <<now, written>>

SetPermissions ==
  /\ at = "permissions"
  /\ \/ /\ On(disk, Dest).there
        /\ Return(IF LastSyncStatus \in Errors THEN "SYNC_RESTORED"
                                               ELSE "SYNC_DONE",
                  "SYNC_DONE")
        /\ UNCHANGED Ready
     \/ (~On(disk, Dest).there \/ user.fails) /\ CopyError
  /\ UNCHANGED world

DoSyncStep ==
  \/ SourceMissing \/ SourceThere \/ DestTest \/ SourceTime \/ DestTime
  \/ StatusThrows \/ ReadPermissions \/ RemoveDest \/ CopyOpen \/ CopyWrite
  \/ SetPermissions

-----------------------------------------------------------------------------
(* The owner of the object, between calls.                                 *)

InvertSync ==
  /\ user.inverts /\ at = "idle"
  /\ Source' = Dest /\ Dest' = Source
  /\ UNCHANGED <<world, Ready, LastSyncStatus, SafeMode, call, ret, seen,
                 outage>>

SetSafeMode(enabled) ==
  /\ at = "idle" /\ SafeMode' = enabled
  /\ UNCHANGED <<world, Source, Dest, Ready, LastSyncStatus, call, ret, seen,
                 outage>>

(* The user and the clock.                                                 *)

Named(roles) ==
  {p \in {Source, Dest} : \/ p = Source /\ "source" \in roles
                          \/ p = Dest /\ "dest" \in roles}

MayTouch ==
  user.waits => /\ at = "idle"
                /\ now \div TicksPerSecond > On(disk, Dest).time \div TicksPerSecond

See(d) == seen' = IF at = "idle" THEN seen ELSE seen \cup Held(d)

(* p is the file that copy_file reads, not another one put in its place.   *)
Reads(p) == at = "write" /\ linked /\ FileOf(p) = FileOf(Source)

(* Two who write Dest at once are left out.                                *)
Write(p) ==
  /\ MayTouch /\ written < user.contents
  /\ at = "write" => FileOf(p) # FileOf(Dest)
  /\ written' = written + 1
  /\ Put(p, [there |-> TRUE, content |-> written', time |-> now])
  /\ buffer' = IF Reads(p) THEN buffer \cup {written'} ELSE buffer
  /\ See(disk')
  /\ UNCHANGED <<now, object, at, st, linked, ret, outage>>

Remove(p) ==
  /\ MayTouch /\ On(disk, p).there
  /\ Put(p, Absent) /\ See(disk')
  /\ linked' = (linked /\ ~Reads(p))
  /\ UNCHANGED <<now, written, object, at, st, buffer, ret, outage>>

UserStep ==
  \/ \E p \in Named(Writes) : Write(p)
  \/ \E p \in Named(Removes) : Remove(p)

Tick ==
  /\ now < user.ticks /\ now' = now + 1
  /\ UNCHANGED <<disk, written, object, call, ret, seen, outage>>

Next ==
  /\ UNCHANGED user
  /\ \/ DoSync \/ DoSyncStep \/ InvertSync \/ UserStep \/ Tick
     \/ \E b \in SafeModes : SetSafeMode(b)

(* Whoever owns the object calls DoSync again and again, as DSyncWatcher's *)
(* thread does, and a call runs to its end.                                *)
Calls == UNCHANGED user /\ (DoSync \/ DoSyncStep)
Fairness == WF_vars(Calls)

Spec == Init /\ [][Next]_vars /\ Fairness

-----------------------------------------------------------------------------
FileType ==
  [there : BOOLEAN, content : 0..MaxContent, time : 0..MaxTime]

(* Every variable keeps to its type.                                       *)
TypeOK ==
  /\ user \in Users
  /\ disk \in [File -> FileType]
  /\ now \in 0..MaxTime /\ written \in 0..MaxContent
  /\ Source \in Path /\ Dest \in Path /\ Ready \in BOOLEAN
  /\ LastSyncStatus \in Status /\ SafeMode \in BOOLEAN
  /\ at \in {"idle", "source", "dest", "sourceTime", "destTime", "status",
             "remove", "open", "write", "permissions"}
  /\ st \in 0..MaxTime
  /\ buffer \in SUBSET (0..MaxContent) /\ linked \in BOOLEAN
  /\ ret \in Status /\ seen \in SUBSET (0..MaxContent) /\ outage \in BOOLEAN

Returns == at # "idle" /\ at' = "idle"

(* When DoSync says that it has copied, Dest holds what Source held at     *)
(* some moment of the call, whole; only a Source that was written in place *)
(* while copy_file had it open may leave a mixture.                        *)
DoneMeansCopied ==
  [][Returns /\ ret' = "SYNC_DONE" =>
       \/ On(disk', Dest).content \in seen
       \/ Torn /\ On(disk', Dest).content = 0]_vars

(* When DoSync says that no copy is needed, Dest holds what Source holds.  *)
NoNeedIsRight ==
  Returns /\ ret' = "SYNC_NO_NEEDED" =>
    On(disk, Dest).content = On(disk, Source).content
NoNeedMeansSame == [][NoNeedIsRight]_vars

(* The orderly user: he waits, nothing fails, and nobody calls InvertSync. *)
Orderly == user.waits /\ ~user.fails /\ ~user.inverts

(* For the orderly user the answer that no copy is needed is right.        *)
NoNeedIfOrderly == [][Orderly => NoNeedIsRight]_vars

(* A source that disappears is reported once, and then RESTORED is the     *)
(* only thing reported of it, once it is back.                             *)
OutageReportedOnce ==
  [][Returns /\ Source # Dest /\ outage =>
       ret' \in {"SYNC_NOT_READY", "SYNC_RESTORED"}]_vars

(* DoSync removes and writes nothing but Dest: another file that is Source *)
(* is safe, whatever happens to both during the call.                      *)
SourceUntouched ==
  [][at # "idle" /\ at' # at /\ ~SameFile =>
       On(disk', Source) = On(disk, Source)]_vars

(* DoSync does not see that two paths name one file, and must not remove   *)
(* or truncate it.                                                         *)
AliasLeftAlone == at # "idle" /\ at' # at /\ SameFile => UNCHANGED disk

(* For the orderly user a file that both paths name is never harmed: its   *)
(* own time keeps DoSync from removing or truncating it.                   *)
AliasUntouched == [][Orderly => AliasLeftAlone]_vars

(* For the orderly user, again and again Dest holds what Source holds, or  *)
(* Source is missing.                                                      *)
Converges ==
  []<>(Orderly /\ On(disk, Source).there /\ Source # Dest
       => On(disk, Dest).content = On(disk, Source).content)

(* Whatever happens on the disk, the owner sees one SyncEntry.             *)
Entry == INSTANCE SyncEntry WITH
  pair <- [ready |-> Ready, same |-> Source = Dest,
           erred |-> LastSyncStatus \in Errors]
EntrySpec == Entry!ESpec
=============================================================================
