-------------------------- MODULE DSyncFileProofs ---------------------------
(***************************************************************************)
(* Proofs about DSyncFile for every bound, every user and every failure,   *)
(* then for a user who writes only Source and for the orderly one.         *)
(***************************************************************************)
EXTENDS DSyncFile, TLAPS

(* Past its first test DoSync works on a ready pair of different paths,    *)
(* and a pair that is ready has no outage to end.                          *)
PairInv ==
  /\ at \notin {"idle", "source"} => Ready /\ Source # Dest
  /\ outage /\ Source # Dest => ~Ready

IInv == TypeOK /\ PairInv

USE DEF world, object, call, reading

(* Whole seconds: no later than the ticks they are cut from, and in order. *)
LEMMA SecondType == ASSUME NEW t \in 0..MaxTime PROVE Second(t) \in 0..MaxTime
<1> DEFINE k == TicksPerSecond
           q == Second(t)
<1>1. k \in Nat \ {0} /\ t \in Nat BY BoundsAssumption
<1>2. q \in Int /\ t = k * q + (t % k) /\ t % k \in 0..(k - 1)
  BY <1>1 DEF Second
<1> HIDE DEF k, q
<1>3. q >= 0
  <2>1. q < 0 => k * q <= -k BY <1>1, <1>2
  <2>2. QED BY <1>1, <1>2, <2>1
<1>4. q <= t
  <2>1. k * q >= q BY <1>1, <1>2, <1>3
  <2>2. QED BY <1>1, <1>2, <2>1
<1>5. q \in 0..MaxTime
  BY <1>2, <1>3, <1>4, BoundsAssumption
<1>6. QED BY <1>5 DEF q

LEMMA SecondOrder ==
  ASSUME NEW a \in Nat, NEW b \in Nat, Second(a) > Second(b) PROVE a > b
  BY BoundsAssumption DEF Second

LEMMA FileTypes ==
  ASSUME TypeOK, NEW p \in Path
  PROVE  On(disk, p) \in FileType /\ Absent \in FileType /\ FileOf(p) \in File
<1>1. Absent \in FileType BY BoundsAssumption DEF Absent, FileType
<1>2. FileOf(p) \in File BY DEF FileOf, Path, File
<1>3. QED BY <1>1, <1>2 DEF TypeOK, On

LEMMA UserType ==
  ASSUME TypeOK
  PROVE  /\ user.waits \in BOOLEAN /\ user.fails \in BOOLEAN
         /\ user.ticks \in 0..MaxTime /\ user.contents \in 0..MaxContent
  BY UserAssumption DEF TypeOK, User

LEMMA HeldType == ASSUME TypeOK PROVE Held(disk) \in SUBSET (0..MaxContent)
  BY FileTypes DEF TypeOK, Held, FileType

LEMMA PutType ==
  ASSUME TypeOK, NEW p \in Path, NEW f \in FileType, Put(p, f)
  PROVE  disk' \in [File -> FileType]
  BY FileTypes DEF TypeOK, Put

LEMMA TypeInit == Init => IInv
<1> SUFFICES ASSUME Init PROVE IInv OBVIOUS
<1>1. disk \in [File -> FileType]
  <2>1. now \in 0..MaxTime /\ 1 \in 0..MaxContent /\ 0 \in 0..MaxContent
        /\ 0 \in 0..MaxTime
    BY BoundsAssumption DEF Init
  <2>2. Absent \in FileType BY <2>1 DEF Absent, FileType
  <2>3. [there |-> TRUE, content |-> 1, time |-> now] \in FileType
    BY <2>1 DEF FileType
  <2>4. QED BY <2>2, <2>3 DEF Init
<1>2. TypeOK
  <2>1. FileOf("a") \in File /\ "a" \in Path BY DEF FileOf, Path, File
  <2>2. On(disk, "a") \in FileType BY <1>1, <2>1 DEF On
  <2>3. Ready \in BOOLEAN BY <2>2 DEF Init, FileType
  <2>4. seen \in SUBSET (0..MaxContent) BY <2>2 DEF Init, Held, FileType
  <2>5. SafeMode \in BOOLEAN BY UserAssumption DEF Init
  <2>6. /\ now \in 0..MaxTime /\ written \in 0..MaxContent
        /\ st \in 0..MaxTime
    BY BoundsAssumption DEF Init
  <2>7. /\ user \in Users /\ Source \in Path /\ Dest \in Path
        /\ LastSyncStatus \in Status /\ ret \in Status
        /\ at \in {"idle", "source"} /\ outage \in BOOLEAN
        /\ buffer \in SUBSET (0..MaxContent) /\ linked \in BOOLEAN
    BY <2>1 DEF Init, Status
  <2>8. QED BY <1>1, <2>3, <2>4, <2>5, <2>6, <2>7 DEF TypeOK
<1>3. PairInv BY DEF Init, PairInv
<1>4. QED BY <1>2, <1>3 DEF IInv

(* A step of DoSync: the call's registers, the object and the files.       *)
LEMMA TypeDoSync ==
  ASSUME TypeOK, UNCHANGED user, DoSync \/ DoSyncStep PROVE TypeOK'
<1> USE DEF TypeOK, Return, Go, Status
<1>0. ASSUME NEW s \in Status, Return(s, s), UNCHANGED <<now, written>>,
             disk' \in [File -> FileType], UNCHANGED Ready
      PROVE  TypeOK'
  BY <1>0
<1>1. CASE DoSync BY <1>1, HeldType DEF DoSync
<1>2. CASE SourceMissing BY <1>2 DEF SourceMissing
<1>3. CASE SourceThere BY <1>3 DEF SourceThere
<1>4. CASE DestTest BY <1>4 DEF DestTest
<1>5. CASE SourceTime
  BY <1>5, SecondType, FileTypes DEF SourceTime, FileType
<1>6. CASE DestTime
  <2>1. CASE st > Second(On(disk, Dest).time)
    <3>1. Go("destTime", "status") /\ UNCHANGED <<world, Ready, st, reading>>
      BY <1>6, <2>1 DEF DestTime
    <3>2. QED BY <3>1
  <2>2. CASE ~(st > Second(On(disk, Dest).time))
    BY <1>0, <1>6, <2>2 DEF DestTime
  <2>3. QED BY <2>1, <2>2
<1>7. CASE StatusThrows BY <1>7 DEF StatusThrows
<1>8. CASE ReadPermissions BY <1>8 DEF ReadPermissions
<1>9. CASE RemoveDest
  <2>1. disk' \in [File -> FileType]
    BY <1>9, FileTypes, PutType DEF RemoveDest
  <2>2. CASE CopyError BY <1>0, <1>9, <2>1, <2>2 DEF RemoveDest, CopyError
  <2>3. CASE Go("remove", "open") /\ UNCHANGED <<Ready, st, reading>>
    BY <1>9, <2>1, <2>3 DEF RemoveDest
  <2>4. QED BY <1>9, <2>2, <2>3 DEF RemoveDest
<1>10. CASE CopyOpen
  <2>1. CASE CopyError /\ UNCHANGED <<disk, now, written>>
    BY <2>1 DEF CopyError
  <2>2. CASE /\ buffer' = {} /\ Go("open", "permissions")
             /\ UNCHANGED <<disk, now, written, Ready, st, linked>>
    BY <2>2
  <2>3. CASE /\ Put(Dest, [there |-> TRUE, content |-> 0, time |-> now])
             /\ buffer' = {On(disk, Source).content} /\ linked' = TRUE
             /\ Go("open", "write") /\ UNCHANGED <<now, written, Ready, st>>
    <3>1. [there |-> TRUE, content |-> 0, time |-> now] \in FileType
      BY BoundsAssumption DEF FileType
    <3>2. disk' \in [File -> FileType] BY <2>3, <3>1, PutType
    <3>3. buffer' \in SUBSET (0..MaxContent) BY <2>3, FileTypes DEF FileType
    <3>4. QED BY <2>3, <3>2, <3>3
  <2>4. QED BY <1>10, <2>1, <2>2, <2>3 DEF CopyOpen
<1>11. CASE CopyWrite
  <2>1. ASSUME NEW c \in buffer \cup {0}
        PROVE  [there |-> TRUE, content |-> c, time |-> now] \in FileType
    BY BoundsAssumption DEF FileType
  <2>2. disk' \in [File -> FileType] BY <1>11, <2>1, PutType DEF CopyWrite
  <2>3. CASE CopyError BY <1>0, <1>11, <2>2, <2>3 DEF CopyWrite, CopyError
  <2>4. CASE Go("write", "permissions") /\ UNCHANGED <<Ready, st, reading>>
    BY <1>11, <2>2, <2>4 DEF CopyWrite
  <2>5. QED BY <1>11, <2>3, <2>4 DEF CopyWrite
<1>12. CASE SetPermissions BY <1>12 DEF SetPermissions, CopyError
<1>13. QED
  BY <1>1, <1>2, <1>3, <1>4, <1>5, <1>6, <1>7, <1>8, <1>9, <1>10, <1>11, <1>12
  DEF DoSyncStep

(* The steps of the owner, the user and the clock.                         *)
LEMMA TypeWorld ==
  ASSUME TypeOK, UNCHANGED user,
         InvertSync \/ UserStep \/ Tick \/ \E b \in SafeModes : SetSafeMode(b)
  PROVE  TypeOK'
<1>1. CASE InvertSync BY <1>1 DEF InvertSync, TypeOK
<1>2. CASE Tick BY <1>2, UserType, BoundsAssumption DEF Tick, TypeOK
<1>3. ASSUME NEW b \in SafeModes, SetSafeMode(b) PROVE TypeOK'
  BY <1>3, UserAssumption DEF SetSafeMode, TypeOK
<1>4. CASE UserStep
  <2>1. PICK p \in Path : Write(p) \/ Remove(p)
    BY <1>4 DEF UserStep, Named, TypeOK
  <2>2. ASSUME NEW f \in FileType, Put(p, f)
        PROVE  seen \cup Held(disk') \in SUBSET (0..MaxContent)
    <3>1. disk' \in [File -> FileType] BY <2>2, PutType
    <3>2. QED
      BY <3>1 DEF TypeOK, Held, On, FileOf, Path, File, FileType
  <2>3. CASE Write(p)
    <3>0. written + 1 \in 0..MaxContent
      BY <2>3, UserType, BoundsAssumption DEF Write, TypeOK
    <3>1. [there |-> TRUE, content |-> written + 1, time |-> now] \in FileType
      BY <2>3, UserType, BoundsAssumption DEF Write, FileType, TypeOK
    <3>2. Put(p, [there |-> TRUE, content |-> written + 1, time |-> now])
      BY <2>3 DEF Write
    <3>3. disk' \in [File -> FileType] BY <3>1, <3>2, PutType
    <3>4. seen \cup Held(disk') \in SUBSET (0..MaxContent)
      BY <2>2, <3>1, <3>2
    <3>5. QED
      BY <2>3, <3>0, <3>3, <3>4 DEF Write, See, TypeOK
  <2>4. CASE Remove(p)
    <3>1. Absent \in FileType /\ Put(p, Absent)
      BY <2>4, FileTypes DEF Remove
    <3>2. disk' \in [File -> FileType] BY <3>1, PutType
    <3>3. seen \cup Held(disk') \in SUBSET (0..MaxContent) BY <2>2, <3>1
    <3>4. linked' \in BOOLEAN BY <2>4 DEF Remove, Reads, TypeOK
    <3>5. QED BY <2>4, <3>2, <3>3, <3>4 DEF Remove, See, TypeOK
  <2>5. QED BY <2>1, <2>3, <2>4
<1>5. QED BY <1>1, <1>2, <1>3, <1>4

LEMMA PairStep == IInv /\ [Next]_vars => PairInv'
<1> SUFFICES ASSUME IInv, [Next]_vars PROVE PairInv' OBVIOUS
<1> USE DEF IInv, PairInv
<1>1. CASE DoSyncStep
  BY <1>1 DEF DoSyncStep, SourceMissing, SourceThere, DestTest, SourceTime,
     DestTime, StatusThrows, ReadPermissions, RemoveDest, CopyOpen, CopyWrite,
     SetPermissions, CopyError, Return, Go, TypeOK
<1>2. CASE DoSync \/ InvertSync \/ UserStep \/ Tick
  BY <1>2 DEF DoSync, InvertSync, UserStep, Write, Remove, Tick
<1>3. ASSUME NEW b \in SafeModes, SetSafeMode(b) PROVE PairInv'
  BY <1>3 DEF SetSafeMode
<1>4. CASE UNCHANGED vars BY <1>4 DEF vars
<1>5. QED BY <1>1, <1>2, <1>3, <1>4 DEF Next

LEMMA IStep == IInv /\ [Next]_vars => IInv'
<1> SUFFICES ASSUME IInv, [Next]_vars PROVE TypeOK'
  BY PairStep DEF IInv
<1>1. CASE UNCHANGED vars BY <1>1 DEF vars, IInv, TypeOK
<1>2. QED BY <1>1, TypeDoSync, TypeWorld DEF IInv, Next

LEMMA IInvariant == Spec => []IInv
  BY TypeInit, IStep, PTL DEF Spec

(* Every variable keeps to its type.                                       *)
THEOREM TypeCorrect == Spec => []TypeOK
<1>1. IInv => TypeOK BY DEF IInv
<1>2. QED BY <1>1, IInvariant, PTL

(* However the user and the disk interfere, a missing source is reported   *)
(* once and then only its return is.                                       *)
THEOREM OutageOnce == Spec => OutageReportedOnce
<1>1. ASSUME IInv, [Next]_vars, Returns, Source # Dest, outage
      PROVE  ret' \in {"SYNC_NOT_READY", "SYNC_RESTORED"}
  <2>1. at = "source" /\ ~Ready BY <1>1 DEF IInv, PairInv, Returns
  <2>2. CASE DoSyncStep
    BY <1>1, <2>1, <2>2 DEF DoSyncStep, SourceMissing, SourceThere, DestTest,
       SourceTime, DestTime, StatusThrows, ReadPermissions, RemoveDest,
       CopyOpen, CopyWrite, SetPermissions, Return, Go
  <2>3. ~DoSyncStep => UNCHANGED at \/ at = "idle"
    BY <1>1 DEF Next, DoSync, InvertSync, UserStep, Write, Remove, Tick,
       SetSafeMode, vars
  <2>4. QED BY <1>1, <2>2, <2>3 DEF Returns
<1>2. QED BY <1>1, IInvariant, PTL DEF Spec, OutageReportedOnce

(* DoSync never changes a source that is another file than Dest, even if   *)
(* the user removes and writes both during the call and operations fail.   *)
THEOREM SourceIsSafe == Spec => SourceUntouched
<1>1. ASSUME IInv, [Next]_vars, at # "idle", at' # at, ~SameFile
      PROVE  On(disk', Source) = On(disk, Source)
  <2>1. DoSyncStep
    BY <1>1 DEF Next, DoSync, InvertSync, UserStep, Write, Remove, Tick,
       SetSafeMode, vars
  <2>2. CASE UNCHANGED disk BY <2>2 DEF On
  <2>3. CASE ~UNCHANGED disk
    <3>1. PICK f : Put(Dest, f) /\ Source # Dest
      BY <1>1, <2>1, <2>3 DEF DoSyncStep, SourceMissing, SourceThere,
         DestTest, SourceTime, DestTime, StatusThrows, ReadPermissions,
         RemoveDest, CopyOpen, CopyWrite, SetPermissions, IInv, PairInv
    <3>2. UNCHANGED Source
      BY <2>1 DEF DoSyncStep, SourceMissing, SourceThere, DestTest,
         SourceTime, DestTime, StatusThrows, ReadPermissions, RemoveDest,
         CopyOpen, CopyWrite, SetPermissions, CopyError, Return, Go
    <3>3. FileOf(Source) # FileOf(Dest) BY <1>1 DEF SameFile
    <3>4. QED BY <3>1, <3>2, <3>3 DEF Put, On
  <2>4. QED BY <2>2, <2>3
<1>2. QED BY <1>1, IInvariant, PTL DEF Spec, SourceUntouched

(* An answer the pair allows, taken as the values of a step.               *)
LEMMA EntryAnswer ==
  ASSUME NEW r, NEW l, NEW s,
         Ready' = r, LastSyncStatus' = l, ret' = s, UNCHANGED <<Source, Dest>>,
         Entry!Answer([ready |-> Ready, same |-> Source = Dest,
                       erred |-> LastSyncStatus \in Errors], r, l, s)
           \in Entry!Outcomes([ready |-> Ready, same |-> Source = Dest,
                               erred |-> LastSyncStatus \in Errors])
  PROVE  Entry!ENext
<1> DEFINE P == [ready |-> Ready, same |-> Source = Dest,
                 erred |-> LastSyncStatus \in Errors]
           o == Entry!Answer(P, r, l, s)
<1>1. P' = o.pair /\ ret' = o.ret
  BY DEF Entry!Answer, Entry!Errors, Errors
<1>2. o \in Entry!Outcomes(P) OBVIOUS
<1> HIDE DEF o
<1>3. QED BY <1>1, <1>2 DEF Entry!ENext

(* A step of DoSync is a step of the pair as its owner sees it, or none.   *)
LEMMA EntryDoSync ==
  ASSUME IInv, DoSyncStep PROVE Entry!ENext \/ UNCHANGED Entry!evars
<1> USE DEF IInv, PairInv
<1> DEFINE P == [ready |-> Ready, same |-> Source = Dest,
                 erred |-> LastSyncStatus \in Errors]
<1>1. ASSUME UNCHANGED <<Source, Dest, Ready, LastSyncStatus, ret>>
      PROVE  UNCHANGED Entry!evars
  BY <1>1 DEF Entry!evars
<1>2. ASSUME NEW s \in {"SYNC_NO_NEEDED", "SYNC_ERR_COPY", "SYNC_ERR_BHO"},
             Return(s, s), Ready, UNCHANGED Ready, Source # Dest
      PROVE  Entry!ENext
  <2>1. Entry!Answer(P, TRUE, s, s) \in Entry!Outcomes(P)
    BY <1>2 DEF Entry!Outcomes, Entry!PresentAnswers, Entry!Plain
  <2>2. Ready' = TRUE BY <1>2 DEF TypeOK
  <2>3. QED BY <1>2, <2>1, <2>2, EntryAnswer DEF Return
<1>3. CASE SourceMissing
  <2> DEFINE s == IF Ready THEN "SYNC_ERR_FILE_NOT_FOUND" ELSE "SYNC_NOT_READY"
  <2>1. Entry!Answer(P, FALSE, s, s) \in Entry!Outcomes(P)
    BY DEF Entry!Outcomes, Entry!MissingAnswer, Entry!Plain
  <2>2. /\ Ready' = FALSE /\ LastSyncStatus' = s /\ ret' = s
        /\ UNCHANGED <<Source, Dest>>
    BY <1>3 DEF SourceMissing, Return
  <2>3. QED BY <2>1, <2>2, EntryAnswer
<1>4. CASE SourceThere
  <2>1. CASE Source = Dest
    <3>1. Entry!Answer(P, FALSE, "SYNC_ERR_SAME_AS_DEST",
                       "SYNC_ERR_SAME_AS_DEST") \in Entry!Outcomes(P)
      BY <2>1 DEF Entry!Outcomes, Entry!PresentAnswers, Entry!Plain
    <3>2. QED BY <1>4, <2>1, <3>1, EntryAnswer DEF SourceThere, Return
  <2>2. CASE Source # Dest /\ ~Ready
    <3>1. Entry!Answer(P, TRUE, "SYNC_RESTORED", "SYNC_RESTORED")
            \in Entry!Outcomes(P)
      BY <2>2 DEF Entry!Outcomes, Entry!PresentAnswers, Entry!Plain
    <3>2. QED BY <1>4, <2>2, <3>1, EntryAnswer DEF SourceThere, Return
  <2>3. CASE Source # Dest /\ Ready
    BY <1>1, <1>4, <2>3 DEF SourceThere, Go
  <2>4. QED BY <2>1, <2>2, <2>3
<1>5. CASE DestTest \/ SourceTime \/ ReadPermissions
  BY <1>1, <1>5 DEF DestTest, SourceTime, ReadPermissions, Go
<1>6. CASE DestTime BY <1>1, <1>2, <1>6 DEF DestTime, Go
<1>7. CASE StatusThrows BY <1>2, <1>7 DEF StatusThrows
<1>8. CASE RemoveDest BY <1>1, <1>2, <1>8 DEF RemoveDest, CopyError, Go
<1>9. CASE CopyOpen BY <1>1, <1>2, <1>9 DEF CopyOpen, CopyError, Go
<1>10. CASE CopyWrite BY <1>1, <1>2, <1>10 DEF CopyWrite, CopyError, Go
<1>11. CASE SetPermissions
  <2>1. CASE CopyError BY <1>2, <1>11, <2>1 DEF CopyError, SetPermissions
  <2>2. CASE ~CopyError
    <3> DEFINE s == IF LastSyncStatus \in Errors THEN "SYNC_RESTORED"
                                                 ELSE "SYNC_DONE"
    <3>1. Ready /\ Source # Dest BY <1>11 DEF SetPermissions
    <3>2. Entry!Answer(P, TRUE, "SYNC_DONE", s) \in Entry!Outcomes(P)
      BY <3>1 DEF Entry!Outcomes, Entry!PresentAnswers, Entry!CopyAnswer,
         Entry!Errors, Errors
    <3>3. /\ Ready' = TRUE /\ LastSyncStatus' = "SYNC_DONE" /\ ret' = s
          /\ UNCHANGED <<Source, Dest>>
      BY <1>11, <2>2, <3>1 DEF SetPermissions, Return, TypeOK
    <3>4. QED BY <3>2, <3>3, EntryAnswer
  <2>3. QED BY <2>1, <2>2
<1>12. QED
  BY <1>3, <1>4, <1>5, <1>6, <1>7, <1>8, <1>9, <1>10, <1>11 DEF DoSyncStep

(* For every user, every failure and every order of their steps, DoSync    *)
(* answers as SyncEntry allows; DSyncWatcher relies on nothing else.       *)
THEOREM ImplementsEntry == Spec => EntrySpec
<1>1. Init => Entry!EInit
  <2> SUFFICES ASSUME Init PROVE Entry!EInit OBVIOUS
  <2>1. TypeOK BY TypeInit DEF IInv
  <2>3. [ready |-> Ready, same |-> Source = Dest,
         erred |-> LastSyncStatus \in Errors] \in Entry!PairType
    BY <2>1 DEF TypeOK, Entry!PairType
  <2>4. QED BY <2>3 DEF Init, Entry!EInit
<1>2. ASSUME IInv, [Next]_vars PROVE Entry!ENext \/ UNCHANGED Entry!evars
  <2>1. CASE DoSyncStep BY <1>2, <2>1, EntryDoSync
  <2>2. CASE InvertSync
    <3>1. (Source = Dest)' = (Source = Dest) BY <2>2 DEF InvertSync
    <3>2. QED BY <2>2, <3>1 DEF InvertSync, Entry!evars
  <2>3. CASE DoSync \/ UserStep \/ Tick
    BY <2>3 DEF DoSync, UserStep, Write, Remove, Tick, Entry!evars
  <2>4. ASSUME NEW b \in SafeModes, SetSafeMode(b)
        PROVE  UNCHANGED Entry!evars
    BY <2>4 DEF SetSafeMode, Entry!evars
  <2>5. CASE UNCHANGED vars BY <2>5 DEF vars, Entry!evars
  <2>6. QED BY <1>2, <2>1, <2>2, <2>3, <2>4, <2>5 DEF Next
<1>3. QED
  BY <1>1, <1>2, IInvariant, PTL DEF Spec, EntrySpec, Entry!ESpec

-----------------------------------------------------------------------------
(* A user who writes only Source, at any time.                             *)

OnlySourceWritten == "dest" \notin Writes

(* DoSync has found Source later than Dest, and has changed nothing yet.   *)
AfterTests == {"status", "remove", "open"}

(* No file is later than the clock, so what the user writes is later than  *)
(* what was there.                                                         *)
InTime == \A f \in File : disk[f].time <= now

SourceSeen ==
  at # "idle" /\ On(disk, Source).there => On(disk, Source).content \in seen

(* The user can only make Source later than DoSync has found it, and a     *)
(* Source that comes back is later still.                                  *)
Latest(d) == IF On(d, Source).there THEN On(d, Source).time ELSE now
SourceLater ==
  /\ at = "destTime" => st <= Second(Latest(disk))
  /\ at \in AfterTests /\ On(disk, Dest).there /\ ~SameFile =>
       Latest(disk) > On(disk, Dest).time

(* What is copied is another file, and was Source's, or a mixture of that. *)
CopySeen ==
  /\ at \in {"write", "permissions"} => ~SameFile
  /\ at = "write" => buffer \subseteq seen
  /\ at = "permissions" /\ On(disk, Dest).there =>
       \/ On(disk, Dest).content \in seen
       \/ Torn /\ On(disk, Dest).content = 0

CopyInv == IInv /\ InTime /\ SourceSeen /\ SourceLater /\ CopySeen

(* One file is put, the other is left alone.                               *)
LEMMA PutOn ==
  ASSUME TypeOK, NEW p \in Path, NEW q \in Path, NEW f, Put(p, f)
  PROVE  On(disk', q) = IF FileOf(q) = FileOf(p) THEN f ELSE On(disk, q)
  BY FileTypes DEF TypeOK, Put, On

(* The second of a file is an integer, and files are of integer time.      *)
LEMMA Numbers ==
  ASSUME TypeOK, NEW p \in Path
  PROVE  /\ On(disk, p).time \in Nat /\ On(disk, p).content \in Nat
         /\ Second(On(disk, p).time) \in Nat
         /\ On(disk, p).there \in BOOLEAN /\ now \in Nat /\ st \in Nat
<1>1. On(disk, p).time \in 0..MaxTime BY FileTypes DEF FileType
<1>2. Second(On(disk, p).time) \in 0..MaxTime BY <1>1, SecondType
<1>3. QED BY <1>1, <1>2, FileTypes DEF FileType, TypeOK

(* A step of a call changes no file but Dest, which is removed or gets the *)
(* present time.                                                           *)
Fresh(f) == f = Absent \/ (f.there /\ f.time = now)

LEMMA CallSteps ==
  ASSUME TypeOK, DoSyncStep
  PROVE  /\ UNCHANGED <<Source, Dest, seen, now>>
         /\ UNCHANGED disk
            \/ \E f \in FileType : Put(Dest, f) /\ Fresh(f)
<1> USE DEF Return, Go, Fresh
<1>1. CASE SourceMissing \/ SourceThere \/ DestTest \/ SourceTime \/ DestTime
           \/ StatusThrows \/ ReadPermissions \/ SetPermissions
  BY <1>1 DEF SourceMissing, SourceThere, DestTest, SourceTime, DestTime,
     StatusThrows, ReadPermissions, SetPermissions, CopyError
<1>2. CASE RemoveDest
  <2>1. Absent \in FileType BY FileTypes DEF TypeOK
  <2>2. QED BY <1>2, <2>1 DEF RemoveDest, CopyError
<1>3. ASSUME NEW c \in 0..MaxContent
      PROVE  LET f == [there |-> TRUE, content |-> c, time |-> now]
             IN  f \in FileType /\ Fresh(f)
  BY DEF FileType, TypeOK
<1>4. CASE CopyOpen
  <2>1. 0 \in 0..MaxContent BY BoundsAssumption
  <2>2. QED BY <1>3, <1>4, <2>1 DEF CopyOpen, CopyError
<1>5. CASE CopyWrite
  <2>1. ASSUME NEW c \in buffer \cup {0} PROVE c \in 0..MaxContent
    BY BoundsAssumption DEF TypeOK
  <2>2. QED BY <1>3, <1>5, <2>1 DEF CopyWrite, CopyError
<1>6. QED BY <1>1, <1>2, <1>4, <1>5 DEF DoSyncStep

LEMMA InTimeStep == IInv /\ InTime /\ [Next]_vars => InTime'
<1> SUFFICES ASSUME IInv, InTime, [Next]_vars, NEW f \in File
             PROVE  disk'[f].time <= now'
  BY DEF InTime
<1> USE DEF IInv, InTime
<1>1. now \in Nat /\ now' \in Nat /\ now <= now' /\ disk[f].time \in Nat
  <2>1. now \in 0..MaxTime /\ now' \in 0..MaxTime /\ disk[f] \in FileType
    BY IStep DEF TypeOK
  <2>2. now' = now \/ now' = now + 1
    BY CallSteps DEF Next, DoSync, InvertSync, SetSafeMode, UserStep, Write,
       Remove, Tick, vars
  <2>3. QED BY <2>1, <2>2 DEF FileType
<1>2. ASSUME NEW p \in Path, NEW g \in FileType, Put(p, g), Fresh(g)
      PROVE  disk'[f].time <= now
  <2>1. g.time <= now BY <1>1, <1>2 DEF Fresh, Absent
  <2>2. QED BY <1>2, <2>1 DEF Put, TypeOK
<1>3. CASE DoSyncStep BY <1>1, <1>2, <1>3, CallSteps DEF TypeOK
<1>4. CASE UserStep
  <2>1. PICK p \in Path : Write(p) \/ Remove(p)
    BY <1>4 DEF UserStep, Named, TypeOK
  <2>2. CASE Remove(p)
    <3>1. Absent \in FileType BY FileTypes
    <3>2. QED BY <1>2, <2>2, <3>1 DEF Remove, Fresh
  <2>3. CASE Write(p)
    <3>1. [there |-> TRUE, content |-> written + 1, time |-> now]
            \in FileType
      BY <2>3, UserType, BoundsAssumption DEF Write, FileType, TypeOK
    <3>2. QED BY <1>2, <2>3, <3>1 DEF Write, Fresh
  <2>4. QED BY <2>1, <2>2, <2>3
<1>5. CASE UNCHANGED disk BY <1>1, <1>5
<1>6. QED
  BY <1>3, <1>4, <1>5 DEF Next, DoSync, InvertSync, SetSafeMode, Tick, vars

(* What the user may do during a call: write Source, or remove a file.     *)
(* What he writes of the file that is being copied is seen.                *)
LEMMA UserSteps ==
  ASSUME OnlySourceWritten, TypeOK, UserStep
  PROVE  /\ UNCHANGED <<Source, Dest, now, at, st>>
         /\ seen' = IF at = "idle" THEN seen ELSE seen \cup Held(disk')
         /\ \/ \E f : Put(Source, f) /\ Fresh(f)
            \/ Put(Dest, Absent)
         /\ buffer' \subseteq buffer \cup Held(disk')
         /\ at # "write" => UNCHANGED buffer
<1>1. PICK p \in {Source, Dest} : (p = Source /\ Write(p)) \/ Remove(p)
  BY DEF UserStep, Named, OnlySourceWritten
<1>2. CASE p = Source /\ Write(p)
  <2> DEFINE f == [there |-> TRUE, content |-> written', time |-> now]
  <2>1. Put(Source, f) /\ Fresh(f) BY <1>2 DEF Write, Fresh
  <2>2. UNCHANGED Source /\ Source \in Path BY <1>2 DEF Write, TypeOK
  <2>3. On(disk', Source') = f BY <2>1, <2>2, PutOn
  <2>4. Held(disk') = {written'}
    <3>1. f.there /\ f.content = written' OBVIOUS
    <3> HIDE DEF f
    <3>2. QED BY <2>2, <2>3, <3>1 DEF Held
  <2> HIDE DEF f
  <2>5. QED BY <1>2, <2>1, <2>4 DEF Write, See, Reads
<1>3. CASE Remove(p)
  BY <1>1, <1>3 DEF Remove, See, Fresh
<1>4. QED BY <1>1, <1>2, <1>3

(* The steps that are neither the call's nor the user's.                   *)
LEMMA OtherSteps ==
  ASSUME [Next]_vars, ~DoSyncStep, ~UserStep, ~DoSync
  PROVE  /\ UNCHANGED <<disk, at, st, buffer, seen>>
         /\ at = "idle" \/ UNCHANGED <<Source, Dest>>
BY DEF Next, InvertSync, Tick, SetSafeMode, vars

LEMMA CallMoves ==
  ASSUME DoSyncStep PROVE at' # at /\ at # "idle"
BY DEF DoSyncStep, SourceMissing, SourceThere, DestTest, SourceTime, DestTime,
   StatusThrows, ReadPermissions, RemoveDest, CopyOpen, CopyWrite,
   SetPermissions, CopyError, Return, Go

(* Whatever Source holds during a call has been seen: the user's writes    *)
(* are, and DoSync puts nothing new there.                                 *)
LEMMA SourceSeenStep ==
  ASSUME OnlySourceWritten, CopyInv, [Next]_vars PROVE SourceSeen'
<1> USE DEF CopyInv, IInv, SourceSeen
<1>1. CASE DoSync BY <1>1 DEF DoSync, Held
<1>2. CASE UserStep
  <2>1. /\ UNCHANGED <<Source, at>>
        /\ at # "idle" => seen' = seen \cup Held(disk')
    BY <1>2, UserSteps
  <2>2. QED BY <2>1 DEF Held
<1>3. CASE DoSyncStep
  <2>1. UNCHANGED <<Source, Dest, seen>> /\ at # "idle"
    BY <1>3, CallSteps, CallMoves
  <2>2. CASE UNCHANGED disk BY <2>1, <2>2 DEF On
  <2>3. CASE RemoveDest
    BY <2>1, <2>2, <2>3, PutOn DEF RemoveDest, TypeOK, Absent
  <2>4. CASE CopyOpen
    <3>1. SUFFICES ASSUME ~UNCHANGED disk PROVE SourceSeen' BY <2>2
    <3>2. /\ Put(Dest, [there |-> TRUE, content |-> 0, time |-> now])
          /\ On(disk, Dest).there => ~SameFile
          /\ On(disk, Source).there
      BY <2>4, <3>1 DEF CopyOpen
    <3>3. FileOf(Source) # FileOf(Dest) BY <3>2 DEF On, SameFile
    <3>4. QED BY <2>1, <3>2, <3>3, PutOn DEF TypeOK
  <2>5. CASE CopyWrite
    BY <2>1, <2>2, <2>5, PutOn DEF CopyWrite, TypeOK, CopySeen, SameFile
  <2>6. QED
    BY <1>3, <2>2, <2>3, <2>4, <2>5 DEF DoSyncStep, SourceMissing,
       SourceThere, DestTest, SourceTime, DestTime, StatusThrows,
       ReadPermissions, SetPermissions
<1>4. CASE ~DoSync /\ ~UserStep /\ ~DoSyncStep BY <1>4, OtherSteps DEF On
<1>5. QED BY <1>1, <1>2, <1>3, <1>4

LEMMA SecondGrows ==
  ASSUME NEW a \in 0..MaxTime, NEW b \in 0..MaxTime, a <= b
  PROVE  Second(a) <= Second(b)
<1>1. a \in Nat /\ b \in Nat OBVIOUS
<1>2. Second(a) \in Int /\ Second(b) \in Int BY SecondType
<1>3. ~(Second(a) > Second(b)) BY <1>1, SecondOrder
<1>4. QED BY <1>2, <1>3

(* The latest time of Source never goes back during a call.                *)
LEMMA LatestGrows ==
  ASSUME OnlySourceWritten, CopyInv, [Next]_vars, at # "idle"
  PROVE  /\ UNCHANGED <<Source, Dest>>
         /\ Latest(disk) \in 0..MaxTime /\ Latest(disk)' \in 0..MaxTime
         /\ Latest(disk) <= Latest(disk)'
<1> USE DEF CopyInv, IInv
<1>1. TypeOK' /\ InTime' BY IStep, InTimeStep
<1>2. /\ On(disk, Source) \in FileType /\ On(disk, Source).time <= now
      /\ now \in 0..MaxTime /\ now' \in 0..MaxTime /\ MaxTime \in Nat
  BY <1>1, FileTypes, BoundsAssumption DEF InTime, On, TypeOK
<1>3. /\ On(disk', Source') \in FileType /\ On(disk', Source').time <= now'
  BY <1>1 DEF TypeOK, InTime, On, FileOf, Path, File
<1>4. /\ Latest(disk) \in 0..MaxTime /\ Latest(disk)' \in 0..MaxTime
      /\ Latest(disk) <= now
  BY <1>2, <1>3 DEF Latest, FileType
<1>5. /\ UNCHANGED <<Source, Dest>> /\ now <= now'
      /\ \/ On(disk', Source) = On(disk, Source)
         \/ now' = now /\ Fresh(On(disk', Source))
  <2>1. ASSUME NEW p \in Path, NEW f, Put(p, f), Fresh(f)
        PROVE  \/ On(disk', Source) = On(disk, Source)
               \/ Fresh(On(disk', Source))
    BY <2>1, PutOn DEF TypeOK
  <2>2. CASE UserStep
    BY <1>2, <2>1, <2>2, UserSteps, FileTypes DEF TypeOK, Fresh
  <2>3. CASE DoSyncStep BY <1>2, <2>1, <2>3, CallSteps DEF TypeOK
  <2>4. CASE ~UserStep /\ ~DoSyncStep
    <3>1. UNCHANGED <<disk, Source, Dest>>
      BY <2>4, OtherSteps DEF DoSync
    <3>2. now' = now \/ now' = now + 1
      BY <2>4 DEF Next, DoSync, InvertSync, SetSafeMode, Tick, vars
    <3>3. QED BY <1>2, <3>1, <3>2
  <2>5. QED BY <2>2, <2>3, <2>4
<1>6. QED
  <2>1. CASE On(disk', Source) = On(disk, Source)
    BY <1>2, <1>3, <1>5, <2>1 DEF Latest, FileType
  <2>2. CASE now' = now /\ Fresh(On(disk', Source))
    BY <1>2, <1>4, <1>5, <2>2 DEF Latest, Fresh, Absent
  <2>3. QED BY <1>4, <1>5, <2>1, <2>2

(* Dest does not get later before the copy, unless it is Source too.       *)
LEMMA SourceLaterStep ==
  ASSUME OnlySourceWritten, CopyInv, [Next]_vars PROVE SourceLater'
<1> USE DEF CopyInv, IInv
<1>1. SUFFICES ASSUME at' = "destTime" \/ at' \in AfterTests
               PROVE  SourceLater'
  BY DEF SourceLater
<1>2. CASE at = "idle"
  BY <1>1, <1>2 DEF AfterTests, Next, DoSync, DoSyncStep, SourceMissing,
     SourceThere, DestTest, SourceTime, DestTime, StatusThrows,
     ReadPermissions, RemoveDest, CopyOpen, CopyWrite, SetPermissions, Go,
     InvertSync, UserStep, Write, Remove, Tick, SetSafeMode, vars
<1>3. ASSUME at # "idle"
      PROVE  /\ UNCHANGED <<Source, Dest>>
             /\ Second(Latest(disk)) <= Second(Latest(disk)')
             /\ Latest(disk) <= Latest(disk)'
             /\ Latest(disk) \in Nat /\ Latest(disk)' \in Nat
             /\ Second(Latest(disk)) \in Nat /\ Second(Latest(disk)') \in Nat
  BY <1>3, LatestGrows, SecondGrows, SecondType
<1>4. CASE at # "idle" /\ UNCHANGED <<at, st>>
  <2>1. at' = "destTime" => st' <= Second(Latest(disk)')
    <3>1. st \in Nat BY Numbers DEF TypeOK
    <3>2. QED BY <1>3, <1>4, <3>1 DEF SourceLater
  <2>2. ASSUME at' \in AfterTests, On(disk', Dest').there, ~SameFile'
        PROVE  Latest(disk)' > On(disk', Dest').time
    <3>1. On(disk', Dest) = On(disk, Dest)
      <4>1. CASE UserStep
        BY <1>3, <1>4, <2>2, <4>1, UserSteps, PutOn
        DEF TypeOK, SameFile, Absent
      <4>2. CASE ~UserStep
        BY <1>4, <4>2, CallMoves, OtherSteps DEF DoSync, On
      <4>3. QED BY <4>1, <4>2
    <3>2. On(disk, Dest).time \in Nat BY Numbers DEF TypeOK
    <3>3. SameFile' <=> SameFile BY <1>3, <1>4 DEF SameFile
    <3>4. QED BY <1>3, <1>4, <2>2, <3>1, <3>2, <3>3 DEF SourceLater
  <2>3. QED BY <2>1, <2>2 DEF SourceLater
<1>5. CASE SourceTime
  <2>1. /\ UNCHANGED <<disk, now, Source>> /\ at' = "destTime"
        /\ st' = Second(On(disk, Source).time)
    BY <1>5 DEF SourceTime, Go
  <2>2. On(disk, Source).time <= now /\ On(disk, Source).time \in 0..MaxTime
    BY FileTypes DEF InTime, On, TypeOK, FileType
  <2>3. On(disk, Source).time <= Latest(disk) /\ Latest(disk) \in 0..MaxTime
    BY <2>2 DEF Latest, TypeOK
  <2>4. st' <= Second(Latest(disk)) BY <2>1, <2>2, <2>3, SecondGrows
  <2>5. Latest(disk)' = Latest(disk) BY <2>1 DEF Latest
  <2>6. QED BY <2>1, <2>4, <2>5 DEF SourceLater, AfterTests
<1>6. CASE DestTime
  <2>1. /\ UNCHANGED <<disk, now, Source, Dest>> /\ at' = "status"
        /\ st > Second(On(disk, Dest).time) /\ at = "destTime"
    BY <1>1, <1>6 DEF DestTime, Go, Return, AfterTests
  <2>2. /\ st \in Nat /\ On(disk, Dest).time \in Nat
        /\ Second(On(disk, Dest).time) \in Nat
    BY Numbers DEF TypeOK
  <2>3. Second(Latest(disk)) > Second(On(disk, Dest).time)
    BY <1>3, <2>1, <2>2 DEF SourceLater
  <2>4. Latest(disk) > On(disk, Dest).time
    BY <1>3, <2>1, <2>2, <2>3, SecondOrder
  <2>5. Latest(disk)' = Latest(disk) /\ On(disk', Dest') = On(disk, Dest)
    BY <2>1 DEF Latest
  <2>6. QED BY <2>1, <2>4, <2>5 DEF SourceLater
<1>7. CASE DestTest \/ RemoveDest
  <2>1. at' \in AfterTests => ~On(disk', Dest').there
    BY <1>7, PutOn DEF DestTest, RemoveDest, CopyError, Go, Return, AfterTests,
       Absent, TypeOK
  <2>2. at' # "destTime"
    BY <1>7 DEF DestTest, RemoveDest, CopyError, Go, Return
  <2>3. QED BY <2>1, <2>2 DEF SourceLater
<1>8. CASE ReadPermissions
  <2>1. /\ UNCHANGED <<disk, now, Source, Dest>> /\ at = "status"
        /\ at' # "destTime"
    BY <1>8 DEF ReadPermissions, Go
  <2>2. /\ Latest(disk)' = Latest(disk) /\ On(disk', Dest') = On(disk, Dest)
        /\ SameFile' <=> SameFile
    BY <2>1 DEF Latest, SameFile
  <2>3. QED BY <2>1, <2>2 DEF SourceLater, AfterTests
<1>9. CASE DoSyncStep
  BY <1>1, <1>5, <1>6, <1>7, <1>8, <1>9 DEF DoSyncStep, SourceMissing,
     SourceThere, StatusThrows, CopyOpen, CopyWrite, SetPermissions, CopyError,
     Return, Go, AfterTests
<1>10. CASE ~DoSyncStep /\ at # "idle"
  BY <1>4, <1>10, UserSteps, OtherSteps DEF DoSync
<1>11. QED BY <1>2, <1>9, <1>10

(* What is written was Source's, and copy_file never finds that there is   *)
(* nothing to update.                                                      *)
LEMMA CopySeenStep ==
  ASSUME OnlySourceWritten, CopyInv, [Next]_vars PROVE CopySeen'
<1> USE DEF CopyInv, IInv
<1>1. CASE CopyOpen
  <2>1. SUFFICES ASSUME at' \in {"write", "permissions"} PROVE CopySeen'
    BY DEF CopySeen
  <2>2. /\ at = "open" /\ On(disk, Source).there
        /\ UNCHANGED <<Source, Dest, seen>>
    BY <1>1, <2>1, CallSteps DEF CopyOpen, CopyError, Return, DoSyncStep
  <2>3. On(disk, Source).content \in seen BY <2>2 DEF SourceSeen
  <2>4. CASE at' = "write"
    <3>1. buffer' = {On(disk, Source).content}
          /\ (On(disk, Dest).there => ~SameFile)
      BY <1>1, <2>4 DEF CopyOpen, CopyError, Return, Go
    <3>2. ~SameFile BY <2>2, <3>1 DEF SameFile, On
    <3>3. QED BY <2>2, <2>3, <2>4, <3>1, <3>2 DEF CopySeen, SameFile
  <2>5. CASE at' = "permissions"
    <3>1. ~Newer /\ On(disk, Dest).there /\ ~SameFile
      BY <1>1, <2>5 DEF CopyOpen, CopyError, Return, Go
    <3>2. Latest(disk) = On(disk, Source).time BY <2>2 DEF Latest
    <3>3. Latest(disk) > On(disk, Dest).time
      BY <2>2, <3>1 DEF SourceLater, AfterTests
    <3>4. QED BY <3>1, <3>2, <3>3 DEF Newer
  <2>6. QED BY <2>1, <2>4, <2>5
<1>2. CASE CopyWrite
  <2>1. /\ at = "write" /\ UNCHANGED <<Source, Dest, seen>>
        /\ buffer \subseteq seen /\ ~SameFile
    BY <1>2, CallSteps DEF CopyWrite, DoSyncStep, CopySeen
  <2>2. SUFFICES ASSUME at' = "permissions", On(disk', Dest').there
                 PROVE  \/ On(disk', Dest').content \in seen'
                        \/ Torn' /\ On(disk', Dest').content = 0
    BY <1>2, <2>1 DEF CopySeen, CopyWrite, Go, CopyError, Return, SameFile
  <2>3. PICK c \in buffer \cup (IF Torn THEN {0} ELSE {}) :
          IF On(disk, Dest).there
            THEN Put(Dest, [there |-> TRUE, content |-> c, time |-> now])
            ELSE UNCHANGED disk
    BY <1>2, <2>2 DEF CopyWrite, CopyError, Return
  <2>4. UNCHANGED buffer BY <1>2, <2>2 DEF CopyWrite, CopyError, Return
  <2>5. On(disk, Dest).there BY <2>1, <2>2, <2>3
  <2>6. On(disk', Dest).content = c BY <2>3, <2>5, PutOn DEF TypeOK
  <2>7. QED BY <2>1, <2>3, <2>4, <2>6 DEF Torn
<1>3. CASE UserStep
  <2>1. /\ UNCHANGED <<Source, Dest, at>>
        /\ at # "idle" => /\ seen' = seen \cup Held(disk')
                          /\ buffer' \subseteq buffer \cup Held(disk')
        /\ at # "write" => UNCHANGED buffer
    BY <1>3, UserSteps
  <2>2. CASE at \notin {"write", "permissions"} BY <2>1, <2>2 DEF CopySeen
  <2>3. CASE at = "write"
    BY <2>1, <2>3 DEF CopySeen, SameFile
  <2>4. CASE at = "permissions"
    <3>1. ~SameFile /\ UNCHANGED buffer BY <2>1, <2>4 DEF CopySeen
    <3>2. On(disk', Dest) = On(disk, Dest) \/ ~On(disk', Dest).there
      BY <1>3, <3>1, UserSteps, PutOn DEF TypeOK, SameFile, Absent
    <3>3. QED BY <2>1, <2>4, <3>1, <3>2 DEF CopySeen, SameFile, Torn
  <2>5. QED BY <2>2, <2>3, <2>4
<1>4. CASE DoSyncStep /\ ~CopyOpen /\ ~CopyWrite
  <2>1. at' \notin {"write", "permissions"}
    BY <1>4 DEF DoSyncStep, SourceMissing, SourceThere, DestTest, SourceTime,
       DestTime, StatusThrows, ReadPermissions, RemoveDest, SetPermissions,
       CopyError, Return, Go
  <2>2. QED BY <2>1 DEF CopySeen
<1>5. CASE DoSync BY <1>5 DEF DoSync, CopySeen
<1>6. CASE ~DoSyncStep /\ ~UserStep /\ ~DoSync
  BY <1>6, OtherSteps DEF CopySeen, On, SameFile, Torn
<1>7. QED BY <1>1, <1>2, <1>3, <1>4, <1>5, <1>6

LEMMA CopyInit == Init => CopyInv
<1> SUFFICES ASSUME Init PROVE CopyInv OBVIOUS
<1>1. IInv BY TypeInit
<1>2. InTime
  <2>1. \A f \in File : disk[f].time = 0 \/ disk[f].time = now
    BY DEF Init, Absent
  <2>2. QED BY <1>1, <2>1 DEF InTime, IInv, TypeOK
<1>3. SourceSeen /\ CopySeen BY DEF Init, SourceSeen, CopySeen, Held
<1>4. SourceLater BY DEF Init, SourceLater, AfterTests
<1>5. QED BY <1>1, <1>2, <1>3, <1>4 DEF CopyInv

LEMMA CopyInvariant == ASSUME OnlySourceWritten PROVE Spec => []CopyInv
<1>1. CopyInv /\ [Next]_vars => CopyInv'
  BY IStep, InTimeStep, SourceSeenStep, SourceLaterStep, CopySeenStep
  DEF CopyInv
<1>2. QED BY <1>1, CopyInit, PTL DEF Spec

(* SYNC_DONE is true: Dest holds, whole, something that Source held during *)
(* the call, however often the user has written Source and removed either  *)
(* file since, whatever failed, and even if both paths name one file; or a *)
(* mixture, if he wrote Source in place while copy_file had it open.       *)
THEOREM DoneIsTrue == ASSUME OnlySourceWritten PROVE Spec => DoneMeansCopied
<1>1. ASSUME CopyInv, [Next]_vars, Returns, ret' = "SYNC_DONE"
      PROVE  \/ On(disk', Dest).content \in seen
             \/ Torn /\ On(disk', Dest).content = 0
  <2>1. DoSyncStep
    BY <1>1, UserSteps, OtherSteps DEF Returns, DoSync, CopyInv, IInv
  <2>2. SetPermissions /\ ~CopyError
    BY <1>1, <2>1 DEF DoSyncStep, SourceMissing, SourceThere, DestTest,
       SourceTime, DestTime, StatusThrows, ReadPermissions, RemoveDest,
       CopyOpen, CopyWrite, SetPermissions, CopyError, Return, Go, Returns
  <2>3. at = "permissions" /\ On(disk, Dest).there /\ UNCHANGED disk
    BY <2>2 DEF SetPermissions
  <2>4. QED BY <1>1, <2>3 DEF CopyInv, CopySeen
<1>2. QED BY <1>1, CopyInvariant, PTL DEF Spec, DoneMeansCopied

-----------------------------------------------------------------------------
(* The orderly user writes Source, and removes files, only between calls   *)
(* and in a later second than Dest was written; nothing fails, and the     *)
(* owner does not call InvertSync.                                         *)
OrderlyUser == OnlySourceWritten /\ Orderly

LaterSecond ==
  Second(On(disk, Source).time) > Second(On(disk, Dest).time)
BothThere == On(disk, Source).there /\ On(disk, Dest).there

(* What DoSync has found stays true while it runs.                         *)
FoundInv ==
  /\ at \notin {"idle", "source"} => On(disk, Source).there
  /\ at \in {"sourceTime", "destTime"} => On(disk, Dest).there
  /\ at = "destTime" => st = Second(On(disk, Source).time)
  /\ at \in AfterTests /\ On(disk, Dest).there => LaterSecond
  /\ at = "write" => buffer = {On(disk, Source).content}
  /\ at \in {"write", "permissions"} => ~SameFile

(* Outside a copy, files that differ are a second apart, Source the later. *)
ApartInv ==
  BothThere /\ at # "write" =>
    LaterSecond \/ On(disk, Dest).content = On(disk, Source).content

OrderlyInv == CopyInv /\ FoundInv /\ ApartInv

(* Nothing but DoSync happens during a call.                               *)
LEMMA CallAlone ==
  ASSUME OrderlyUser, [Next]_vars, at # "idle", ~DoSyncStep
  PROVE  UNCHANGED <<disk, Source, Dest, at, st, buffer>>
BY DEF OrderlyUser, Orderly, Next, DoSync, InvertSync, SetSafeMode, UserStep,
   Write, Remove, MayTouch, Tick, vars

(* One file is not a second later than itself.                             *)
LEMMA LaterIsOther ==
  ASSUME TypeOK, LaterSecond \/ (BothThere # On(disk, Source).there)
  PROVE  ~SameFile
<1> SUFFICES ASSUME SameFile PROVE FALSE OBVIOUS
<1>1. On(disk, Source) = On(disk, Dest) BY DEF SameFile, On
<1>2. On(disk, Source).there \in BOOLEAN BY Numbers DEF TypeOK
<1>3. LaterSecond BY <1>1, <1>2 DEF BothThere
<1>4. Second(On(disk, Source).time) \in Nat BY Numbers DEF TypeOK
<1>5. QED BY <1>1, <1>3, <1>4 DEF LaterSecond

(* The parts of the invariant that the steps below use.                    *)
LEMMA OrderlyParts ==
  ASSUME OrderlyInv
  PROVE  /\ TypeOK /\ PairInv /\ FoundInv /\ ApartInv
         /\ Source \in Path /\ Dest \in Path
BY DEF OrderlyInv, CopyInv, IInv, TypeOK

(* A call keeps what it has found, and writes Dest only after finding it   *)
(* older than Source.                                                      *)
LEMMA FoundStep ==
  ASSUME OrderlyUser, OrderlyInv, DoSyncStep PROVE FoundInv'
<1> USE DEF Return, Go
<1>0. /\ TypeOK /\ FoundInv /\ Source \in Path /\ Dest \in Path
      /\ UNCHANGED <<Source, Dest>> /\ ~user.fails
  BY OrderlyParts, CallSteps DEF OrderlyUser, Orderly
<1>1. CASE SourceMissing BY <1>1 DEF SourceMissing, FoundInv, AfterTests
<1>2. CASE SourceThere BY <1>2 DEF SourceThere, FoundInv, AfterTests
<1>3. CASE DestTest BY <1>0, <1>3 DEF DestTest, FoundInv, AfterTests
<1>4. CASE SourceTime BY <1>0, <1>4 DEF SourceTime, FoundInv, AfterTests
<1>5. CASE DestTime
  BY <1>0, <1>5 DEF DestTime, FoundInv, AfterTests, LaterSecond
<1>6. CASE StatusThrows BY <1>0, <1>6 DEF StatusThrows
<1>7. CASE ReadPermissions
  BY <1>0, <1>7 DEF ReadPermissions, FoundInv, AfterTests, LaterSecond
<1>8. CASE RemoveDest
  <2>1. at = "remove" /\ at' = "open" /\ Put(Dest, Absent)
    BY <1>0, <1>8 DEF RemoveDest
  <2>2. ~SameFile /\ On(disk, Source).there
    <3>1. On(disk, Source).there /\ (On(disk, Dest).there => LaterSecond)
      BY <1>0, <2>1 DEF FoundInv, AfterTests
    <3>2. QED BY <1>0, <3>1, LaterIsOther DEF BothThere
  <2>3. On(disk', Source).there /\ ~On(disk', Dest).there
    BY <1>0, <2>1, <2>2, PutOn DEF SameFile, Absent
  <2>4. QED BY <1>0, <2>1, <2>3 DEF FoundInv, AfterTests
<1>9. CASE CopyOpen
  <2>1. /\ at = "open" /\ On(disk, Source).there
        /\ On(disk, Dest).there => LaterSecond
    BY <1>0, <1>9 DEF CopyOpen, FoundInv, AfterTests
  <2>2. ~SameFile BY <1>0, <2>1, LaterIsOther DEF BothThere
  <2>3. CASE at' = "idle" BY <2>3 DEF FoundInv, AfterTests
  <2>4. CASE at' = "permissions"
    <3>1. UNCHANGED disk BY <1>9, <2>4 DEF CopyOpen, CopyError
    <3>2. QED
      BY <1>0, <2>1, <2>2, <2>4, <3>1 DEF FoundInv, AfterTests, SameFile
  <2>5. CASE at' = "write"
    <3>1. PICK f : Put(Dest, f) BY <1>9, <2>5 DEF CopyOpen, CopyError
    <3>2. On(disk', Source) = On(disk, Source)
      BY <1>0, <2>2, <3>1, PutOn DEF SameFile
    <3>3. buffer' = {On(disk, Source).content}
      BY <1>9, <2>5 DEF CopyOpen, CopyError
    <3>4. QED
      BY <1>0, <2>1, <2>2, <2>5, <3>2, <3>3 DEF FoundInv, AfterTests, SameFile
  <2>6. QED BY <1>9, <2>3, <2>4, <2>5 DEF CopyOpen, CopyError
<1>10. CASE CopyWrite
  <2>1. /\ at = "write" /\ at' = "permissions"
        /\ On(disk, Source).there /\ ~SameFile
    BY <1>0, <1>10 DEF CopyWrite, FoundInv
  <2>2. CASE UNCHANGED disk
    BY <1>0, <2>1, <2>2 DEF FoundInv, AfterTests, SameFile
  <2>3. ASSUME NEW f, Put(Dest, f) PROVE FoundInv'
    <3>1. On(disk', Source) = On(disk, Source)
      BY <1>0, <2>1, <2>3, PutOn DEF SameFile
    <3>2. QED BY <1>0, <2>1, <3>1 DEF FoundInv, AfterTests, SameFile
  <2>4. QED BY <1>0, <1>10, <2>2, <2>3 DEF CopyWrite
<1>11. CASE SetPermissions
  BY <1>11 DEF SetPermissions, CopyError, FoundInv, AfterTests
<1>12. QED
  BY <1>1, <1>2, <1>3, <1>4, <1>5, <1>6, <1>7, <1>8, <1>9, <1>10, <1>11
  DEF DoSyncStep

(* The copy ends with equal contents.                                      *)
LEMMA ApartStep ==
  ASSUME OrderlyUser, OrderlyInv, DoSyncStep PROVE ApartInv'
<1>0. /\ TypeOK /\ FoundInv /\ ApartInv /\ Source \in Path /\ Dest \in Path
      /\ UNCHANGED <<Source, Dest>> /\ ~user.fails
  BY OrderlyParts, CallSteps DEF OrderlyUser, Orderly
<1>1. CASE UNCHANGED disk /\ at # "write"
  BY <1>0, <1>1 DEF ApartInv, BothThere, LaterSecond
<1>2. CASE RemoveDest
  <2>1. Put(Dest, Absent) BY <1>0, <1>2 DEF RemoveDest
  <2>2. ~On(disk', Dest').there BY <1>0, <2>1, PutOn DEF Absent
  <2>3. QED BY <2>2 DEF ApartInv, BothThere
<1>3. CASE CopyOpen
  BY <1>1, <1>3 DEF CopyOpen, CopyError, Go, ApartInv
<1>4. CASE CopyWrite
  <2>1. /\ ~SameFile
        /\ buffer \cup (IF Torn THEN {0} ELSE {}) = {On(disk, Source).content}
    BY <1>0, <1>4 DEF CopyWrite, FoundInv, Torn
  <2>2. CASE ~On(disk, Dest).there
    BY <1>0, <1>4, <2>2 DEF CopyWrite, ApartInv, BothThere
  <2>3. CASE On(disk, Dest).there
    <3>1. Put(Dest, [there |-> TRUE, content |-> On(disk, Source).content,
                     time |-> now])
      BY <1>0, <1>4, <2>1, <2>3 DEF CopyWrite
    <3>2. /\ On(disk', Dest).content = On(disk, Source).content
          /\ On(disk', Source) = On(disk, Source)
      BY <1>0, <2>1, <3>1, PutOn DEF SameFile
    <3>3. QED BY <1>0, <2>1, <3>2 DEF ApartInv
  <2>4. QED BY <2>2, <2>3
<1>5. CASE DoSyncStep /\ UNCHANGED disk /\ at = "write"
  BY <1>4, <1>5 DEF DoSyncStep, SourceMissing, SourceThere, DestTest,
     SourceTime, DestTime, StatusThrows, ReadPermissions, RemoveDest, CopyOpen,
     SetPermissions, Go
<1>6. CASE ~UNCHANGED disk
  BY <1>2, <1>3, <1>4, <1>6 DEF DoSyncStep, SourceMissing, SourceThere,
     DestTest, SourceTime, DestTime, StatusThrows, ReadPermissions,
     SetPermissions
<1>7. QED BY <1>1, <1>5, <1>6

(* A Source written in a later second than Dest's is a second later.       *)
LEMMA UserApart ==
  ASSUME OrderlyUser, OrderlyInv, UserStep PROVE FoundInv' /\ ApartInv'
<1>0. TypeOK /\ Source \in Path /\ Dest \in Path BY OrderlyParts
<1>1. at = "idle" /\ UNCHANGED <<at, Source, Dest>>
  BY DEF OrderlyUser, Orderly, UserStep, Write, Remove, MayTouch
<1>2. FoundInv' BY <1>1 DEF FoundInv, AfterTests
<1>3. PICK p \in {Source, Dest} : (p = Source /\ Write(p)) \/ Remove(p)
  BY DEF UserStep, Named, OrderlyUser, OnlySourceWritten
<1>4. CASE p = Source /\ Write(p)
  <2>1. Put(Source, [there |-> TRUE, content |-> written', time |-> now])
        /\ Second(now) > Second(On(disk, Dest).time)
    BY <1>4 DEF Write, MayTouch, Second, OrderlyUser, Orderly
  <2>2. CASE SameFile
    <3>1. On(disk', Dest') = On(disk', Source') BY <1>1, <2>2 DEF SameFile, On
    <3>2. QED BY <1>2, <3>1 DEF ApartInv
  <2>3. CASE ~SameFile
    <3>1. On(disk', Source).time = now /\ On(disk', Dest) = On(disk, Dest)
      BY <1>0, <2>1, <2>3, PutOn DEF SameFile
    <3>2. LaterSecond' BY <1>1, <2>1, <3>1 DEF LaterSecond, Second
    <3>3. QED BY <1>2, <3>2 DEF ApartInv
  <2>4. QED BY <2>2, <2>3
<1>5. CASE Remove(p)
  <2>1. Put(p, Absent) /\ p \in Path BY <1>0, <1>5 DEF Remove
  <2>2. ~On(disk', p).there BY <1>0, <2>1, PutOn DEF Absent
  <2>3. ~BothThere' BY <1>1, <2>2 DEF BothThere
  <2>4. QED BY <1>2, <2>3 DEF ApartInv
<1>6. QED BY <1>3, <1>4, <1>5

(* A user stays the one he is.                                             *)
LEMMA SameUser == [Next]_vars => UNCHANGED user
  BY DEF Next, vars

LEMMA OrderlyInvariant ==
  ASSUME OnlySourceWritten PROVE Spec => [](Orderly => OrderlyInv)
<1> DEFINE Inv == Orderly => FoundInv /\ ApartInv
<1>1. Init => Inv
  <2> SUFFICES ASSUME Init PROVE FoundInv /\ ApartInv OBVIOUS
  <2>1. FoundInv BY DEF Init, FoundInv, AfterTests
  <2>2. IInv BY TypeInit
  <2>3. On(disk, Dest).there => On(disk, Dest).content = 1
    BY <2>2, FileTypes DEF Init, On, Absent, IInv, TypeOK
  <2>4. On(disk, Source).there => On(disk, Source).content = 1
    BY <2>2, FileTypes DEF Init, On, Absent, IInv, TypeOK
  <2>5. QED BY <2>1, <2>3, <2>4 DEF ApartInv, BothThere
<1>2. CopyInv /\ Inv /\ [Next]_vars => Inv'
  <2> SUFFICES ASSUME CopyInv, Inv, [Next]_vars, Orderly'
               PROVE  FoundInv' /\ ApartInv'
    OBVIOUS
  <2>1. OrderlyUser /\ OrderlyInv
    BY SameUser DEF Orderly, OrderlyUser, OrderlyInv
  <2>2. CASE DoSyncStep BY <2>1, <2>2, FoundStep, ApartStep
  <2>3. CASE UserStep BY <2>1, <2>3, UserApart
  <2>4. CASE ~DoSyncStep /\ ~UserStep
    <3>1. UNCHANGED <<disk, Source, Dest>> /\ (at # "write" => at' # "write")
      BY <2>1, <2>4, OtherSteps DEF DoSync, OrderlyUser, Orderly, Next,
         InvertSync, SetSafeMode, Tick, vars
    <3>2. at' \notin {"idle", "source"} => UNCHANGED <<at, st, buffer>>
      BY <2>4, OtherSteps DEF DoSync
    <3>3. FoundInv'
      BY <2>1, <3>1, <3>2
      DEF OrderlyInv, FoundInv, AfterTests, LaterSecond, SameFile
    <3>4. ApartInv'
      BY <2>1, <2>4, <3>1, OtherSteps DEF OrderlyInv, ApartInv, BothThere,
         LaterSecond, DoSync
    <3>5. QED BY <3>3, <3>4
  <2>5. QED BY <2>2, <2>3, <2>4
<1>3. Spec => []CopyInv BY CopyInvariant
<1>4. CopyInv /\ Inv => (Orderly => OrderlyInv) BY DEF OrderlyInv
<1>5. QED BY <1>1, <1>2, <1>3, <1>4, PTL DEF Spec

(* For the orderly user SYNC_NO_NEEDED is true: Dest holds what Source     *)
(* holds, although only whole seconds are compared.                        *)
THEOREM NoNeedIsTrue == ASSUME OnlySourceWritten PROVE Spec => NoNeedIfOrderly
<1>1. ASSUME Orderly => OrderlyInv, [Next]_vars,
             Orderly, Returns, ret' = "SYNC_NO_NEEDED"
      PROVE  On(disk, Dest).content = On(disk, Source).content
  <2>1. TypeOK /\ FoundInv /\ ApartInv /\ Source \in Path /\ Dest \in Path
    BY <1>1, OrderlyParts
  <2>2. DoSyncStep BY <1>1, CallAlone DEF Returns, OrderlyUser
  <2>3. /\ at = "destTime" /\ ~(st > Second(On(disk, Dest).time))
    BY <1>1, <2>2 DEF DoSyncStep, SourceMissing, SourceThere, DestTest,
       SourceTime, DestTime, StatusThrows, ReadPermissions, RemoveDest,
       CopyOpen, CopyWrite, SetPermissions, CopyError, Return, Go, Returns
  <2>4. BothThere /\ ~LaterSecond
    BY <2>1, <2>3 DEF FoundInv, BothThere, LaterSecond
  <2>5. QED BY <2>1, <2>3, <2>4 DEF ApartInv
<1>2. QED
  BY <1>1, OrderlyInvariant, PTL DEF Spec, NoNeedIfOrderly, NoNeedIsRight

(* For the orderly user two paths of one file are harmless: no call        *)
(* removes or truncates it.                                                *)
THEOREM AliasIsSafe ==
  ASSUME OnlySourceWritten PROVE Spec => AliasUntouched
<1>1. ASSUME Orderly => OrderlyInv, [Next]_vars, Orderly, at # "idle", at' # at, SameFile
      PROVE  UNCHANGED disk
  <2>1. TypeOK /\ FoundInv BY <1>1, OrderlyParts
  <2>2. DoSyncStep BY <1>1, CallAlone DEF OrderlyUser
  <2>3. at \notin {"remove", "open", "write"}
    <3>1. ASSUME at \in AfterTests PROVE FALSE
      <4>1. On(disk, Source).there /\ (On(disk, Dest).there => LaterSecond)
        BY <2>1, <3>1 DEF FoundInv, AfterTests
      <4>2. QED BY <1>1, <2>1, <4>1, LaterIsOther DEF BothThere
    <3>2. QED BY <1>1, <2>1, <3>1 DEF FoundInv, AfterTests
  <2>4. QED
    BY <2>2, <2>3 DEF DoSyncStep, SourceMissing, SourceThere, DestTest,
       SourceTime, DestTime, StatusThrows, ReadPermissions, RemoveDest,
       CopyOpen, CopyWrite, SetPermissions
<1>2. QED
  BY <1>1, OrderlyInvariant, PTL DEF Spec, AliasUntouched, AliasLeftAlone

=============================================================================
