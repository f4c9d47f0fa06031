-------------------------- MODULE PathWatchProofs ---------------------------
(***************************************************************************)
(* Proofs about PathWatch for every set of names, any number of changes of *)
(* the disk, also between the file operations of Check, and of stops.      *)
(***************************************************************************)
EXTENDS PathWatch, TLAPS

(* TypeOK in two parts, with the clock, which is never ahead of the        *)
(* changes, so that times stay in Time.                                    *)
FlagsInv ==
  /\ IsDirectory \in BOOLEAN /\ FirstScan \in BOOLEAN
  /\ LastExists \in BOOLEAN /\ Stop \in BOOLEAN /\ crashed \in BOOLEAN
  /\ calm \in BOOLEAN /\ settled \in BOOLEAN

DataInv ==
  /\ root \in {"none", "file", "dir"} /\ rootTime \in Time
  /\ files \in [Names -> Time] /\ now \in Time /\ changes \in 0..MaxChanges
  /\ LastWriteTime \in Time
  /\ LastChangeStatus \in Statuses /\ DirScanResult \in [Names -> Time]
  /\ stops \in 0..MaxStops
  /\ at \in {"idle", "firstOpen", "first", "exists", "time", "erased", "scan"}
  /\ todo \subseteq Names /\ opened \subseteq Names /\ visited \subseteq Names
  /\ ret \in Statuses /\ told \in Statuses
  /\ now <= changes + 1

TypeInv == FlagsInv /\ DataInv

(* What the tests Check has passed have told it.                           *)
PlaceInv ==
  /\ at \in {"firstOpen", "first"} => IsDirectory /\ FirstScan
  /\ at = "first" => LastExists
  /\ at \in {"exists", "time", "erased", "scan"} => ~(IsDirectory /\ FirstScan)
  /\ at \in {"time", "erased", "scan"} => LastExists /\ (calm => Exists)
  /\ at = "time" => ~IsDirectory
  /\ at \in {"erased", "scan"} => IsDirectory
  /\ at = "erased" => \A n \in todo : DirScanResult[n] # 0

(* While nothing changes, the names that were tested are on the disk, and  *)
(* those the iterator returned are remembered as they are.                 *)
ScanInv ==
  calm =>
    /\ at = "erased" => \A n \in Names : DirScanResult[n] = 0 \/ n \in todo \/ There(n)
    /\ at = "scan" =>
         /\ root = "dir"
         /\ \A n \in Names : /\ n \in opened <=> files[n] # 0
                             /\ files[n] = 0 => DirScanResult[n] = 0
                             /\ n \in visited => DirScanResult[n] = files[n]

(* What the watch remembers is on the disk ...                             *)
Known ==
  /\ LastExists <=> Exists
  /\ ~(IsDirectory /\ FirstScan)
  /\ IsDirectory /\ Exists => root = "dir" /\ DirScanResult = files
  /\ ~IsDirectory /\ Exists => LastWriteTime = rootTime

(* ... after a Check that found no change, unless the path was never there *)
(* and is not looked for again.                                            *)
SettledInv ==
  settled => calm /\ (Known \/ (IsDirectory /\ FirstScan /\ ~LastExists))

IInv == TypeInv /\ PlaceInv /\ ScanInv /\ SettledInv

USE DEF disk, memory, request, scan, answer

-----------------------------------------------------------------------------
(* The first states have the invariant.                                    *)
LEMMA Initially == Init => IInv
<1> SUFFICES ASSUME Init PROVE IInv OBVIOUS
<1>1. FlagsInv
  <2>1. IsDirectory \in BOOLEAN BY Zenon DEF Init
  <2>2. LastExists \in BOOLEAN BY Zenon DEF Init, Exists
  <2> QED BY <2>1, <2>2, Zenon DEF Init, FlagsInv
<1>2. DataInv
  BY BoundsAssumption DEF Init, DataInv, Time, Nothing, Statuses, FirstStatus,
     Exists
<1>3. PlaceInv /\ ScanInv /\ SettledInv
  BY DEF Init, PlaceInv, ScanInv, SettledInv
<1> QED BY <1>1, <1>2, <1>3 DEF IInv, TypeInv

(* Flags stay Boolean.                                                     *)
LEMMA FlagsStep == FlagsInv /\ [Next]_vars => FlagsInv'
<1> SUFFICES ASSUME FlagsInv, [Next]_vars PROVE FlagsInv' OBVIOUS
<1> USE DEF FlagsInv
<1>1. CASE Begin
  BY <1>1, Zenon DEF Begin, Go
<1>2. CASE FirstOpen
  BY <1>2, Zenon DEF FirstOpen, Answer, Open, Go, Crash
<1>3. CASE FirstEntry
  BY <1>3, Zenon DEF FirstEntry, Answer, Go, Crash
<1>4. CASE ExistsTest
  BY <1>4, Zenon DEF ExistsTest, Exists, Return, Answer, Go
<1>5. CASE FileTime
  BY <1>5, Zenon DEF FileTime, Return, Answer
<1>6. CASE ErasedEntry
  BY <1>6, Zenon DEF ErasedEntry, Return, Answer, Go
<1>7. CASE ScanOpen
  BY <1>7, Zenon DEF ScanOpen, ScanThrows, Return, Answer, Open, Go
<1>8. CASE ScanEntry
  <2>1. UNCHANGED <<FirstScan, LastExists, IsDirectory, Stop, crashed, calm>>
    BY <1>8 DEF ScanEntry, ScanThrows, Return, Answer, Go
  <2>2. settled' \in BOOLEAN
    BY <1>8, Zenon DEF ScanEntry, ScanThrows, Return, Answer, Go
  <2> QED BY <2>1, <2>2, Zenon
<1>9. ASSUME NEW n \in Names, WriteEntry(n) PROVE FlagsInv'
  BY <1>9, Zenon DEF WriteEntry, Change
<1>10. ASSUME NEW n \in Names, RemoveEntry(n) PROVE FlagsInv'
  BY <1>10, Zenon DEF RemoveEntry, Change
<1>11. CASE RemovePath
  BY <1>11, Zenon DEF RemovePath, Change, Nothing
<1>12. CASE WritePath
  BY <1>12, Zenon DEF WritePath, Change
<1>13. CASE SetStop
  BY <1>13, Zenon DEF SetStop
<1>14. CASE Start
  BY <1>14, Zenon DEF Start
<1>15. CASE UNCHANGED vars
  BY <1>15, Zenon DEF vars
<1> QED
  BY <1>1, <1>2, <1>3, <1>4, <1>5, <1>6, <1>7, <1>8,
     <1>9, <1>10, <1>11, <1>12, <1>13, <1>14, <1>15, Zenon
     DEF Next, CheckStep, User

(* Names and times keep to their types.                                    *)
LEMMA DataStep == DataInv /\ [Next]_vars => DataInv'
<1> SUFFICES ASSUME DataInv, [Next]_vars PROVE DataInv' OBVIOUS
<1> USE BoundsAssumption DEF DataInv, Time, Statuses
<1>1. CASE Begin
  BY <1>1 DEF Begin, Go
<1>2. CASE FirstOpen
  BY <1>2 DEF FirstOpen, Answer, Open, Go, Crash, Held
<1>3. CASE FirstEntry
  BY <1>3 DEF FirstEntry, Answer, Go, Crash, Candidates
<1>4. CASE ExistsTest
  BY <1>4 DEF ExistsTest, Return, Answer, Go, Held, Exists, Back
<1>5. CASE FileTime
  BY <1>5 DEF FileTime, Return, Answer
<1>6. CASE ErasedEntry
  BY <1>6 DEF ErasedEntry, Return, Answer, Go
<1>7. CASE ScanOpen
  BY <1>7 DEF ScanOpen, ScanThrows, Return, Answer, Open, Go, Held
<1>8. CASE ScanEntry
  BY <1>8 DEF ScanEntry, ScanThrows, Return, Answer, Go, Candidates
<1>9. ASSUME NEW n \in Names, WriteEntry(n) PROVE DataInv'
  BY <1>9 DEF WriteEntry, Change
<1>10. ASSUME NEW n \in Names, RemoveEntry(n) PROVE DataInv'
  BY <1>10 DEF RemoveEntry, Change
<1>11. CASE RemovePath
  BY <1>11 DEF RemovePath, Change, Nothing
<1>12. CASE WritePath
  BY <1>12 DEF WritePath, Change
<1>13. CASE SetStop
  BY <1>13 DEF SetStop
<1>14. CASE Start
  BY <1>14 DEF Start
<1>15. CASE UNCHANGED vars
  BY <1>15 DEF vars
<1> QED
  BY <1>1, <1>2, <1>3, <1>4, <1>5, <1>6, <1>7, <1>8,
     <1>9, <1>10, <1>11, <1>12, <1>13, <1>14, <1>15
     DEF Next, CheckStep, User

(* A Check that returns knows nothing of the tests it has passed.          *)
LEMMA Returned == at' = "idle" => PlaceInv' /\ ScanInv'
  BY DEF PlaceInv, ScanInv

(* Check goes where its tests send it.                                     *)
LEMMA PlaceStep == IInv /\ [Next]_vars => PlaceInv'
<1> SUFFICES ASSUME IInv, [Next]_vars PROVE PlaceInv' OBVIOUS
<1> USE DEF IInv, TypeInv, FlagsInv, DataInv, PlaceInv, Exists
<1>1. CASE Begin
  BY <1>1 DEF Begin, Go
<1>2. CASE FirstOpen
  BY <1>2 DEF FirstOpen, Answer, Open, Go, Crash, Held
<1>3. CASE FirstEntry
  BY <1>3 DEF FirstEntry, Answer, Go, Crash, Candidates
<1>4. CASE ExistsTest
  BY <1>4 DEF ExistsTest, Return, Answer, Go, Held, Back
<1>5. CASE FileTime
  BY <1>5 DEF FileTime, Return, Answer
<1>6. CASE ErasedEntry
  <2>1. at' = "idle" \/ (/\ at = "erased" /\ Go("erased") /\ UNCHANGED <<FirstScan, calm>>
                         /\ DirScanResult' = DirScanResult /\ todo' \subseteq todo)
    BY <1>6 DEF ErasedEntry, Return, Answer
  <2> QED BY <2>1, Returned DEF Go
<1>7. CASE ScanOpen
  <2>1. at' = "idle" \/ (at = "erased" /\ Go("scan") /\ UNCHANGED <<FirstScan, calm>>)
    BY <1>7 DEF ScanOpen, ScanThrows, Return, Answer, Open
  <2> QED BY <2>1, Returned DEF Go
<1>8. CASE ScanEntry
  <2>1. at' = "idle" \/ (at = "scan" /\ Go("scan") /\ UNCHANGED <<FirstScan, calm>>)
    BY <1>8 DEF ScanEntry, ScanThrows, Return, Answer
  <2> QED BY <2>1, Returned DEF Go
<1>9. ASSUME NEW n \in Names, WriteEntry(n) PROVE PlaceInv'
  BY <1>9 DEF WriteEntry, Change
<1>10. ASSUME NEW n \in Names, RemoveEntry(n) PROVE PlaceInv'
  BY <1>10 DEF RemoveEntry, Change
<1>11. CASE RemovePath
  BY <1>11 DEF RemovePath, Change, Nothing
<1>12. CASE WritePath
  BY <1>12 DEF WritePath, Change
<1>13. CASE SetStop
  BY <1>13 DEF SetStop
<1>14. CASE Start
  BY <1>14 DEF Start
<1>15. CASE UNCHANGED vars
  BY <1>15 DEF vars
<1> QED
  BY <1>1, <1>2, <1>3, <1>4, <1>5, <1>6, <1>7, <1>8,
     <1>9, <1>10, <1>11, <1>12, <1>13, <1>14, <1>15
     DEF Next, CheckStep, User

(* A scan that nothing disturbs learns what is on the disk.                *)
LEMMA ScanStep == IInv /\ [Next]_vars => ScanInv'
<1> SUFFICES ASSUME IInv, [Next]_vars PROVE ScanInv' OBVIOUS
<1> USE DEF IInv, TypeInv, FlagsInv, DataInv, PlaceInv, Exists, ScanInv, There
<1>1. CASE Begin
  BY <1>1 DEF Begin, Go
<1>2. CASE FirstOpen
  BY <1>2 DEF FirstOpen, Answer, Open, Go, Crash, Held
<1>3. CASE FirstEntry
  BY <1>3 DEF FirstEntry, Answer, Go, Crash, Candidates, NoneLeft
<1>4. CASE ExistsTest
  BY <1>4 DEF ExistsTest, Return, Answer, Go, Held, Back
<1>5. CASE FileTime
  BY <1>5 DEF FileTime, Return, Answer
<1>6. CASE ErasedEntry
  BY <1>6 DEF ErasedEntry, Return, Answer, Go, Held
<1>7. CASE ScanOpen
  BY <1>7 DEF ScanOpen, ScanThrows, Return, Answer, Open, Go, Held
<1>8. CASE ScanEntry
  <2>1. CASE at' = "idle" BY <2>1, Returned
  <2>2. CASE at' # "idle"
    <3>1. PICK n \in Candidates :
            /\ There(n) /\ DirScanResult[n] = files[n] /\ visited' = visited \cup {n}
            /\ at = "scan" /\ Go("scan") /\ UNCHANGED <<DirScanResult, opened, calm>>
      BY <1>8, <2>2 DEF ScanEntry, ScanThrows, Return, Answer, Differs
    <3> QED BY <3>1 DEF Go, Candidates
  <2> QED BY <2>1, <2>2
<1>9. ASSUME NEW n \in Names, WriteEntry(n) PROVE ScanInv'
  BY <1>9 DEF WriteEntry, Change
<1>10. ASSUME NEW n \in Names, RemoveEntry(n) PROVE ScanInv'
  BY <1>10 DEF RemoveEntry, Change
<1>11. CASE RemovePath
  BY <1>11 DEF RemovePath, Change, Nothing
<1>12. CASE WritePath
  BY <1>12 DEF WritePath, Change
<1>13. CASE SetStop
  BY <1>13 DEF SetStop
<1>14. CASE Start
  BY <1>14 DEF Start
<1>15. CASE UNCHANGED vars
  BY <1>15 DEF vars
<1> QED
  BY <1>1, <1>2, <1>3, <1>4, <1>5, <1>6, <1>7, <1>8,
     <1>9, <1>10, <1>11, <1>12, <1>13, <1>14, <1>15
     DEF Next, CheckStep, User

(* Only a return of NONE makes the watch settled.                          *)
LEMMA Reported ==
  ASSUME NEW status, status # "NONE", Return(status)
  PROVE  (settled' => settled) /\ UNCHANGED <<disk, IsDirectory, calm>>
  BY Zenon DEF Return, Answer

(* A settled watch stays right until the disk changes.                     *)
LEMMA SettledStep == IInv /\ [Next]_vars => SettledInv'
<1> SUFFICES ASSUME IInv, [Next]_vars PROVE SettledInv' OBVIOUS
<1> USE DEF IInv, TypeInv, FlagsInv, DataInv, PlaceInv, Exists, ScanInv, There, SettledInv, Known
<1>1. CASE Begin
  BY <1>1 DEF Begin, Go
<1>2. CASE FirstOpen
  BY <1>2 DEF FirstOpen, Answer, Open, Go, Crash, Held
<1>3. CASE FirstEntry
  BY <1>3 DEF FirstEntry, Answer, Go, Crash, Candidates, NoneLeft
<1>4. CASE ExistsTest
  BY <1>4 DEF ExistsTest, Return, Answer, Go, Held, Back
<1>5. CASE FileTime
  BY <1>5 DEF FileTime, Return, Answer
<1>6. CASE ErasedEntry
  <2>1. /\ at = "erased" /\ UNCHANGED <<FirstScan, LastExists, LastWriteTime>>
        /\ Return("ERASED") \/ Return("STOPPED_FROM_REQUEST") \/ (Go("erased") /\ UNCHANGED calm)
    BY <1>6 DEF ErasedEntry, Go
  <2>2. /\ settled' => settled
        /\ UNCHANGED <<disk, IsDirectory, calm>>
    <3>1. CASE Return("ERASED") BY <3>1, Reported
    <3>2. CASE Return("STOPPED_FROM_REQUEST") BY <3>2, Reported
    <3>3. CASE Go("erased") /\ UNCHANGED calm BY <3>3 DEF Go
    <3> QED BY <2>1, <3>1, <3>2, <3>3
  <2>3. Known => DirScanResult' = DirScanResult
    <3>1. SUFFICES ASSUME Known PROVE DirScanResult' = DirScanResult OBVIOUS
    <3>2. \A n \in todo : There(n) BY <2>1, <3>1
    <3> QED BY <1>6, <3>2 DEF ErasedEntry
  <2> QED BY <2>1, <2>2, <2>3
<1>7. CASE ScanOpen
  BY <1>7 DEF ScanOpen, ScanThrows, Return, Answer, Open, Go, Held
<1>8. CASE ScanEntry
  <2>1. /\ UNCHANGED <<disk, IsDirectory, FirstScan, LastExists, LastWriteTime, calm>>
        /\ at = "scan"
    BY <1>8 DEF ScanEntry, ScanThrows, Return, Answer, Go
  <2>2. \/ settled' => settled
        \/ NoneLeft /\ calm /\ DirScanResult' = DirScanResult /\ settled'
    BY <1>8 DEF ScanEntry, ScanThrows, Return, Answer, Go
  <2>3. NoneLeft /\ calm => Known BY <2>1 DEF NoneLeft
  <2>4. Known => DirScanResult' = DirScanResult
    BY <1>8 DEF ScanEntry, ScanThrows, Differs, Candidates
  <2> QED BY <2>1, <2>2, <2>3, <2>4
<1>9. ASSUME NEW n \in Names, WriteEntry(n) PROVE SettledInv'
  BY <1>9 DEF WriteEntry, Change
<1>10. ASSUME NEW n \in Names, RemoveEntry(n) PROVE SettledInv'
  BY <1>10 DEF RemoveEntry, Change
<1>11. CASE RemovePath
  BY <1>11 DEF RemovePath, Change, Nothing
<1>12. CASE WritePath
  BY <1>12 DEF WritePath, Change
<1>13. CASE SetStop
  BY <1>13 DEF SetStop
<1>14. CASE Start
  BY <1>14 DEF Start
<1>15. CASE UNCHANGED vars
  BY <1>15 DEF vars
<1> QED
  BY <1>1, <1>2, <1>3, <1>4, <1>5, <1>6, <1>7, <1>8,
     <1>9, <1>10, <1>11, <1>12, <1>13, <1>14, <1>15
     DEF Next, CheckStep, User

-----------------------------------------------------------------------------
(* The invariant holds, whatever users do to the disk and when.            *)
THEOREM Invariant == Spec => []IInv
<1>1. IInv /\ [Next]_vars => IInv'
  <2>1. IInv => FlagsInv /\ DataInv BY DEF IInv, TypeInv
  <2> QED
    BY <2>1, FlagsStep, DataStep, PlaceStep, ScanStep, SettledStep
    DEF IInv, TypeInv
<1> QED BY Initially, <1>1, PTL DEF Spec

(* Every variable keeps to its type, however often the disk changes.       *)
THEOREM TypeCorrect == Spec => []TypeOK
<1>1. IInv => TypeOK BY DEF IInv, TypeInv, FlagsInv, DataInv, TypeOK
<1> QED BY <1>1, Invariant, PTL

(* A Check that returns NONE settles the watch, but after a first scan.    *)
LEMMA NoneSettles ==
  ASSUME [Next]_vars, Returns
  PROVE  /\ IsDirectory' = IsDirectory
         /\ at \notin {"firstOpen", "first"} => FirstScan' = FirstScan
         /\ ret' = "NONE" /\ calm /\ at # "first" => settled'
<1> USE DEF Returns
<1>1. CASE Begin BY <1>1 DEF Begin, Go
<1>2. CASE FirstOpen BY <1>2 DEF FirstOpen, Answer, Open, Go, Crash
<1>3. CASE FirstEntry BY <1>3 DEF FirstEntry, Answer, Go, Crash
<1>4. CASE ExistsTest BY <1>4 DEF ExistsTest, Return, Answer, Go
<1>5. CASE FileTime BY <1>5 DEF FileTime, Return, Answer
<1>6. CASE ErasedEntry BY <1>6 DEF ErasedEntry, Return, Answer, Go
<1>7. CASE ScanOpen BY <1>7 DEF ScanOpen, ScanThrows, Return, Answer, Open, Go
<1>8. CASE ScanEntry BY <1>8 DEF ScanEntry, ScanThrows, Return, Answer, Go
<1>9. CASE User
  BY <1>9 DEF User, WriteEntry, RemoveEntry, RemovePath, WritePath, Change
<1>10. CASE SetStop \/ Start \/ UNCHANGED vars
  BY <1>10 DEF SetStop, Start, vars
<1> QED
  BY <1>1, <1>2, <1>3, <1>4, <1>5, <1>6, <1>7, <1>8, <1>9, <1>10
  DEF Next, CheckStep

(* A settled Check that knows the disk finds it as it remembers it.        *)
LEMMA SettledAnswer ==
  ASSUME IInv, [Next]_vars, Returns, settled
  PROVE  ret' \in {"NONE", "STOPPED_FROM_REQUEST"}
<1> USE DEF Returns, IInv, TypeInv, FlagsInv, DataInv, PlaceInv
<1>1. CASE Begin BY <1>1 DEF Begin, Go
<1>2. CASE FirstOpen BY <1>2 DEF FirstOpen, Answer, Open, Go, Crash
<1>3. CASE FirstEntry BY <1>3 DEF FirstEntry, SettledInv, Known
<1>4. CASE ExistsTest
  <2>1. Known BY <1>4 DEF ExistsTest, SettledInv
  <2>2. LastExists = Exists BY <2>1 DEF Known, Exists
  <2> QED BY <1>4, <2>2 DEF ExistsTest, Return, Answer, Go
<1>5. CASE FileTime BY <1>5 DEF FileTime, Return, Answer, SettledInv, Known
<1>6. CASE ErasedEntry
  <2>1. \A n \in todo : There(n) BY <1>6 DEF ErasedEntry, SettledInv, Known, There
  <2> QED BY <1>6, <2>1 DEF ErasedEntry, Return, Answer, Go
<1>7. CASE ScanOpen
  <2>1. root = "dir" BY <1>7 DEF ScanOpen, SettledInv, Known
  <2> QED BY <1>7, <2>1 DEF ScanOpen, Open, Go
<1>8. CASE ScanEntry
  <2>1. calm /\ at = "scan" BY <1>8 DEF ScanEntry, SettledInv
  <2>2. \A n \in Candidates : There(n) BY <2>1 DEF ScanInv, Candidates, There
  <2>3. \A n \in Names : There(n) => DirScanResult[n] # 0 /\ ~Differs(n)
    BY <2>1 DEF SettledInv, Known, There, Differs
  <2>4. Return("STOPPED_FROM_REQUEST") \/ Go("scan") \/ Return("NONE")
    BY <1>8, <2>2, <2>3 DEF ScanEntry, Candidates
  <2> QED BY <2>1, <2>4 DEF Return, Answer, Go
<1>9. CASE User
  BY <1>9 DEF User, WriteEntry, RemoveEntry, RemovePath, WritePath, Change
<1>10. CASE SetStop \/ Start \/ UNCHANGED vars
  BY <1>10 DEF SetStop, Start, vars
<1> QED
  BY <1>1, <1>2, <1>3, <1>4, <1>5, <1>6, <1>7, <1>8, <1>9, <1>10
  DEF Next, CheckStep

(* A Check that finds no change misses none: for any names, changes and    *)
(* stops, the watch then remembers just what is on the disk.               *)
THEOREM NoMissedChange == Spec => NoneMeansSame
<1>1. IInv /\ [Next]_vars =>
        [Returns /\ ret' = "NONE" /\ calm /\ at \notin {"firstOpen", "first"} => Same']_vars
  <2> SUFFICES ASSUME IInv, [Next]_vars, Returns, ret' = "NONE", calm,
                      at \notin {"firstOpen", "first"}
               PROVE  Same'
    OBVIOUS
  <2>1. settled' /\ ~(IsDirectory /\ FirstScan)'
    BY NoneSettles DEF IInv, TypeInv, DataInv, PlaceInv, Returns
  <2>2. Known' BY <2>1, SettledStep DEF SettledInv
  <2> QED BY <2>2 DEF Known, Same, Exists
<1> QED BY <1>1, Invariant, PTL DEF Spec, NoneMeansSame

(* Check reports no change that has not happened since it found none.      *)
THEOREM NoInventedChange == Spec => NoFalseAlarm
<1>1. IInv /\ [Next]_vars =>
        [Returns /\ settled => ret' \in {"NONE", "STOPPED_FROM_REQUEST"}]_vars
  BY SettledAnswer
<1> QED BY <1>1, Invariant, PTL DEF Spec, NoFalseAlarm
=============================================================================
