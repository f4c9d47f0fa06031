------------------------------ MODULE PathWatch ------------------------------
(***************************************************************************)
(* One DPathWatch of a DPathWatcher (lib/DPathWatcher.cpp): Check compares *)
(* a file or a directory with what it remembers and returns one change.    *)
(* Users change the disk between any two file operations of Check, and     *)
(* whoever owns the watcher raises Stop, which Start lowers.               *)
(*                                                                         *)
(* Names are the entries the directory iterator finds, the plain or the    *)
(* recursive one.  Times are those the code compares: whole seconds for a  *)
(* file, the filesystem's own for entries.  Time 0 is that of no file.     *)
(***************************************************************************)
EXTENDS Naturals

CONSTANTS
  Names,       \* what the directory may hold
  MaxChanges,  \* bound: how often the disk changes
  MaxStops     \* bound: how often Stop is raised

ASSUME BoundsAssumption == MaxChanges \in Nat /\ MaxStops \in Nat

VARIABLES
  root, rootTime,   \* Path is "none", a "file" or a "dir", and its time
  files,            \* the times of the directory's entries
  now, changes,     \* the clock and the number of changes
  IsDirectory, FirstScan, LastExists, LastWriteTime, LastChangeStatus,
  DirScanResult,    \* the times the watch remembers
  Stop, stops,      \* StopWatchingRequested, and how often it was raised
  at,               \* where Check is
  todo,             \* remembered names whose existence is not yet tested
  opened, visited,  \* names in the directory when it was opened, names met
  ret, told,        \* what Check returned, what the callback was told
  crashed,          \* an exception left the thread
  calm,             \* history: no change since Check was called
  settled           \* history: no change since a Check found none

disk == <<root, rootTime, files, now, changes>>
memory == <<IsDirectory, FirstScan, LastExists, LastWriteTime,
            LastChangeStatus, DirScanResult>>
request == <<Stop, stops>>
scan == <<todo, opened, visited>>
answer == <<ret, told>>
vars == <<disk, memory, request, at, scan, answer, crashed, calm, settled>>

Time == 0..(MaxChanges + 1)
Nothing == [n \in Names |-> 0]
Held(d) == {n \in Names : d[n] # 0}
There(n) == root = "dir" /\ files[n] # 0
Exists == root # "none"

FirstStatus == IF Exists THEN "NONE" ELSE "ERROR"

(* The constructor.  IsDirectory and LastWriteTime of a path that is not   *)
(* there keep the value the memory held.                                   *)
Init ==
  /\ root \in {"none", "file", "dir"} /\ rootTime = IF Exists THEN 1 ELSE 0
  /\ files \in [Names -> {0, 1}] /\ (root # "dir" => files = Nothing)
  /\ now = 1 /\ changes = 0
  /\ FirstScan = TRUE /\ LastExists = Exists
  /\ IsDirectory \in BOOLEAN /\ (Exists => IsDirectory = (root = "dir"))
  /\ LastWriteTime \in {0, 1}
  /\ root = "file" => LastWriteTime = rootTime
  /\ LastChangeStatus = FirstStatus
  /\ DirScanResult = Nothing
  /\ Stop = FALSE /\ stops = 0 /\ at = "idle"
  /\ todo = {} /\ opened = {} /\ visited = {}
  /\ ret = "NONE" /\ told = "NONE" /\ crashed = FALSE
  /\ calm = TRUE /\ settled = FALSE

-----------------------------------------------------------------------------
(* Check.                                                                  *)

(* Check returns status, and DPathWatcher::Check calls back with the       *)
(* LastChangeStatus of the watch.                                          *)
Answer(status, last) ==
  /\ at' = "idle" /\ ret' = status
  /\ LastChangeStatus' = last /\ told' = last
  /\ settled' = (settled \/ (calm /\ status = "NONE" /\ at # "first"))
  /\ UNCHANGED <<disk, request, scan, IsDirectory, crashed, calm>>

Return(status) == Answer(status, status)

Go(to) ==
  /\ at' = to
  /\ UNCHANGED <<disk, request, answer, IsDirectory, LastExists,
                 LastWriteTime, settled>>

Begin ==
  /\ at = "idle" /\ calm' = TRUE
  /\ Go(IF IsDirectory /\ FirstScan THEN "firstOpen" ELSE "exists")
  /\ UNCHANGED <<FirstScan, LastChangeStatus, DirScanResult, scan, crashed>>

Open(to) ==
  /\ root = "dir"
  /\ opened' = Held(files) /\ visited' = {}
  /\ Go(to)
  /\ UNCHANGED <<FirstScan, LastChangeStatus, DirScanResult, todo, crashed,
                 calm>>

(* The iterator returns every entry that is in the directory from its      *)
(* opening to its end, and perhaps others.                                 *)
Candidates == {n \in Names \ visited : n \in opened \/ There(n)}
NoneLeft == \A n \in opened \ visited : ~There(n)

(* An exception that nothing catches before the thread's function.         *)
Crash ==
  /\ crashed' = TRUE
  /\ UNCHANGED <<disk, memory, request, at, scan, answer, calm, settled>>

FirstOpen ==
  /\ at = "firstOpen"
  /\ \/ ~LastExists /\ Answer("NONE", LastChangeStatus)
        /\ UNCHANGED <<FirstScan, LastExists, LastWriteTime, DirScanResult>>
     \/ LastExists /\ Open("first")
     \/ LastExists /\ root # "dir" /\ Crash

FirstEntry ==
  /\ at = "first"
  /\ \/ \E n \in Candidates :
          /\ There(n)
          /\ DirScanResult' = [DirScanResult EXCEPT ![n] = files[n]]
          /\ IF Stop
               THEN /\ Answer("STOPPED_FROM_REQUEST", LastChangeStatus)
                    /\ UNCHANGED <<FirstScan, LastExists, LastWriteTime>>
               ELSE /\ visited' = visited \cup {n} /\ Go("first")
                    /\ UNCHANGED <<FirstScan, LastChangeStatus, todo, opened,
                                   crashed, calm>>
     \/ (\E n \in Candidates : ~There(n)) /\ Crash
     \/ /\ NoneLeft /\ FirstScan' = FALSE
        /\ Answer("NONE", LastChangeStatus)
        /\ UNCHANGED <<LastExists, LastWriteTime, DirScanResult>>

(* Fault: the return of the path is remembered but not reported.           *)
Back_Silent == "NONE"

Back == "RESUMED"

ExistsTest ==
  /\ at = "exists"
  /\ \/ /\ Exists # LastExists /\ LastExists' = Exists
        /\ Return(IF Exists THEN Back ELSE "ERROR")
        /\ UNCHANGED <<FirstScan, LastWriteTime, DirScanResult>>
     \/ /\ ~Exists /\ ~LastExists /\ Return("NONE")
        /\ UNCHANGED <<FirstScan, LastExists, LastWriteTime, DirScanResult>>
     \/ /\ Exists /\ LastExists
        /\ LastChangeStatus' = "NONE" /\ todo' = Held(DirScanResult)
        /\ Go(IF IsDirectory THEN "erased" ELSE "time")
        /\ UNCHANGED <<FirstScan, DirScanResult, opened, visited, crashed,
                       calm>>

(* Fault: a file that was changed is compared but not remembered.          *)
FileTime_Forgets ==
  /\ at = "time"
  /\ Return(IF rootTime # LastWriteTime THEN "MODIFIED" ELSE "NONE")
  /\ UNCHANGED <<FirstScan, LastExists, LastWriteTime, DirScanResult>>

(* DPath::LastWriteTime of a path that is gone is the epoch.               *)
FileTime ==
  /\ at = "time"
  /\ LastWriteTime' = rootTime
  /\ Return(IF rootTime # LastWriteTime THEN "MODIFIED" ELSE "NONE")
  /\ UNCHANGED <<FirstScan, LastExists, DirScanResult>>

(* ScanDir: erased entries, then new and modified ones.                    *)

ErasedEntry ==
  /\ at = "erased"
  /\ \E n \in todo :
       \/ /\ ~There(n)
          /\ DirScanResult' = [DirScanResult EXCEPT ![n] = 0]
          /\ Return("ERASED")
          /\ UNCHANGED <<FirstScan, LastExists, LastWriteTime>>
       \/ /\ There(n) /\ Stop /\ Return("STOPPED_FROM_REQUEST")
          /\ UNCHANGED <<FirstScan, LastExists, LastWriteTime, DirScanResult>>
       \/ /\ There(n) /\ ~Stop
          /\ todo' = todo \ {n} /\ Go("erased")
          /\ UNCHANGED <<FirstScan, LastChangeStatus, DirScanResult, opened,
                         visited, crashed, calm>>

ScanThrows ==
  /\ Return("ERROR")
  /\ UNCHANGED <<FirstScan, LastExists, LastWriteTime, DirScanResult>>

ScanOpen ==
  /\ at = "erased" /\ todo = {}
  /\ \/ Open("scan")
     \/ root # "dir" /\ ScanThrows

(* Fault: a remembered entry is not compared again.                        *)
Differs_Never(n) == FALSE

Differs(n) == DirScanResult[n] # files[n]

ScanEntry ==
  /\ at = "scan"
  /\ \/ \E n \in Candidates :
          /\ There(n)
          /\ \/ /\ DirScanResult[n] = 0 \/ Differs(n)
                /\ DirScanResult' = [DirScanResult EXCEPT ![n] = files[n]]
                /\ Return(IF DirScanResult[n] = 0 THEN "CREATED"
                                                  ELSE "MODIFIED")
                /\ UNCHANGED <<FirstScan, LastExists, LastWriteTime>>
             \/ /\ DirScanResult[n] # 0 /\ ~Differs(n) /\ Stop
                /\ Return("STOPPED_FROM_REQUEST")
                /\ UNCHANGED <<FirstScan, LastExists, LastWriteTime,
                               DirScanResult>>
             \/ /\ DirScanResult[n] # 0 /\ ~Differs(n) /\ ~Stop
                /\ visited' = visited \cup {n} /\ Go("scan")
                /\ UNCHANGED <<FirstScan, LastChangeStatus, DirScanResult, todo,
                               opened, crashed, calm>>
     \/ (\E n \in Candidates : ~There(n)) /\ ScanThrows
     \/ /\ NoneLeft /\ Return("NONE")
        /\ UNCHANGED <<FirstScan, LastExists, LastWriteTime, DirScanResult>>

CheckStep ==
  \/ Begin \/ FirstOpen \/ FirstEntry \/ ExistsTest \/ FileTime
  \/ ErasedEntry \/ ScanOpen \/ ScanEntry

-----------------------------------------------------------------------------
(* The users of the disk and the owner of the watcher.                     *)

(* Any change may come in the time unit of the last or in the next.        *)
Change ==
  /\ changes < MaxChanges /\ changes' = changes + 1
  /\ now' \in {now, now + 1}
  /\ calm' = FALSE /\ settled' = FALSE
  /\ UNCHANGED <<memory, request, at, scan, answer, crashed>>

WriteEntry(n) ==
  /\ root = "dir"
  /\ Change
  /\ files' = [files EXCEPT ![n] = now']
  /\ rootTime' = IF files[n] = 0 THEN now' ELSE rootTime
  /\ UNCHANGED root

RemoveEntry(n) ==
  /\ There(n)
  /\ Change
  /\ files' = [files EXCEPT ![n] = 0] /\ rootTime' = now'
  /\ UNCHANGED root

RemovePath ==
  /\ Exists
  /\ Change
  /\ root' = "none" /\ rootTime' = 0 /\ files' = Nothing

(* A new file or directory, or a write to the file.                        *)
WritePath ==
  /\ root # "dir"
  /\ Change
  /\ root' \in IF root = "none" THEN {"file", "dir"} ELSE {"file"}
  /\ rootTime' = now' /\ UNCHANGED files

User ==
  \/ \E n \in Names : WriteEntry(n) \/ RemoveEntry(n)
  \/ RemovePath \/ WritePath

SetStop ==
  /\ ~Stop /\ stops < MaxStops
  /\ Stop' = TRUE /\ stops' = stops + 1
  /\ UNCHANGED <<disk, memory, at, scan, answer, crashed, calm, settled>>

Start ==
  /\ Stop /\ at = "idle" /\ Stop' = FALSE
  /\ UNCHANGED <<disk, memory, stops, at, scan, answer, crashed, calm, settled>>

Next ==
  \/ ~crashed /\ (CheckStep \/ User \/ SetStop \/ Start)
  \/ crashed /\ UNCHANGED vars

(* The thread, or a client that calls Check again and again, runs on.      *)
Spec == Init /\ [][Next]_vars /\ WF_vars(~crashed /\ CheckStep)

-----------------------------------------------------------------------------
Statuses == {"ERROR", "NONE", "CREATED", "ERASED", "MODIFIED", "RESUMED",
             "STOPPED_FROM_REQUEST"}

(* Every variable keeps to its type.                                       *)
TypeOK ==
  /\ root \in {"none", "file", "dir"} /\ rootTime \in Time
  /\ files \in [Names -> Time] /\ now \in Time /\ changes \in 0..MaxChanges
  /\ IsDirectory \in BOOLEAN /\ FirstScan \in BOOLEAN
  /\ LastExists \in BOOLEAN /\ LastWriteTime \in Time
  /\ LastChangeStatus \in Statuses /\ DirScanResult \in [Names -> Time]
  /\ Stop \in BOOLEAN /\ stops \in 0..MaxStops
  /\ at \in {"idle", "firstOpen", "first", "exists", "time", "erased", "scan"}
  /\ todo \subseteq Names /\ opened \subseteq Names /\ visited \subseteq Names
  /\ ret \in Statuses /\ told \in Statuses /\ crashed \in BOOLEAN
  /\ calm \in BOOLEAN /\ settled \in BOOLEAN

Same == IF IsDirectory THEN root = "dir" => DirScanResult = files
                       ELSE Exists => LastWriteTime = rootTime

Returns == at # "idle" /\ at' = "idle"

(* When Check finds no change, and nothing has changed while it looked,    *)
(* the watch remembers just what is on the disk: no change is missed, by   *)
(* stopped scans, a path that went and came back or one change per call.   *)
NoneMeansSame ==
  [][Returns /\ ret' = "NONE" /\ calm /\ at \notin {"firstOpen", "first"}
       => Same']_vars

(* No change is reported that has not happened since a Check found none.   *)
NoFalseAlarm ==
  [][Returns /\ settled => ret' \in {"NONE", "STOPPED_FROM_REQUEST"}]_vars

CatchesUp == []<>(crashed \/ Same)

(* A watch made of a path that is there remembers again and again what is  *)
(* on the disk, unless it is left stopped or its first scan ends the       *)
(* program.                                                                *)
CatchesUpUnlessStopped == LastExists => CatchesUp \/ <>[]Stop

(* It does whether or not the thread was stopped before, as a one-shot     *)
(* Check promises to check everything.                                     *)
CatchesUpByCheck == LastExists => CatchesUp
=============================================================================
