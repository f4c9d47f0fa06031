-------------------------------- MODULE DLog --------------------------------
(***************************************************************************)
(* DLog (include/dpplib/DLog.h), one log file with its storage of renamed  *)
(* older files.  A message is one unit long and is known by its number, so *)
(* that the sizes are numbers of messages; the name that a renamed file    *)
(* gets is the second of the renaming, and so is its place among the       *)
(* others; a day of STORAGE_MODE_TIME is one second.  The calls of a DLog  *)
(* come from one thread, the disk refuses operations at will, and the      *)
(* program may end and start again at any time.                            *)
(***************************************************************************)
EXTENDS Integers, Sequences, FiniteSets, Functions

CONSTANTS
  FileSizes,       \* the FileSizeMB of SetStorageMode
  Limits,          \* its ModeParam
  LastSecond,      \* bound: the last second
  MaxLines,        \* bound: how many messages the file takes
  MaxFaults        \* bound: how many operations fail, how often it restarts

ASSUME StorageAssumption == FileSizes \subseteq Nat /\ Limits \subseteq Nat

VARIABLES
  current,         \* the log file: its messages, or Absent
  old,             \* the renamed files, by the second in their name
  now,
  hFile, LogToFile, LogToStdout, LogLevel, CurrFPos,
  StorageMode, StorageFileSize, StorageModeParam,
  logging,         \* the program runs
  count,           \* history: how many messages the file took
  gap,             \* history: a file was overwritten, or one that should go
                   \* could not be deleted
  faults

storage == <<StorageMode, StorageFileSize, StorageModeParam>>
options == <<LogLevel, storage>>
logvars == <<current, old, now, hFile, LogToFile, LogToStdout, CurrFPos, options,
            logging, count, gap, faults>>

Modes == {"size", "time"}
Types == {"INFO", "ERROR", "DEBUG", "WARNING"}
Absent == <<0>>
Fault == faults < MaxFaults /\ faults' = faults + 1
NoFault == UNCHANGED faults

(* A place of a message: the second in the file's name, and the line.      *)
Places(files) == UNION {{s} \X DOMAIN files[s].lines : s \in DOMAIN files}
Sizes(files) == Cardinality(Places(files))

-----------------------------------------------------------------------------
(* What DeleteOldestFile does to the renamed files.                        *)

(* Faults: the sizes are added up from the oldest file; they are not added *)
(* up at all.                                                              *)
TotSize_OldestFirst(files, s) ==
  Sizes([t \in {t \in DOMAIN files : t <= s} |-> files[t]])
TotSize_OneFile(files, s) == Len(files[s].lines)

(* The files are added up from the newest on.                              *)
TotSize(files, s) ==
  Sizes([t \in {t \in DOMAIN files : t >= s} |-> files[t]])

Exceeding(files) ==
  {s \in DOMAIN files :
     IF StorageMode = "size" THEN TotSize(files, s) > StorageModeParam
                             ELSE now - files[s].time > StorageModeParam}

(* DeleteOldestFile: those that cannot be deleted are left, with a word on *)
(* stderr.                                                                 *)
Remaining(left) == (DOMAIN old \ Exceeding(old)) \cup left

(* RenameFileAsNow: a file of this second's name is overwritten.           *)
Renamed(files, lines) ==
  [s \in DOMAIN files \cup {now} |->
     IF s = now THEN [lines |-> lines, time |-> now] ELSE files[s]]

LinesOf(file) == IF file = Absent THEN <<>> ELSE file

(* OpenLogFile, of the file as it then is.                                 *)
Opened(file) ==
  /\ hFile' = TRUE /\ LogToFile' = TRUE /\ UNCHANGED LogToStdout
  /\ current' = LinesOf(file) /\ CurrFPos' = Len(LinesOf(file))

NotOpened(file) ==
  /\ hFile' = FALSE /\ LogToFile' = FALSE /\ LogToStdout' = TRUE
  /\ current' = file /\ UNCHANGED CurrFPos

-----------------------------------------------------------------------------
(* The constructor.  When the directory cannot be made the log has neither *)
(* a file nor, unless it was asked for, the standard output.               *)
ConstructLog ==
  /\ ~logging /\ logging' = TRUE /\ LogLevel' \in {"NORMAL", "DEEP"}
  /\ StorageMode' = "size"
  /\ StorageFileSize' \in FileSizes /\ StorageModeParam' \in Limits
  /\ \/ Opened(current) /\ NoFault
     \/ NotOpened(current) /\ Fault
     \/ /\ current = Absent /\ Fault
        /\ hFile' = FALSE /\ LogToFile' = FALSE /\ CurrFPos' = 0
        /\ LogToStdout' \in BOOLEAN /\ UNCHANGED current
  /\ UNCHANGED <<old, now, count, gap>>

LogInit ==
  /\ current = Absent /\ old = [s \in {} |-> Absent] /\ now = 1
  /\ hFile = FALSE /\ LogToFile = FALSE /\ LogToStdout = FALSE
  /\ CurrFPos = 0 /\ LogLevel = "DEEP"
  /\ StorageMode = "size" /\ StorageFileSize \in FileSizes
  /\ StorageModeParam \in Limits
  /\ logging = FALSE /\ count = 0 /\ gap = FALSE
  /\ faults = 0

(* CheckStorage, after the write of a message: lines is what the file then *)
(* has, which is what it had when the disk refused the message.            *)
Unless(trouble) == IF trouble THEN Fault ELSE NoFault

NoRotation(lines) ==
  /\ Len(lines) <= StorageFileSize
  /\ current' = lines /\ CurrFPos' = Len(lines)
  /\ Unless(lines = current) /\ UNCHANGED <<old, hFile, LogToFile, LogToStdout, gap>>

Rotated(lines) ==
  \E left \in SUBSET Exceeding(old) :
    /\ Len(lines) > StorageFileSize
    /\ Unless(lines = current \/ left # {})
    /\ old' = Renamed(Restrict(old, Remaining(left)), lines)
    /\ gap' = (gap \/ left # {} \/ now \in Remaining(left))
    /\ Opened(Absent)

(* The directory, the size or the time of a file cannot be read: the       *)
(* exception leaves Write, and the file stays as it is.  In the mode of    *)
(* size the oldest file, the last to be added up, is then left.            *)
Thrown(lines) ==
  \E left \in SUBSET Exceeding(old) :
    /\ Len(lines) > StorageFileSize /\ Fault
    /\ left = {} => StorageMode = "time" \/ Exceeding(old) = {}
    /\ old' = Restrict(old, Remaining(left))
    /\ gap' = (gap \/ left # {})
    /\ current' = lines /\ CurrFPos' = Len(lines)
    /\ UNCHANGED <<hFile, LogToFile, LogToStdout>>

(* The new file is not opened: from then on stdout is the only log.        *)
RotatedNotOpened(lines) ==
  \E left \in SUBSET Exceeding(old) :
    /\ Len(lines) > StorageFileSize /\ Fault
    /\ old' = Renamed(Restrict(old, Remaining(left)), lines)
    /\ gap' = (gap \/ left # {} \/ now \in Remaining(left))
    /\ NotOpened(Absent)

(* The file cannot be renamed, and stays closed with LogToFile set.        *)
NotRenamed(lines) ==
  \E left \in SUBSET Exceeding(old) :
    /\ Len(lines) > StorageFileSize /\ Fault
    /\ old' = Restrict(old, Remaining(left))
    /\ gap' = (gap \/ left # {})
    /\ current' = lines /\ CurrFPos' = Len(lines) /\ hFile' = FALSE
    /\ UNCHANGED <<LogToFile, LogToStdout>>

Hidden(type) == LogLevel = "NORMAL" /\ type \in {"DEBUG", "WARNING"}

(* Write, called by i, e, d and w: a hidden message changes nothing.  What *)
(* fprintf and fflush answer is not looked at: a message that the disk     *)
(* refuses is lost without a word, and the next one is written after it.   *)
(* (What a refused message leaves of its line is not modelled.)            *)
WriteLog(type) ==
  /\ logging /\ ~Hidden(type) /\ count < MaxLines
  /\ \/ /\ LogToFile /\ hFile
        /\ \E n \in {count, count + 1} :
             LET lines == IF n = count THEN current ELSE Append(current, n) IN
             /\ count' = n
             /\ \/ NoRotation(lines) \/ Rotated(lines) \/ Thrown(lines)
                \/ RotatedNotOpened(lines) \/ NotRenamed(lines)
        /\ UNCHANGED logging
     \/ /\ LogToFile /\ ~hFile        \* fprintf to a null FILE
        /\ logging' = FALSE
        /\ NoFault
        /\ UNCHANGED <<current, old, hFile, LogToFile, LogToStdout, CurrFPos,
                       count, gap>>
     \/ /\ ~LogToFile
        /\ NoFault
        /\ UNCHANGED <<current, old, hFile, LogToFile, LogToStdout, CurrFPos,
                       logging, count, gap>>
  /\ UNCHANGED <<now, options>>

(* ReadAll reads the log file alone; without one it logs an error.         *)
ReadAll ==
  IF current = Absent THEN WriteLog("ERROR") ELSE logging /\ UNCHANGED logvars

SetStorageMode ==
  /\ logging
  /\ StorageMode' \in Modes /\ StorageFileSize' \in FileSizes
  /\ StorageModeParam' \in Limits
  /\ UNCHANGED <<current, old, now, hFile, LogToFile, LogToStdout, CurrFPos,
                 LogLevel, logging, count, gap, faults>>

SetLogLevel ==
  /\ logging /\ LogLevel' \in {"NORMAL", "DEEP"}
  /\ UNCHANGED <<current, old, now, hFile, LogToFile, LogToStdout, CurrFPos,
                 storage, logging, count, gap, faults>>

SetVerbose ==
  /\ logging /\ LogToStdout' \in BOOLEAN
  /\ UNCHANGED <<current, old, now, hFile, LogToFile, CurrFPos, options,
                 logging, count, gap, faults>>

(* The destructor, or the end of the program: what was written is flushed. *)
LogEnd ==
  /\ logging /\ Fault /\ logging' = FALSE
  /\ hFile' = FALSE /\ LogToFile' = FALSE
  /\ UNCHANGED <<current, old, now, LogToStdout, CurrFPos, options, count,
                 gap>>

Tick ==
  /\ now < LastSecond /\ now' = now + 1
  /\ UNCHANGED <<current, old, hFile, LogToFile, LogToStdout, CurrFPos,
                 options, logging, count, gap, faults>>

LogNext ==
  \/ ConstructLog \/ ReadAll \/ SetStorageMode \/ SetLogLevel \/ SetVerbose
  \/ LogEnd \/ Tick
  \/ \E type \in Types : WriteLog(type)

LogSpec == LogInit /\ [][LogNext]_logvars

-----------------------------------------------------------------------------
(* The files of the log, the one that is written the last of them.         *)
LogFiles ==
  [s \in DOMAIN old \cup {now + 1} |->
     IF s > now THEN [lines |-> LinesOf(current), time |-> now] ELSE old[s]]

Message(p) == LogFiles[p[1]].lines[p[2]]
Earlier(p, q) == p[1] < q[1] \/ (p[1] = q[1] /\ p[2] < q[2])

(* Of the messages that the disk took, the storage and the log file hold   *)
(* the last ones, each once and in order, and the last one always,         *)
(* whatever it refuses in between, as long as no two files got one name    *)
(* and all that should be deleted were.                                    *)
MessagesKept ==
  ~gap =>
    LET held == {Message(p) : p \in Places(LogFiles)} IN
    /\ count > 0 => count \in held
    /\ \A m \in held : m \in 1..count /\ m..count \subseteq held
    /\ \A p, q \in Places(LogFiles) : Earlier(p, q) => Message(p) < Message(q)

Before == Restrict(old, DOMAIN old \ {now})

WithinLimit ==
  IF StorageMode = "size"
    THEN Sizes(Before) <= StorageModeParam
    ELSE \A s \in DOMAIN Before : now - Before[s].time <= StorageModeParam

(* A message that is written makes the log file exceed its size.           *)
Exceeds == count' # count /\ Len(current) + 1 > StorageFileSize

(* The storage is within its limit but for the file that is then renamed:  *)
(* in the mode of size the total, in the mode of time no older file.       *)
StorageBounded == [][Exceeds /\ ~gap' => WithinLimit']_logvars
=============================================================================
