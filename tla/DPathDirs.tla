------------------------------ MODULE DPathDirs ------------------------------
(***************************************************************************)
(* The operations of DPath (lib/DPath.cpp) that change directories:        *)
(* CopyDir, MoveDir, DeleteDir, DeleteFiles and ChangeExt, and the POSIX   *)
(* file copy.  They run entry by entry, while another program may write or *)
(* remove files and any file operation may fail.                           *)
(*                                                                         *)
(* The model follows the Linux build; a special file (a fifo, a device) is *)
(* an entry of kind "other".  A copy of a directory into itself is left    *)
(* out: it does not end before the names are too long.                     *)
(***************************************************************************)
EXTENDS DPathList

CONSTANTS
  FileTrees,    \* what the disk may hold at first
  Jobs,         \* the calls: records of the operation and its arguments
  Data,         \* the data of a file: sequences
  Lists,        \* the lists of patterns that the counts are asked for
  MaxRefusals,  \* bound on the operations that fail
  MaxEdits      \* bound on what the other program does

(* Where a call puts the copy of x, an entry below its source.             *)
Moved(j, x) == j.to \o SubSeq(x, Len(j.from) + 1, Len(x))

(* The directories of a path are paths, and those of an entry are there.   *)
ASSUME PathsAssumption ==
  /\ FilePaths \subseteq Seq(DOMAIN Stem) \ {<<>>}
  /\ \A x \in FilePaths : \A n \in 1..Len(x) : SubSeq(x, 1, n) \in FilePaths

ASSUME TreesAssumption ==
  \A tree \in FileTrees :
    /\ DOMAIN tree = FilePaths
    /\ \A x \in FilePaths : Exists(tree, x) =>
         \A n \in 1..Len(x) - 1 : tree[SubSeq(x, 1, n)].kind = "dir"

(* A copy is not into a directory of its source, and the paths of the      *)
(* copies are among FilePaths.                                             *)
ASSUME JobsAssumption ==
  \A j \in Jobs :
    /\ j.from \in FilePaths /\ j.to \in FilePaths
    /\ j.op \in {"CopyDir", "MoveDir", "ChangeExt"} =>
         /\ {"op", "from", "to", "FailIfExists", "callback"} \subseteq DOMAIN j
         /\ j.FailIfExists \in BOOLEAN
         /\ IsPrefix(j.from, j.to) => j.from = j.to
         /\ \A x \in Below(j.from) :
              /\ Moved(j, x) \in FilePaths
              /\ \A tree \in FileTrees : tree[x].kind = "file" =>
                   Append(Moved(j, x), Name(x)) \in FilePaths

VARIABLES
  fs,        \* from paths to entries
  job,       \* the call
  before,    \* history: the files when it was made
  stage,     \* where it is: idle, copy, remove, delete, done
  stack,     \* of CopyDir: the directories it is in, and what is left of each
  found,     \* of DeleteFiles: the files that remain to be deleted
  result,    \* none; ok, error or throws; of DeleteFiles the count
  refusals, edited

pvars == <<fs, job, before, stage, stack, found, result, refusals, edited>>

DirsInit ==
  /\ fs \in FileTrees /\ before = fs
  /\ job \in Jobs /\ stage = "idle" /\ stack = <<>> /\ found = {}
  /\ result = "none" /\ refusals = 0 /\ edited = {}

Target(x) == Moved(job, x)
Frame(x) == [dir |-> x, left |-> Entries(fs, x, FALSE)]

Returns(res) ==
  /\ stage' = "done" /\ result' = res /\ stack' = <<>>
  /\ UNCHANGED found

(* MoveDir removes the source when the copy has succeeded.                 *)
Copied ==
  IF job.op = "CopyDir" THEN Returns("ok")
  ELSE stage' = "remove" /\ stack' = <<>> /\ UNCHANGED <<found, result>>

(* Fault: the source is removed whether or not it was copied.              *)
CopyFails_MovesOn(res) ==
  IF job.op = "MoveDir"
    THEN stage' = "remove" /\ stack' = <<>> /\ UNCHANGED <<found, result>>
    ELSE Returns(res)

CopyFails(res) == Returns(res)

(* What CopyDir does before it looks at the entries of directory x: only   *)
(* the errors of the first tests are sure to be returned; the others call  *)
(* the callback, which need not be there.                                  *)
Enter(x, callback) ==
  LET to == Target(x)
      Called == IF callback THEN "error" ELSE "throws"
      Made == [fs EXCEPT ![to] = IF Exists(fs, to) THEN @ ELSE Directory]
  IN  \/ /\ \/ ~IsDirectory(fs, x)
            \/ job.FailIfExists /\ Exists(fs, to)
         /\ CopyFails("error") /\ UNCHANGED <<fs, refusals>>
      \/ /\ IsDirectory(fs, x) /\ ~(job.FailIfExists /\ Exists(fs, to))
         /\ \/ /\ \/ Len(to) > 1 /\ fs[Parent(to)].kind # "dir"
                  \/ fs[to].kind \notin {"none", "dir"}
               /\ CopyFails(Called) /\ UNCHANGED <<fs, refusals>>
            \/ /\ refusals < MaxRefusals /\ refusals' = refusals + 1
               /\ CopyFails(Called) /\ UNCHANGED fs
            \/ /\ Len(to) > 1 => fs[Parent(to)].kind = "dir"
               /\ fs[to].kind \in {"none", "dir"} /\ fs' = Made
               /\ IF fs[x].kind # "dir" THEN CopyFails("throws")
                  ELSE /\ stack' = Append(stack, Frame(x)) /\ stage' = "copy"
                       /\ UNCHANGED <<found, result>>
               /\ UNCHANGED refusals

StartCopy ==
  /\ stage = "idle" /\ job.op \in {"CopyDir", "MoveDir"}
  /\ Enter(job.from, job.callback)
  /\ UNCHANGED <<job, before, edited>>

-----------------------------------------------------------------------------
Top == Last(stack)
Visited(x) == Append(Front(stack), [Top EXCEPT !.left = @ \ {x}])

(* A directory is copied before what follows it, without a callback.       *)
VisitDir(x) ==
  /\ fs[x].kind = "dir"
  /\ LET rest == Visited(x) to == Target(x) IN
       \/ /\ job.FailIfExists /\ Exists(fs, to)
          /\ CopyFails("error") /\ UNCHANGED <<fs, refusals>>
       \/ /\ ~(job.FailIfExists /\ Exists(fs, to))
          /\ fs[to].kind \notin {"none", "dir"}
          /\ CopyFails("throws") /\ UNCHANGED <<fs, refusals>>
       \/ /\ refusals < MaxRefusals /\ refusals' = refusals + 1
          /\ CopyFails("throws") /\ UNCHANGED fs
       \/ /\ ~(job.FailIfExists /\ Exists(fs, to))
          /\ fs[to].kind \in {"none", "dir"}
          /\ fs' = [fs EXCEPT ![to] = Directory]
          /\ stack' = Append(rest, Frame(x))
          /\ UNCHANGED <<stage, found, result, refusals>>

(* fs::copy puts a file into a target that is a directory.                 *)
CopyTarget(x) ==
  IF fs[Target(x)].kind = "dir" THEN Append(Target(x), Name(x)) ELSE Target(x)

VisitFile(x) ==
  LET to == CopyTarget(x) IN
    /\ fs[x].kind = "file"
    /\ \/ /\ to # x /\ fs[to].kind \in {"none", "file"}
          /\ fs' = [fs EXCEPT ![to] = fs[x]] /\ stack' = Visited(x)
          /\ UNCHANGED <<stage, found, result, refusals>>
       \/ /\ to = x \/ fs[to].kind \notin {"none", "file"}
          /\ CopyFails("error") /\ UNCHANGED <<fs, refusals>>
       \/ /\ to # x /\ fs[to].kind \in {"none", "file"}
          /\ refusals < MaxRefusals /\ refusals' = refusals + 1
          /\ fs' = [fs EXCEPT ![to] = File(<<>>)] /\ CopyFails("error")

(* Neither a directory nor a regular file, or gone meanwhile.              *)
Skip(x) ==
  /\ fs[x].kind \in {"none", "other"} /\ stack' = Visited(x)
  /\ UNCHANGED <<fs, stage, found, result, refusals>>

Visit ==
  /\ stage = "copy" /\ \E x \in Top.left : VisitDir(x) \/ VisitFile(x) \/ Skip(x)
  /\ UNCHANGED <<job, before, edited>>

Leave ==
  /\ stage = "copy" /\ Top.left = {}
  /\ IF Len(stack) > 1 THEN stack' = Front(stack) /\ UNCHANGED <<stage, found, result>>
                       ELSE Copied
  /\ UNCHANGED <<job, before, fs, refusals, edited>>

(* remove_all removes everything, or fails when it has removed a part.     *)
RemoveAll ==
  /\ stage = "remove"
  /\ LET tree == {job.from} \union Below(job.from)
         Without(gone) == [x \in FilePaths |-> IF x \in gone THEN NoEntry ELSE fs[x]]
     IN  \/ fs' = Without(tree) /\ Returns("ok") /\ UNCHANGED refusals
         \/ /\ refusals < MaxRefusals /\ refusals' = refusals + 1
            /\ \E some \in SUBSET tree :
                 /\ \A x \in some : Below(x) \subseteq some
                 /\ fs' = Without(some)
            /\ Returns("error")
  /\ UNCHANGED <<job, before, edited>>

(* DeleteDir answers false for a path that is not there.                   *)
DeleteDir ==
  /\ stage = "idle" /\ job.op = "DeleteDir"
  /\ IF Exists(fs, job.from)
       THEN stage' = "remove" /\ UNCHANGED <<stack, found, result>>
       ELSE Returns("error")
  /\ UNCHANGED <<job, before, fs, refusals, edited>>

-----------------------------------------------------------------------------
(* ChangeExt on the disk, to a name in the same directory: the first form *)
(* moves onto whatever has the name, the second only onto a directory.     *)
ChangeExt ==
  /\ stage = "idle" /\ job.op = "ChangeExt"
  /\ IF IF job.first THEN Exists(fs, job.to) ELSE IsDirectory(fs, job.to)
       THEN /\ job' = [job EXCEPT !.op = "MoveDir"]
            /\ UNCHANGED <<fs, stage, stack, found, result, refusals>>
       ELSE /\ UNCHANGED job
            /\ \/ /\ Exists(fs, job.from)
                  /\ fs[job.from].kind = "dir" => ~Exists(fs, job.to)
                  /\ fs' = [x \in FilePaths |->
                       IF IsPrefix(job.to, x)
                         THEN fs[job.from \o SubSeq(x, Len(job.to) + 1, Len(x))]
                         ELSE IF IsPrefix(job.from, x) THEN NoEntry ELSE fs[x]]
                  /\ Returns("ok") /\ UNCHANGED refusals
               \/ /\ \/ ~Exists(fs, job.from)
                     \/ fs[job.from].kind = "dir" /\ Exists(fs, job.to)
                  /\ Returns("error") /\ UNCHANGED <<fs, refusals>>
               \/ /\ refusals < MaxRefusals /\ refusals' = refusals + 1
                  /\ Returns("error") /\ UNCHANGED fs
  /\ UNCHANGED <<before, edited>>

(* The POSIX copy never truncates the target nor looks at what read and    *)
(* write return; not to overwrite is a test of the source.                 *)
Copy_File_Posix ==
  /\ stage = "idle" /\ job.op = "Copy_File_Posix"
  /\ LET old == fs[job.to] new == fs[job.from].data IN
       \/ /\ fs[job.from].kind = "file" /\ job.overwrite
          /\ old.kind \in {"none", "file"}
          /\ fs' = [fs EXCEPT ![job.to] =
               File(new \o SubSeq(old.data, Len(new) + 1, Len(old.data)))]
          /\ Returns("ok") /\ UNCHANGED refusals
       \/ /\ \/ ~job.overwrite \/ ~Exists(fs, job.from)
             \/ fs[job.to].kind = "dir"
          /\ Returns("error") /\ UNCHANGED <<fs, refusals>>
       \/ /\ fs[job.from].kind = "file" /\ job.overwrite
          /\ old.kind \in {"none", "file"}
          /\ refusals < MaxRefusals /\ refusals' = refusals + 1
          /\ fs' = [fs EXCEPT ![job.to] = File(old.data)] /\ Returns("ok")
  /\ UNCHANGED <<job, before, edited>>

-----------------------------------------------------------------------------
(* A count of the files or of the directories changes nothing.             *)
Count ==
  /\ stage = "idle" /\ job.op = "Count"
  /\ Returns(IF job.dirs THEN CountDirs(fs, job.from, job.recursive, job.search)
                      ELSE CountFiles(fs, job.from, job.recursive, job.search))
  /\ UNCHANGED <<job, before, fs, refusals, edited>>

(* Fault: directories are listed for deletion as well.                     *)
DeleteFiles_AndDirs ==
  /\ stage = "idle" /\ job.op = "DeleteFiles"
  /\ IF Exists(fs, job.from)
       THEN /\ stage' = "delete" /\ result' = 0 /\ UNCHANGED stack
            /\ LET all == ListFiles(fs, job.from, job.recursive, job.search)
                     \union ListDirs(fs, job.from, job.recursive, job.search) IN
                 \E some \in IF job.stop THEN SUBSET all ELSE {all} : found' = some
       ELSE Returns(-1)
  /\ UNCHANGED <<job, before, fs, refusals, edited>>

(* The files are listed first; a request to stop cuts the list short.      *)
DeleteFiles ==
  /\ stage = "idle" /\ job.op = "DeleteFiles"
  /\ IF Exists(fs, job.from)
       THEN /\ stage' = "delete" /\ result' = 0 /\ UNCHANGED stack
            /\ LET all == ListFiles(fs, job.from, job.recursive, job.search) IN
                 \E some \in IF job.stop THEN SUBSET all ELSE {all} : found' = some
       ELSE Returns(-1)
  /\ UNCHANGED <<job, before, fs, refusals, edited>>

(* A file that is gone already counts as deleted.                          *)
DeleteOne ==
  /\ stage = "delete"
  /\ \E x \in found :
       /\ found' = found \ {x} /\ UNCHANGED <<stage, stack>>
       /\ \/ /\ fs' = [fs EXCEPT ![x] = NoEntry] /\ result' = result + 1
             /\ UNCHANGED refusals
          \/ /\ refusals < MaxRefusals /\ refusals' = refusals + 1
             /\ UNCHANGED <<fs, result>>
  /\ UNCHANGED <<job, before, edited>>

DeleteEnds ==
  /\ stage = "delete" /\ found = {} /\ Returns(result)
  /\ UNCHANGED <<job, before, fs, refusals, edited>>

(* The other program writes or removes a file in a directory.              *)
EditFile(x, entry) ==
  /\ stage \in {"copy", "remove", "delete"} /\ Cardinality(edited) < MaxEdits
  /\ Len(x) > 1 /\ fs[Parent(x)].kind = "dir" /\ fs[x].kind \in {"none", "file"}
  /\ fs[x] # entry
  /\ fs' = [fs EXCEPT ![x] = entry] /\ edited' = edited \union {x}
  /\ UNCHANGED <<job, before, stage, stack, found, result, refusals>>

DirsNext ==
  \/ StartCopy \/ Visit \/ Leave \/ RemoveAll \/ DeleteDir \/ ChangeExt
  \/ Copy_File_Posix \/ Count \/ DeleteFiles \/ DeleteOne \/ DeleteEnds
  \/ \E x \in FilePaths, e \in {NoEntry} \union {File(d) : d \in Data} : EditFile(x, e)

DirsSpec == DirsInit /\ [][DirsNext]_pvars

-----------------------------------------------------------------------------
Untouched(x) == edited \intersect {x, Target(x), Append(Target(x), Name(x))} = {}
Files(tree, top) == {x \in {top} \union Below(top) : tree[x].kind = "file"}

(* A call into a directory above its source, which the code does not       *)
(* refuse: the copy of one of its files may take the place of another, and *)
(* MoveDir removes with the source what has been copied into it.           *)
Above(j) ==
  /\ j.op \in {"CopyDir", "MoveDir", "ChangeExt"}
  /\ j.from # j.to /\ IsPrefix(j.to, j.from)

(* Whatever fails, and wherever a copy or a move has got to, each file of  *)
(* the source that nobody else wrote is whole in the source or in the      *)
(* destination; when it says ok it is in the destination, and after a move *)
(* the source is gone.                                                     *)
NothingLost ==
  job.op \in {"CopyDir", "MoveDir"} =>
    /\ \A x \in Files(before, job.from) : Untouched(x) =>
         \/ fs[x] = before[x] /\ ~(stage = "done" /\ result = "ok")
         \/ fs[Target(x)] = before[x]
         \/ fs[Append(Target(x), Name(x))] = before[x]
    /\ stage = "done" /\ result = "ok" /\ job.op = "MoveDir" =>
         \A x \in {job.from} \union Below(job.from) : ~Exists(fs, x)

(* With FailIfExists a destination that exists is left as it is.           *)
ExistingKept ==
  job.op \in {"CopyDir", "MoveDir"} /\ job.FailIfExists /\ Exists(before, job.to) =>
    \A x \in {job.to} \union Below(job.to) : fs[x] = before[x] \/ x \in edited

(* A copy or a move loses no file and respects FailIfExists, but for one   *)
(* that goes into a directory above its source: MoveDir of a/b to a may    *)
(* lose a/b/b/f, and says ok.                                              *)
CopiesSafe == Above(job) \/ (NothingLost /\ ExistingKept)

(* DeleteFiles touches no directory and no file outside of its search, and *)
(* its count is the number of files that are gone, unless somebody else    *)
(* deletes too.                                                            *)
OnlyFilesDeleted ==
  job.op = "DeleteFiles" =>
    LET gone == {x \in FilePaths : Exists(before, x) /\ ~Exists(fs, x)} IN
      /\ gone \ edited \subseteq
           ListFiles(before, job.from, job.recursive, job.search)
      /\ \A x \in gone : before[x].kind # "dir"
      /\ stage \in {"delete", "done"} /\ edited = {} /\ result # -1 =>
           result = Cardinality(gone)

(* The searches find what their comments promise, where the code does what *)
(* they say (AsDocumented), and what they find in a tree is consistent.    *)
SearchFinds ==
  stage = "idle" /\ job.op = "Count" =>
    \A q \in Searches(Lists) : SearchesRight(fs, job.from, q)

(* Searches find what they should and only files are deleted.              *)
FilesRight == OnlyFilesDeleted /\ SearchFinds
=============================================================================
