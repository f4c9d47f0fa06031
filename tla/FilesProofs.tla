---------------------------- MODULE FilesProofs ----------------------------
(***************************************************************************)
(* What the library promises of the files of its user: SettingsKept of     *)
(* DPreferences, CopiesSafe and FilesRight of DPathDirs, for every set of  *)
(* trees, files and calls and every number of crashes and failures; and    *)
(* TreeRight of DTree, for every tree, however deep.                       *)
(*                                                                         *)
(* SettingsKept is not inductive: that the settings survive the crash of a *)
(* Save depends on where Save was.  Until the first trouble the file holds *)
(* the settings up to the moment it is opened, and from then on the copy   *)
(* does (Covered); after it, nothing but WriteSettings that succeeds       *)
(* leaves Save.                                                            *)
(*                                                                         *)
(* Nor is CopiesSafe: that a file is in the source or the destination says *)
(* nothing of whether the copy will get to it before MoveDir removes the   *)
(* source.  DirsInv adds that a file which has not arrived is at or below  *)
(* an entry that a frame of the stack has left, and what that takes: that  *)
(* the source keeps its directories, so that the way to the file goes on,  *)
(* that a copy writes outside of its source, and that no file is written   *)
(* where another has arrived.                                              *)
(***************************************************************************)
EXTENDS DPreferences, DPathDirs, DTree, TLAPS, SequenceTheorems, FiniteSetTheorems,
        WellFoundedInduction

-----------------------------------------------------------------------------
(* DPreferences.                                                           *)

Places == {"idle", "backup", "copy", "open", "write", "create", "fill"}

TypeInv ==
  troubles \in Nat /\ careless \in BOOLEAN /\ alive \in BOOLEAN /\ at \in Places

(* A missing file has never been written, nor is one that is being made;   *)
(* Save ends with its program.                                             *)
NewInv ==
  /\ file = NoFile \/ at \in {"create", "fill"} => saved = NoFile
  /\ at = "create" => file = NoFile
  /\ ~alive => at = "idle"

(* Where the settings are, as long as nothing has gone wrong.              *)
Covered ==
  /\ at \in {"idle", "backup", "copy", "open"} => file = saved
  /\ at \in {"open", "write"} => bak = saved

KeptInv ==
  saved # NoFile /\ ~careless =>
    /\ troubles = 0 => Covered
    /\ troubles = 1 => SettingsKept

IInv == TypeInv /\ NewInv /\ KeptInv

(* The first states have the invariant.                                    *)
LEMMA InitHolds == Init => IInv
<1> SUFFICES ASSUME Init PROVE IInv
    OBVIOUS
<1>1. TypeInv BY DEF Init, TypeInv, Places
<1>2. NewInv BY DEF Init, NewInv
<1>3. KeptInv BY DEF Init, KeptInv
<1> QED BY <1>1, <1>2, <1>3 DEF IInv

(* Every step keeps the invariant.                                         *)
LEMMA StepKeeps == IInv /\ [Next]_vars => IInv'
<1> SUFFICES ASSUME IInv, [Next]_vars PROVE IInv'
    OBVIOUS
<1> USE DEF IInv, TypeInv, NewInv, KeptInv, Covered, SettingsKept, Places,
            disk, history, Calm, Trouble, Idle
<1>1. ASSUME NEW b \in BOOLEAN, Construct(b) PROVE IInv'
    <2>1. TypeInv' BY <1>1 DEF Construct
    <2>2. NewInv' BY <1>1 DEF Construct
    <2>3. KeptInv' BY <1>1 DEF Construct
    <2> QED BY <2>1, <2>2, <2>3
<1>2. CASE Load BY <1>2 DEF Load
<1>3. ASSUME NEW b \in BOOLEAN, Save(b) PROVE IInv'
    BY <1>3 DEF Save
<1>4. CASE Backup BY <1>4 DEF Backup
<1>5. CASE Copy BY <1>5 DEF Copy
<1>6. CASE Open
    <2>1. TypeInv' BY <1>6 DEF Open
    <2>2. NewInv' BY <1>6 DEF Open, NoFile, Torn
    <2>3. KeptInv' BY <1>6 DEF Open
    <2> QED BY <2>1, <2>2, <2>3
<1>7. CASE WriteSettings
    <2>1. TypeInv'
        <3>1. CASE RootNode \in Representable BY <1>7, <3>1 DEF WriteSettings
        <3>2. CASE RootNode \notin Representable BY <1>7, <3>2 DEF WriteSettings
        <3> QED BY <3>1, <3>2
    <2>2. NewInv' BY <1>7 DEF WriteSettings
    <2>3. KeptInv'
        <3>1. CASE file' = RootNode /\ saved' = RootNode
            BY <1>7, <3>1 DEF WriteSettings
        <3>2. CASE UNCHANGED <<file, saved>> /\ RootNode \in Representable
            BY <1>7, <3>2 DEF WriteSettings
        <3>3. CASE UNCHANGED <<file, saved>> /\ careless' = TRUE
            BY <3>3
        <3> QED BY <1>7, <3>1, <3>2, <3>3 DEF WriteSettings
    <2> QED BY <2>1, <2>2, <2>3
<1>8. CASE Edit BY <1>8 DEF Edit
<1>9. CASE End BY <1>9 DEF End
<1>10. CASE Crash
    <2>1. TypeInv'
        <3>1. troubles' \in Nat BY <1>10 DEF Crash
        <3>2. careless' \in BOOLEAN BY <1>10, Zenon DEF Crash
        <3>3. alive' \in BOOLEAN /\ at' \in Places BY <1>10, Zenon DEF Crash
        <3> QED BY <3>1, <3>2, <3>3
    <2>2. NewInv' BY <1>10 DEF Crash
    <2>3. ASSUME saved # NoFile, ~careless, troubles = 0
          PROVE  saved \in {file, bak}
        BY <2>3
    <2>4. KeptInv' BY <1>10, <2>3 DEF Crash
    <2> QED BY <2>1, <2>2, <2>4
<1>11. CASE UNCHANGED vars BY <1>11 DEF vars
<1> QED
    BY <1>1, <1>2, <1>3, <1>4, <1>5, <1>6, <1>7, <1>8, <1>9, <1>10, <1>11 DEF Next

(* As long as every Save makes a copy first and the trees are ones JSON    *)
(* can hold, no single crash or failure loses the settings, whatever they  *)
(* are and however often they are saved.                                   *)
THEOREM SettingsAreKept == Spec => []SettingsKept
<1>1. IInv => SettingsKept
    BY DEF IInv, TypeInv, KeptInv, Covered, SettingsKept, Places
<1> QED BY <1>1, InitHolds, StepKeeps, PTL DEF Spec

-----------------------------------------------------------------------------
(* DPathDirs.                                                              *)

Copying == job.op \in {"CopyDir", "MoveDir"}

(* What JobsAssumption says of a copy of one of the trees that does not go *)
(* into a directory above its source.                                      *)
CopyJob(j, tree) ==
  /\ j.from \in FilePaths /\ j.to \in FilePaths /\ j.FailIfExists \in BOOLEAN
  /\ IsPrefix(j.from, j.to) \/ IsPrefix(j.to, j.from) => j.from = j.to
  /\ \A x \in Below(j.from) :
       /\ Moved(j, x) \in FilePaths
       /\ tree[x].kind = "file" => Append(Moved(j, x), Name(x)) \in FilePaths

FrameType == [dir : FilePaths, left : SUBSET FilePaths]

DirsTypes ==
  /\ stage \in {"idle", "copy", "remove", "delete", "done"}
  /\ DOMAIN fs = FilePaths /\ before \in FileTrees /\ stack \in Seq(FrameType)
  /\ job.op \in {"CopyDir", "MoveDir", "ChangeExt"} =>
       /\ {"op", "from", "to", "FailIfExists", "callback"} \subseteq DOMAIN job
       /\ CopyJob(job, before)
  /\ stage = "delete" => job.op = "DeleteFiles"
  /\ job.from \in FilePaths
  /\ stage = "copy" => Copying /\ stack # <<>>

(* Nothing has happened before the call.                                   *)
IdleInv == stage = "idle" => fs = before /\ edited = {} /\ stack = <<>>

(* The source, and its files that nobody else has touched.                 *)
Source == {job.from} \union Below(job.from)
Watched == {x \in Files(before, job.from) : Untouched(x)}

(* A copy leaves the source as it was: a tree with its directories and the *)
(* files that it watches.                                                  *)
SourceInv ==
  /\ \A x \in Below(job.from) : Exists(fs, x) => fs[Parent(x)].kind = "dir"
  /\ \A x \in Source : before[x].kind = "dir" => fs[x].kind = "dir"
  /\ \A x \in Watched : fs[x] = before[x]

Inside(x) == Append(Target(x), Name(x))

(* A watched file has arrived, or is below an entry that remains.          *)
Arrived(x) ==
  /\ job.from # job.to
  /\ fs[Target(x)] = before[x] \/ fs[Inside(x)] = before[x]
AwaitedIn(s, x) == \E i \in DOMAIN s : \E y \in s[i].left : IsPrefix(y, x)

CopyInv ==
  stage = "copy" =>
    /\ before[job.from].kind = "dir"
    /\ stack # <<>> /\ \A i \in DOMAIN stack : stack[i].left \subseteq Below(job.from)
    /\ SourceInv /\ \A x \in Watched : Arrived(x) \/ AwaitedIn(stack, x)

RemoveInv ==
  stage = "remove" =>
    /\ job.op = "MoveDir" /\ before[job.from].kind = "dir"
    /\ \A x \in Watched : Arrived(x)

DoneInv ==
  stage = "done" =>
    /\ result = "ok" => /\ \A x \in Watched : Arrived(x)
                        /\ job.op = "MoveDir" => \A x \in Source : ~Exists(fs, x)
    /\ result # "ok" => \A x \in Watched : fs[x] = before[x] \/ Arrived(x)

(* With FailIfExists nothing happens to a destination that exists.         *)
RefusedInv ==
  job.FailIfExists /\ Exists(before, job.to) => stage \in {"idle", "done"} /\ fs = before

(* All of it holds unless the call is one into a directory above.          *)
Climbing == Above(job) /\ {"op", "from", "to"} \subseteq DOMAIN job

DirsInv ==
  /\ DirsTypes /\ IdleInv
  /\ Copying => CopyInv /\ RemoveInv /\ DoneInv /\ RefusedInv
-----------------------------------------------------------------------------
(* FilePaths as sequences.                                                 *)

(* The copy of x, below a, in b, and where it has the i-th name of x.      *)
CopyPath(a, b, x) == b \o SubSeq(x, Len(a) + 1, Len(x))
Place(a, b, i) == Len(b) + (i - Len(a))

(* FilePaths are sequences of names with at least one name.                *)
LEMMA PathType == ASSUME NEW x \in FilePaths PROVE x \in Seq(DOMAIN Stem) /\ Len(x) >= 1
BY PathsAssumption

(* A prefix is what it says, name by name.                                 *)
LEMMA PrefixIs ==
  ASSUME NEW S, NEW a \in Seq(S), NEW x \in Seq(S)
  PROVE  IsPrefix(a, x) <=> Len(a) <= Len(x) /\ \A i \in 1..Len(a) : a[i] = x[i]
<1>1. CASE Len(a) <= Len(x)
  <2> DEFINE p == SubSeq(x, 1, Len(a))
             q == SubSeq(a, 1, Len(a))
  <2>1. p \in Seq(S) /\ Len(p) = Len(a) /\ \A i \in 1..Len(a) : p[i] = x[i]
    BY <1>1
  <2>2. q \in Seq(S) /\ Len(q) = Len(a) /\ \A i \in 1..Len(a) : q[i] = a[i]
    OBVIOUS
  <2> HIDE DEF p, q
  <2>3. p = q <=> \A i \in 1..Len(a) : p[i] = q[i] BY <2>1, <2>2
  <2>4. IsPrefix(a, x) <=> p = q BY <1>1 DEF IsPrefix, p, q
  <2> QED BY <1>1, <2>1, <2>2, <2>3, <2>4
<1>2. CASE ~(Len(a) <= Len(x)) BY <1>2 DEF IsPrefix
<1> QED BY <1>1, <1>2

(* The names of the copy of a path.                                        *)
LEMMA CopyIs ==
  ASSUME NEW S, NEW a \in Seq(S), NEW b \in Seq(S), NEW x \in Seq(S), Len(a) <= Len(x)
  PROVE  /\ CopyPath(a, b, x) \in Seq(S)
         /\ Len(CopyPath(a, b, x)) = Len(b) + (Len(x) - Len(a))
         /\ \A i \in 1..Len(b) : CopyPath(a, b, x)[i] = b[i]
         /\ \A i \in Len(a) + 1..Len(x) : CopyPath(a, b, x)[Place(a, b, i)] = x[i]
<1>1. Len(a) <= Len(x) OBVIOUS
<1> DEFINE r == SubSeq(x, Len(a) + 1, Len(x))
<1>2. /\ r \in Seq(S) /\ Len(r) = Len(x) - Len(a)
      /\ \A i \in 1..Len(x) - Len(a) : r[i] = x[Len(a) + i]
  BY <1>1
<1> HIDE DEF r
<1>3. /\ b \o r \in Seq(S) /\ Len(b \o r) = Len(b) + (Len(x) - Len(a))
      /\ \A i \in 1..Len(b) : (b \o r)[i] = b[i]
      /\ \A i \in 1..Len(x) - Len(a) : (b \o r)[Len(b) + i] = r[i]
  <2>1. /\ b \o r \in Seq(S) /\ Len(b \o r) = Len(b) + Len(r)
        /\ \A i \in 1..Len(b) + Len(r) :
             (b \o r)[i] = IF i <= Len(b) THEN b[i] ELSE r[i - Len(b)]
    BY <1>2, ConcatProperties
  <2>2. Len(b) \in Nat /\ Len(r) \in Nat BY <1>2, LenProperties
  <2>3. \A i \in 1..Len(b) : i \in 1..Len(b) + Len(r) /\ i <= Len(b) BY <2>2
  <2>4. \A i \in 1..Len(r) :
          Len(b) + i \in 1..Len(b) + Len(r) /\ ~(Len(b) + i <= Len(b)) /\ (Len(b) + i) - Len(b) = i
    BY <2>2
  <2>5. \A i \in 1..Len(b) : (b \o r)[i] = b[i] BY <2>1, <2>3
  <2>6. \A i \in 1..Len(r) : (b \o r)[Len(b) + i] = r[i] BY <2>1, <2>4
  <2> QED BY <1>2, <2>1, <2>5, <2>6
<1>4. ASSUME NEW i \in Len(a) + 1..Len(x) PROVE (b \o r)[Place(a, b, i)] = x[i]
  <2>1. i - Len(a) \in 1..Len(x) - Len(a) /\ Len(a) + (i - Len(a)) = i
    BY <1>1
  <2> QED BY <1>2, <1>3, <2>1 DEF Place
<1> QED BY <1>1, <1>3, <1>4 DEF CopyPath, r

(* A name is appended to a path.                                           *)
LEMMA AppendIs ==
  ASSUME NEW S, NEW x \in Seq(S), NEW n \in S
  PROVE  /\ Append(x, n) \in Seq(S) /\ Len(Append(x, n)) = Len(x) + 1
         /\ \A i \in 1..Len(x) : Append(x, n)[i] = x[i]
         /\ Append(x, n)[Len(x) + 1] = n
OBVIOUS

(* A path without its last name.                                           *)
LEMMA FrontIs ==
  ASSUME NEW S, NEW x \in Seq(S), x # <<>>
  PROVE  /\ Front(x) \in Seq(S) /\ Len(Front(x)) = Len(x) - 1
         /\ \A i \in 1..Len(x) - 1 : Front(x)[i] = x[i]
<1>1. Len(x) \in Nat /\ Len(x) >= 1 OBVIOUS
<1>2. Front(x) = SubSeq(x, 1, Len(x) - 1) BY DEF Front
<1> PICK n : n = Len(x) - 1 OBVIOUS
<1>4. n \in Nat /\ n <= Len(x) BY <1>1
<1>5. /\ SubSeq(x, 1, n) \in Seq(S) /\ Len(SubSeq(x, 1, n)) = n
      /\ \A i \in 1..n : SubSeq(x, 1, n)[i] = x[i]
  BY <1>4
<1> QED BY <1>2, <1>4, <1>5

(* Sequences are equal name by name.                                       *)
LEMMA SameSeq ==
  ASSUME NEW S, NEW x \in Seq(S), NEW y \in Seq(S), Len(x) = Len(y),
         \A i \in 1..Len(x) : x[i] = y[i]
  PROVE  x = y
OBVIOUS

(* Two entries have different copies.                                      *)
LEMMA CopiesDiffer ==
  ASSUME NEW S, NEW a \in Seq(S), NEW b \in Seq(S), NEW x \in Seq(S), NEW z \in Seq(S),
         IsPrefix(a, x), IsPrefix(a, z)
  PROVE  CopyPath(a, b, x) = CopyPath(a, b, z) => x = z
<1>1. /\ Len(a) <= Len(x) /\ \A k \in 1..Len(a) : a[k] = x[k]
      /\ Len(a) <= Len(z) /\ \A k \in 1..Len(a) : a[k] = z[k]
  BY PrefixIs
<1>2. /\ Len(CopyPath(a, b, x)) = Len(b) + (Len(x) - Len(a))
      /\ \A i \in Len(a) + 1..Len(x) : CopyPath(a, b, x)[Place(a, b, i)] = x[i]
  <2>1. Len(a) <= Len(x) BY <1>1
  <2>2. Len(CopyPath(a, b, x)) = Len(b) + (Len(x) - Len(a)) BY <2>1, CopyIs
  <2>3. \A i \in Len(a) + 1..Len(x) : CopyPath(a, b, x)[Place(a, b, i)] = x[i]
    BY <2>1, CopyIs
  <2> QED BY <2>2, <2>3
<1>3. /\ Len(CopyPath(a, b, z)) = Len(b) + (Len(z) - Len(a))
      /\ \A i \in Len(a) + 1..Len(z) : CopyPath(a, b, z)[Place(a, b, i)] = z[i]
  <2>1. Len(a) <= Len(z) BY <1>1
  <2>2. Len(CopyPath(a, b, z)) = Len(b) + (Len(z) - Len(a)) BY <2>1, CopyIs
  <2>3. \A i \in Len(a) + 1..Len(z) : CopyPath(a, b, z)[Place(a, b, i)] = z[i]
    BY <2>1, CopyIs
  <2> QED BY <2>2, <2>3
<1> HAVE CopyPath(a, b, x) = CopyPath(a, b, z)
<1>4. Len(x) = Len(z) BY <1>1, <1>2, <1>3
<1>5. ASSUME NEW i \in 1..Len(x) PROVE x[i] = z[i]
  <2>1. CASE i <= Len(a) BY <1>1, <2>1
  <2>2. CASE i > Len(a) BY <1>2, <1>3, <1>4, <2>2
  <2> QED BY <2>1, <2>2
<1> QED BY <1>4, <1>5, SameSeq

(* The path of a copy with the name once more is that of an entry below.   *)
LEMMA CopyOfEntry ==
  ASSUME NEW S, NEW a \in Seq(S), NEW b \in Seq(S), NEW x \in Seq(S), NEW z \in Seq(S),
         IsPrefix(a, x), IsPrefix(a, z), NEW n \in S
  PROVE  Append(CopyPath(a, b, z), n) = CopyPath(a, b, x) =>
           Len(x) = Len(z) + 1 /\ Front(x) = z
<1>1. /\ Len(a) <= Len(x) /\ \A k \in 1..Len(a) : a[k] = x[k]
      /\ Len(a) <= Len(z) /\ \A k \in 1..Len(a) : a[k] = z[k]
  BY PrefixIs
<1>2. /\ Len(CopyPath(a, b, x)) = Len(b) + (Len(x) - Len(a))
      /\ \A i \in Len(a) + 1..Len(x) : CopyPath(a, b, x)[Place(a, b, i)] = x[i]
  <2>1. Len(a) <= Len(x) BY <1>1
  <2>2. Len(CopyPath(a, b, x)) = Len(b) + (Len(x) - Len(a)) BY <2>1, CopyIs
  <2>3. \A i \in Len(a) + 1..Len(x) : CopyPath(a, b, x)[Place(a, b, i)] = x[i]
    BY <2>1, CopyIs
  <2> QED BY <2>2, <2>3
<1>3. /\ CopyPath(a, b, z) \in Seq(S)
      /\ Len(CopyPath(a, b, z)) = Len(b) + (Len(z) - Len(a))
      /\ \A i \in Len(a) + 1..Len(z) : CopyPath(a, b, z)[Place(a, b, i)] = z[i]
  <2>1. Len(a) <= Len(z) BY <1>1
  <2>2. CopyPath(a, b, z) \in Seq(S) /\ Len(CopyPath(a, b, z)) = Len(b) + (Len(z) - Len(a))
    BY <2>1, CopyIs
  <2>3. \A i \in Len(a) + 1..Len(z) : CopyPath(a, b, z)[Place(a, b, i)] = z[i]
    BY <2>1, CopyIs
  <2> QED BY <2>2, <2>3
<1> HAVE Append(CopyPath(a, b, z), n) = CopyPath(a, b, x)
<1>4. /\ Len(CopyPath(a, b, x)) = Len(CopyPath(a, b, z)) + 1
      /\ \A i \in 1..Len(CopyPath(a, b, z)) : CopyPath(a, b, x)[i] = CopyPath(a, b, z)[i]
  <2> PICK p : p = CopyPath(a, b, z) OBVIOUS
  <2>1. p \in Seq(S) BY <1>3
  <2>2. Len(Append(p, n)) = Len(p) + 1 /\ \A i \in 1..Len(p) : Append(p, n)[i] = p[i]
    BY <2>1, AppendIs
  <2> QED BY <2>2
<1>5. Len(x) = Len(z) + 1 /\ x # <<>> BY <1>1, <1>2, <1>3, <1>4
<1>6. Front(x) \in Seq(S) /\ Len(Front(x)) = Len(z) /\ \A i \in 1..Len(z) : Front(x)[i] = x[i]
  <2>1. /\ Front(x) \in Seq(S) /\ Len(Front(x)) = Len(x) - 1
        /\ \A i \in 1..Len(x) - 1 : Front(x)[i] = x[i]
    BY <1>5, FrontIs
  <2>2. Len(x) - 1 = Len(z) BY <1>5
  <2> QED BY <2>1, <2>2
<1>7. ASSUME NEW i \in 1..Len(z) PROVE x[i] = z[i]
  <2>1. CASE i <= Len(a) BY <1>1, <2>1
  <2>2. CASE i > Len(a)
    <3>1. i \in Len(a) + 1..Len(z) /\ i \in Len(a) + 1..Len(x) BY <1>5, <2>2
    <3>2. Place(a, b, i) \in 1..Len(CopyPath(a, b, z)) BY <1>1, <1>3, <2>2 DEF Place
    <3> QED BY <1>2, <1>3, <1>4, <3>1, <3>2
  <2> QED BY <2>1, <2>2
<1> QED BY <1>5, <1>6, <1>7, SameSeq

(* So have two entries with a name appended to each copy.                  *)
LEMMA NamedCopiesDiffer ==
  ASSUME NEW S, NEW a \in Seq(S), NEW b \in Seq(S), NEW x \in Seq(S), NEW z \in Seq(S),
         IsPrefix(a, x), IsPrefix(a, z), NEW m \in S, NEW n \in S
  PROVE  Append(CopyPath(a, b, x), m) = Append(CopyPath(a, b, z), n) => x = z
<1>1. Len(a) <= Len(x) /\ Len(a) <= Len(z) BY PrefixIs
<1>2. CopyPath(a, b, x) \in Seq(S) BY <1>1, CopyIs
<1>3. CopyPath(a, b, z) \in Seq(S) BY <1>1, CopyIs
<1> QED BY <1>2, <1>3, AppendInjective, CopiesDiffer

(* A copy is below the destination, so that it is not in the source.       *)
LEMMA CopyBelow ==
  ASSUME NEW S, NEW a \in Seq(S), NEW b \in Seq(S), NEW x \in Seq(S), IsPrefix(a, x),
         NEW n \in S
  PROVE  IsPrefix(b, CopyPath(a, b, x)) /\ IsPrefix(b, Append(CopyPath(a, b, x), n))
<1>1. Len(a) <= Len(x) BY PrefixIs
<1>2. /\ CopyPath(a, b, x) \in Seq(S)
      /\ Len(CopyPath(a, b, x)) = Len(b) + (Len(x) - Len(a))
      /\ \A i \in 1..Len(b) : CopyPath(a, b, x)[i] = b[i]
  BY <1>1, CopyIs
<1>3. Len(b) <= Len(CopyPath(a, b, x)) BY <1>1, <1>2
<1>4. IsPrefix(b, CopyPath(a, b, x)) BY <1>2, <1>3, PrefixIs
<1>5. /\ Append(CopyPath(a, b, x), n) \in Seq(S)
      /\ Len(b) <= Len(Append(CopyPath(a, b, x), n))
      /\ \A i \in 1..Len(b) : b[i] = Append(CopyPath(a, b, x), n)[i]
  BY <1>2, <1>3, AppendIs
<1>6. IsPrefix(b, Append(CopyPath(a, b, x), n)) BY <1>5, PrefixIs
<1> QED BY <1>4, <1>6

(* Two prefixes of one path are prefixes of each other.                    *)
LEMMA PrefixesCompare ==
  ASSUME NEW S, NEW a \in Seq(S), NEW b \in Seq(S), NEW x \in Seq(S),
         IsPrefix(a, x), IsPrefix(b, x)
  PROVE  IsPrefix(a, b) \/ IsPrefix(b, a)
<1>1. /\ Len(a) <= Len(x) /\ \A k \in 1..Len(a) : a[k] = x[k]
      /\ Len(b) <= Len(x) /\ \A k \in 1..Len(b) : b[k] = x[k]
  BY PrefixIs
<1>2. CASE Len(a) <= Len(b)
  <2>1. \A k \in 1..Len(a) : a[k] = b[k] BY <1>1, <1>2
  <2> QED BY <1>2, <2>1, PrefixIs
<1>3. CASE Len(b) <= Len(a)
  <2>1. \A k \in 1..Len(b) : b[k] = a[k] BY <1>1, <1>3
  <2> QED BY <1>3, <2>1, PrefixIs
<1> QED BY <1>2, <1>3

(* Prefixes compose.                                                       *)
LEMMA PrefixFromBelow ==
  ASSUME NEW S, NEW a \in Seq(S), NEW x \in Seq(S), NEW z \in Seq(S),
         IsPrefix(a, x), IsPrefix(x, z)
  PROVE  /\ IsPrefix(a, z) /\ Len(a) <= Len(x) /\ Len(x) <= Len(z)
         /\ x # z => Len(x) < Len(z)
<1>1. /\ Len(a) <= Len(x) /\ \A k \in 1..Len(a) : a[k] = x[k]
      /\ Len(x) <= Len(z) /\ \A k \in 1..Len(x) : x[k] = z[k]
  BY PrefixIs
<1>2. Len(a) <= Len(z) /\ \A k \in 1..Len(a) : a[k] = z[k] BY <1>1
<1>3. Len(x) = Len(z) => x = z BY <1>1, SameSeq
<1> QED BY <1>1, <1>2, <1>3, PrefixIs

(* A path is a prefix of itself.                                           *)
LEMMA PrefixSelf == ASSUME NEW S, NEW a \in Seq(S) PROVE IsPrefix(a, a)
BY PrefixIs

(* A copy onto itself.                                                     *)
LEMMA CopyOnItself ==
  ASSUME NEW S, NEW a \in Seq(S), NEW b \in Seq(S), NEW x \in Seq(S), IsPrefix(a, x)
  PROVE  a = b => CopyPath(a, b, x) = x
<1>1. Len(a) <= Len(x) /\ \A k \in 1..Len(a) : a[k] = x[k] BY PrefixIs
<1>2. /\ CopyPath(a, b, x) \in Seq(S) /\ Len(CopyPath(a, b, x)) = Len(b) + (Len(x) - Len(a))
      /\ \A i \in 1..Len(b) : CopyPath(a, b, x)[i] = b[i]
      /\ \A i \in Len(a) + 1..Len(x) : CopyPath(a, b, x)[Place(a, b, i)] = x[i]
  <2>1. Len(a) <= Len(x) BY <1>1
  <2>2. \A i \in Len(a) + 1..Len(x) : CopyPath(a, b, x)[Place(a, b, i)] = x[i]
    BY <2>1, CopyIs
  <2>3. /\ CopyPath(a, b, x) \in Seq(S)
        /\ Len(CopyPath(a, b, x)) = Len(b) + (Len(x) - Len(a))
        /\ \A i \in 1..Len(b) : CopyPath(a, b, x)[i] = b[i]
    BY <2>1, CopyIs
  <2> QED BY <2>2, <2>3
<1> HAVE a = b
<1>3. ASSUME NEW i \in 1..Len(x) PROVE CopyPath(a, b, x)[i] = x[i]
  <2>1. CASE i <= Len(a) BY <1>1, <1>2, <2>1
  <2>2. CASE i > Len(a)
    <3>1. Place(a, b, i) = i /\ i \in Len(a) + 1..Len(x) BY <2>2 DEF Place
    <3> QED BY <1>2, <3>1
  <2> QED BY <2>1, <2>2
<1>4. Len(CopyPath(a, b, x)) = Len(x) BY <1>1, <1>2
<1> QED BY <1>2, <1>3, <1>4, SameSeq

(* The entry of directory y on the way to x.                               *)
LEMMA OnTheWay ==
  ASSUME NEW S, NEW y \in Seq(S), NEW x \in Seq(S), IsPrefix(y, x), y # x
  PROVE  LET c == SubSeq(x, 1, Len(y) + 1) IN
           /\ Len(y) + 1 \in 1..Len(x) /\ c \in Seq(S)
           /\ IsPrefix(y, c) /\ c # y /\ Front(c) = y /\ IsPrefix(c, x)
           /\ Len(c) = Len(y) + 1
<1>1. Len(y) <= Len(x) /\ \A k \in 1..Len(y) : y[k] = x[k] BY PrefixIs
<1>2. Len(y) # Len(x) BY <1>1, SameSeq
<1>3. Len(y) + 1 \in 1..Len(x) BY <1>1, <1>2
<1> DEFINE c == SubSeq(x, 1, Len(y) + 1)
<1>4. c \in Seq(S) /\ Len(c) = Len(y) + 1 /\ \A i \in 1..Len(y) + 1 : c[i] = x[i]
  BY <1>3
<1> HIDE DEF c
<1>5. IsPrefix(c, x) BY <1>3, <1>4, PrefixIs
<1>6. IsPrefix(y, c)
  <2>1. Len(y) <= Len(c) /\ \A k \in 1..Len(y) : y[k] = c[k] BY <1>1, <1>4
  <2> QED BY <1>4, <2>1, PrefixIs
<1>7. c # y /\ c # <<>> BY <1>4
<1>8. Front(c) \in Seq(S) /\ Len(Front(c)) = Len(y) /\ \A i \in 1..Len(y) : Front(c)[i] = c[i]
  <2>1. /\ Front(c) \in Seq(S) /\ Len(Front(c)) = Len(c) - 1
        /\ \A i \in 1..Len(c) - 1 : Front(c)[i] = c[i]
    BY <1>4, <1>7, FrontIs
  <2>2. Len(c) - 1 = Len(y) BY <1>4
  <2> QED BY <2>1, <2>2
<1>9. \A i \in 1..Len(y) : Front(c)[i] = y[i]
  <2>1. \A i \in 1..Len(y) : i \in 1..Len(y) + 1 OBVIOUS
  <2> QED BY <1>1, <1>4, <1>8, <2>1
<1>10. Front(c) = y BY <1>8, <1>9, SameSeq
<1> QED BY <1>3, <1>4, <1>5, <1>6, <1>7, <1>10 DEF c
-----------------------------------------------------------------------------
(* The paths of a copy.                                                    *)

(* The last name of a path.                                                *)
LEMMA NameType == ASSUME NEW x \in FilePaths PROVE Name(x) \in DOMAIN Stem
<1>1. x \in Seq(DOMAIN Stem) /\ Len(x) >= 1 BY PathType
<1> QED BY <1>1 DEF Name

(* The source and what is below it are paths.                              *)
LEMMA SourceType ==
  ASSUME job.from \in FilePaths
  PROVE  \A x \in Source : x \in FilePaths /\ IsPrefix(job.from, x)
<1>1. IsPrefix(job.from, job.from) BY PathType, PrefixSelf
<1> QED BY <1>1 DEF Source, Below

(* Where the copy of an entry goes, as a sequence.                         *)
LEMMA TargetIs == \A x : Target(x) = CopyPath(job.from, job.to, x)
BY DEF Target, Moved, CopyPath

(* What is below an entry of a directory is below the directory.           *)
LEMMA BelowBelow ==
  ASSUME NEW a \in FilePaths, NEW x \in Below(a)
  PROVE  Below(x) \subseteq Below(a)
<1> SUFFICES ASSUME NEW z \in Below(x) PROVE z \in Below(a) OBVIOUS
<1>1. x \in FilePaths /\ IsPrefix(a, x) /\ z \in FilePaths /\ z # x /\ IsPrefix(x, z)
  BY DEF Below
<1>2. IsPrefix(a, z) /\ Len(a) <= Len(x) /\ Len(x) < Len(z)
  BY <1>1, PathType, PrefixFromBelow
<1>3. Len(a) \in Nat /\ Len(x) \in Nat /\ Len(z) \in Nat BY <1>1, PathType
<1>4. z # a BY <1>2, <1>3
<1> QED BY <1>1, <1>2, <1>4 DEF Below

(* The same of the source of a copy.                                       *)
LEMMA BelowSource ==
  ASSUME job.from \in FilePaths, NEW x \in Source
  PROVE  Below(x) \subseteq Below(job.from)
BY BelowBelow DEF Source

(* No two entries share a target, but for an entry and its directory.      *)
LEMMA TargetsDiffer ==
  ASSUME job.from \in FilePaths, job.to \in FilePaths, NEW x \in Source, NEW z \in Source
  PROVE  /\ Target(x) = Target(z) => x = z
         /\ Inside(x) = Inside(z) => x = z
         /\ Inside(z) = Target(x) => x \in Below(job.from) /\ Parent(x) = z
<1>1. /\ x \in Seq(DOMAIN Stem) /\ z \in Seq(DOMAIN Stem)
      /\ job.from \in Seq(DOMAIN Stem) /\ job.to \in Seq(DOMAIN Stem)
      /\ IsPrefix(job.from, x) /\ IsPrefix(job.from, z)
      /\ Name(x) \in DOMAIN Stem /\ Name(z) \in DOMAIN Stem
  BY SourceType, PathType, NameType
<1>2. Target(x) = Target(z) => x = z BY <1>1, TargetIs, CopiesDiffer
<1>3. Inside(x) = Inside(z) => x = z
  <2>1. Append(CopyPath(job.from, job.to, x), Name(x))
          = Append(CopyPath(job.from, job.to, z), Name(z)) => x = z
    BY <1>1, NamedCopiesDiffer
  <2> QED BY <2>1, TargetIs DEF Inside
<1>4. ASSUME Inside(z) = Target(x) PROVE x \in Below(job.from) /\ Parent(x) = z
  <2>1. Len(x) = Len(z) + 1 /\ Front(x) = z
    <3>1. ASSUME NEW S, NEW a \in Seq(S), NEW b \in Seq(S), NEW u \in Seq(S),
                 NEW v \in Seq(S), IsPrefix(a, u), IsPrefix(a, v), NEW n \in S,
                 Append(CopyPath(a, b, v), n) = CopyPath(a, b, u)
          PROVE  Len(u) = Len(v) + 1 /\ Front(u) = v
      BY <3>1, CopyOfEntry
    <3>2. Append(CopyPath(job.from, job.to, z), Name(z)) = CopyPath(job.from, job.to, x)
      BY <1>4, TargetIs DEF Inside
    <3> QED BY <1>1, <3>1, <3>2
  <2>2. Len(job.from) <= Len(z) BY <1>1, PrefixIs
  <2>3. x # job.from BY <1>1, <2>1, <2>2
  <2> QED BY <2>1, <2>3 DEF Source, Parent
<1> QED BY <1>2, <1>3, <1>4

(* What a copy writes is not in its source.                                *)
LEMMA TargetOutside ==
  ASSUME job.from \in FilePaths, job.to \in FilePaths, NEW x \in Source, job.from # job.to,
         IsPrefix(job.from, job.to) \/ IsPrefix(job.to, job.from) => job.from = job.to
  PROVE  Target(x) \notin Source /\ Inside(x) \notin Source
<1>1. /\ x \in Seq(DOMAIN Stem) /\ IsPrefix(job.from, x) /\ Name(x) \in DOMAIN Stem
      /\ job.from \in Seq(DOMAIN Stem) /\ job.to \in Seq(DOMAIN Stem)
  BY SourceType, PathType, NameType
<1>2. IsPrefix(job.to, Target(x)) /\ IsPrefix(job.to, Inside(x))
  BY <1>1, TargetIs, CopyBelow DEF Inside
<1>3. ASSUME NEW p \in Source, IsPrefix(job.to, p) PROVE FALSE
  <2>1. p \in Seq(DOMAIN Stem) /\ IsPrefix(job.from, p) BY <1>3, SourceType, PathType
  <2> QED BY <1>1, <1>3, <2>1, PrefixesCompare
<1> QED BY <1>2, <1>3

(* A copy onto itself.                                                     *)
LEMMA TargetOnItself ==
  ASSUME job.from \in FilePaths, NEW x \in Source, job.from = job.to
  PROVE  Target(x) = x
BY SourceType, PathType, TargetIs, CopyOnItself

(* The entries on the way to a file of the source were directories.        *)
LEMMA WayIsDirectory ==
  ASSUME before \in FileTrees, NEW x \in FilePaths, NEW z \in FilePaths, before[x].kind = "file",
         IsPrefix(z, x), z # x
  PROVE  before[z].kind = "dir"
<1>1. x \in Seq(DOMAIN Stem) /\ z \in Seq(DOMAIN Stem) /\ Len(z) >= 1 BY PathType
<1>2. Len(z) <= Len(x) /\ \A k \in 1..Len(z) : z[k] = x[k] BY <1>1, PrefixIs
<1>3. Len(z) # Len(x) BY <1>1, <1>2, SameSeq
<1>4. Len(z) \in 1..Len(x) - 1 BY <1>1, <1>2, <1>3
<1>5. SubSeq(x, 1, Len(z)) = z
  <2>1. SubSeq(x, 1, Len(z)) \in Seq(DOMAIN Stem) /\ Len(SubSeq(x, 1, Len(z))) = Len(z)
        /\ \A i \in 1..Len(z) : SubSeq(x, 1, Len(z))[i] = x[i]
    BY <1>1, <1>2
  <2> QED BY <1>1, <1>2, <2>1, SameSeq
<1>6. Exists(before, x) BY DEF Exists
<1> QED BY <1>4, <1>5, <1>6, TreesAssumption

(* The next entry on the way to a path below.                              *)
LEMMA WayGoesOn ==
  ASSUME NEW x \in FilePaths, NEW y \in FilePaths, IsPrefix(y, x), y # x
  PROVE  \E c \in Below(y) : Parent(c) = y /\ IsPrefix(c, x)
<1> PICK c : c = SubSeq(x, 1, Len(y) + 1) OBVIOUS
<1>1. x \in Seq(DOMAIN Stem) /\ y \in Seq(DOMAIN Stem) BY PathType
<1>2. /\ Len(y) + 1 \in 1..Len(x)
      /\ IsPrefix(y, c) /\ c # y /\ Front(c) = y /\ IsPrefix(c, x)
  BY <1>1, OnTheWay
<1>3. c \in FilePaths BY <1>2, PathsAssumption
<1> QED BY <1>2, <1>3 DEF Below, Parent

(* The source itself goes to the destination.                              *)
LEMMA TargetOfTop ==
  ASSUME job.from \in FilePaths, job.to \in FilePaths
  PROVE  Target(job.from) = job.to
<1>1. job.from \in Seq(DOMAIN Stem) /\ job.to \in Seq(DOMAIN Stem) BY PathType
<1>2. /\ CopyPath(job.from, job.to, job.from) \in Seq(DOMAIN Stem)
      /\ Len(CopyPath(job.from, job.to, job.from)) = Len(job.to)
      /\ \A i \in 1..Len(job.to) : CopyPath(job.from, job.to, job.from)[i] = job.to[i]
  <2>1. ASSUME NEW S, NEW a \in Seq(S), NEW b \in Seq(S)
        PROVE  /\ CopyPath(a, b, a) \in Seq(S) /\ Len(CopyPath(a, b, a)) = Len(b)
               /\ \A i \in 1..Len(b) : CopyPath(a, b, a)[i] = b[i]
    <3>1. Len(a) \in Nat /\ Len(b) \in Nat /\ Len(a) <= Len(a) OBVIOUS
    <3>2. /\ CopyPath(a, b, a) \in Seq(S)
          /\ Len(CopyPath(a, b, a)) = Len(b) + (Len(a) - Len(a))
          /\ \A i \in 1..Len(b) : CopyPath(a, b, a)[i] = b[i]
      BY <3>1, CopyIs, SMTT(30)
    <3> QED BY <3>1, <3>2
  <2> QED BY <1>1, <2>1
<1>3. CopyPath(job.from, job.to, job.from) = job.to BY <1>1, <1>2, SameSeq
<1> QED BY <1>3, TargetIs

(* The directory of an entry below a.                                      *)
LEMMA ParentIs ==
  ASSUME NEW a \in FilePaths, NEW x \in Below(a)
  PROVE  /\ Parent(x) \in {a} \union Below(a) /\ Parent(x) # x /\ x \in Below(Parent(x))
         /\ Parent(x) = SubSeq(x, 1, Len(x) - 1) /\ Len(x) - 1 \in 1..Len(x) - 1
<1>1. x \in FilePaths /\ x # a /\ IsPrefix(a, x) BY DEF Below
<1>2. /\ x \in Seq(DOMAIN Stem) /\ Len(x) >= 1 /\ a \in Seq(DOMAIN Stem) /\ Len(a) >= 1
  BY <1>1, PathType
<1>3. Len(a) <= Len(x) /\ \A k \in 1..Len(a) : a[k] = x[k] BY <1>1, <1>2, PrefixIs
<1>4. Len(a) # Len(x) BY <1>1, <1>2, <1>3, SameSeq
<1> PICK n : n = Len(x) - 1 OBVIOUS
<1>5. n \in 1..Len(x) /\ n >= Len(a) /\ n < Len(x) /\ n \in 1..n BY <1>2, <1>3, <1>4
<1>6. Parent(x) = SubSeq(x, 1, n) BY <1>2 DEF Parent, Front
<1>7. /\ SubSeq(x, 1, n) \in Seq(DOMAIN Stem) /\ Len(SubSeq(x, 1, n)) = n
      /\ \A k \in 1..n : SubSeq(x, 1, n)[k] = x[k]
  BY <1>2, <1>5
<1>8. Parent(x) \in FilePaths BY <1>1, <1>5, <1>6, PathsAssumption
<1>9. IsPrefix(a, Parent(x))
  <2>1. Len(a) <= Len(Parent(x)) /\ \A k \in 1..Len(a) : a[k] = Parent(x)[k]
    BY <1>2, <1>3, <1>5, <1>6, <1>7
  <2> QED BY <1>2, <1>6, <1>7, <2>1, PrefixIs
<1>10. IsPrefix(Parent(x), x)
  <2>1. Len(Parent(x)) <= Len(x) /\ \A k \in 1..Len(Parent(x)) : Parent(x)[k] = x[k]
    BY <1>2, <1>5, <1>6, <1>7
  <2> QED BY <1>2, <1>6, <1>7, <2>1, PrefixIs
<1>11. Parent(x) # x
  <2>1. Len(Parent(x)) = n /\ Len(x) \in Nat BY <1>2, <1>6, <1>7
  <2>2. Len(Parent(x)) # Len(x) BY <1>5, <2>1
  <2> QED BY <2>2
<1> QED BY <1>1, <1>5, <1>6, <1>8, <1>9, <1>10, <1>11 DEF Below

(* The directory of an entry below the source.                             *)
LEMMA ParentInSource ==
  ASSUME job.from \in FilePaths, NEW x \in Below(job.from)
  PROVE  Parent(x) \in Source /\ Parent(x) # x
BY ParentIs DEF Source

(* A tree has its directories.                                             *)
LEMMA TreeParents ==
  ASSUME NEW a \in FilePaths, NEW tree \in FileTrees, NEW x \in Below(a), Exists(tree, x)
  PROVE  tree[Parent(x)].kind = "dir"
<1> PICK n : n = Len(x) - 1 OBVIOUS
<1>1. x \in FilePaths BY DEF Below
<1>2. Parent(x) = SubSeq(x, 1, n) /\ n \in 1..Len(x) - 1 BY ParentIs
<1> QED BY <1>1, <1>2, TreesAssumption

-----------------------------------------------------------------------------
(* The stack of a copy.                                                    *)

(* An entry is taken from what is left of the last frame.                  *)
LEMMA VisitedIs ==
  ASSUME NEW s \in Seq(FrameType), s # <<>>, NEW x
  PROVE  LET r == Append(Front(s), [Last(s) EXCEPT !.left = @ \ {x}]) IN
           /\ r \in Seq(FrameType) /\ r # <<>> /\ DOMAIN r = DOMAIN s
           /\ \A i \in DOMAIN s : r[i].left \subseteq s[i].left
           /\ \A i \in DOMAIN s : s[i].left \subseteq r[i].left \union {x}
<1> DEFINE f == [Last(s) EXCEPT !.left = @ \ {x}]
<1>1. Len(s) \in Nat /\ Len(s) >= 1 /\ Last(s) = s[Len(s)] BY DEF Last
<1>2. Last(s) \in FrameType BY <1>1
<1>3. f \in FrameType /\ f.left = Last(s).left \ {x} BY <1>2 DEF FrameType
<1> HIDE DEF f
<1>4. /\ Front(s) \in Seq(FrameType) /\ Len(Front(s)) = Len(s) - 1
      /\ \A i \in 1..Len(s) - 1 : Front(s)[i] = s[i]
  BY FrontIs
<1>5. /\ Append(Front(s), f) \in Seq(FrameType)
      /\ Len(Append(Front(s), f)) = Len(s)
      /\ \A i \in 1..Len(s) - 1 : Append(Front(s), f)[i] = s[i]
      /\ Append(Front(s), f)[Len(s)] = f
  BY <1>1, <1>3, <1>4
<1>6. DOMAIN Append(Front(s), f) = 1..Len(s) /\ DOMAIN s = 1..Len(s) BY <1>5
<1>7. ASSUME NEW i \in 1..Len(s)
      PROVE  /\ Append(Front(s), f)[i].left \subseteq s[i].left
             /\ s[i].left \subseteq Append(Front(s), f)[i].left \union {x}
  <2>1. CASE i = Len(s) BY <1>1, <1>3, <1>5, <2>1
  <2>2. CASE i # Len(s)
    <3>1. i \in 1..Len(s) - 1 BY <1>1, <2>2
    <3> QED BY <1>5, <3>1
  <2> QED BY <2>1, <2>2
<1>8. Append(Front(s), f) # <<>> BY <1>1, <1>5
<1> QED BY <1>5, <1>6, <1>7, <1>8 DEF f

(* A frame is put onto the stack.                                          *)
LEMMA PushIs ==
  ASSUME NEW s \in Seq(FrameType), NEW f \in FrameType
  PROVE  /\ Append(s, f) \in Seq(FrameType) /\ Append(s, f) # <<>>
         /\ \A i \in DOMAIN s : i \in DOMAIN Append(s, f) /\ Append(s, f)[i] = s[i]
         /\ \E i \in DOMAIN Append(s, f) : Append(s, f)[i] = f
         /\ \A i \in DOMAIN Append(s, f) : i \in DOMAIN s \/ Append(s, f)[i] = f
<1>1. /\ Append(s, f) \in Seq(FrameType) /\ Len(Append(s, f)) = Len(s) + 1
      /\ \A i \in 1..Len(s) : Append(s, f)[i] = s[i]
      /\ Append(s, f)[Len(s) + 1] = f
  OBVIOUS
<1>2. DOMAIN s = 1..Len(s) /\ DOMAIN Append(s, f) = 1..Len(s) + 1 /\ Len(s) \in Nat
  BY <1>1
<1>3. Append(s, f) # <<>>
  <2> PICK t : t = Append(s, f) OBVIOUS
  <2>1. t \in Seq(FrameType) /\ Len(t) = Len(s) + 1 BY <1>1
  <2> QED BY <1>2, <2>1
<1>4. \A i \in DOMAIN Append(s, f) : i \in DOMAIN s \/ i = Len(s) + 1 BY <1>2
<1>5. Len(s) + 1 \in DOMAIN Append(s, f) BY <1>2
<1>6. \A i \in DOMAIN s : i \in DOMAIN Append(s, f) BY <1>2
<1> QED BY <1>1, <1>2, <1>3, <1>4, <1>5, <1>6

(* The last frame is taken off.                                            *)
LEMMA PopIs ==
  ASSUME NEW s \in Seq(FrameType), s # <<>>
  PROVE  /\ Front(s) \in Seq(FrameType)
         /\ Len(s) > 1 => Front(s) # <<>>
         /\ \A i \in DOMAIN Front(s) : i \in DOMAIN s /\ Front(s)[i] = s[i]
         /\ \A i \in DOMAIN s : i \in DOMAIN Front(s) \/ s[i] = Last(s)
         /\ Len(s) <= 1 => \A i \in DOMAIN s : s[i] = Last(s)
<1>1. Len(s) \in Nat /\ Len(s) >= 1 /\ Last(s) = s[Len(s)] BY DEF Last
<1>2. /\ Front(s) \in Seq(FrameType) /\ Len(Front(s)) = Len(s) - 1
      /\ \A i \in 1..Len(s) - 1 : Front(s)[i] = s[i]
  BY FrontIs
<1>3. DOMAIN s = 1..Len(s) /\ DOMAIN Front(s) = 1..Len(s) - 1 BY <1>1, <1>2
<1>4. \A i \in DOMAIN s : i \in DOMAIN Front(s) \/ i = Len(s) BY <1>1, <1>3
<1>5. \A i \in DOMAIN Front(s) : i \in DOMAIN s BY <1>1, <1>3
<1>6. Len(s) > 1 => Front(s) # <<>> BY <1>1, <1>2
<1>7. Len(s) <= 1 => \A i \in DOMAIN s : i = Len(s) BY <1>1, <1>3
<1> QED BY <1>1, <1>2, <1>3, <1>4, <1>5, <1>6, <1>7

(* Only what is at or below the entry taken is not awaited any more.       *)
LEMMA VisitedAwaits ==
  ASSUME NEW s \in Seq(FrameType), s # <<>>, NEW x, NEW w
  PROVE  AwaitedIn(s, w) =>
           AwaitedIn(Append(Front(s), [Last(s) EXCEPT !.left = @ \ {x}]), w) \/ IsPrefix(x, w)
<1> PICK r : r = Append(Front(s), [Last(s) EXCEPT !.left = @ \ {x}]) OBVIOUS
<1>1. DOMAIN r = DOMAIN s /\ \A i \in DOMAIN s : s[i].left \subseteq r[i].left \union {x}
  BY VisitedIs
<1>2. AwaitedIn(s, w) => AwaitedIn(r, w) \/ IsPrefix(x, w) BY <1>1 DEF AwaitedIn
<1> QED BY <1>2

(* A frame awaits what is at or below what is left of it.                  *)
LEMMA PushAwaits ==
  ASSUME NEW s \in Seq(FrameType), NEW f \in FrameType, NEW w
  PROVE  /\ AwaitedIn(s, w) => AwaitedIn(Append(s, f), w)
         /\ (\E y \in f.left : IsPrefix(y, w)) => AwaitedIn(Append(s, f), w)
<1> PICK r : r = Append(s, f) OBVIOUS
<1>1. /\ \A i \in DOMAIN s : i \in DOMAIN r /\ r[i] = s[i]
      /\ \E i \in DOMAIN r : r[i] = f
  BY PushIs
<1>2. AwaitedIn(s, w) => AwaitedIn(r, w) BY <1>1 DEF AwaitedIn
<1>3. (\E y \in f.left : IsPrefix(y, w)) => AwaitedIn(r, w) BY <1>1 DEF AwaitedIn
<1> QED BY <1>2, <1>3

(* A frame with nothing left awaits nothing.                               *)
LEMMA PopAwaits ==
  ASSUME NEW s \in Seq(FrameType), s # <<>>, Last(s).left = {}, NEW w
  PROVE  /\ AwaitedIn(s, w) => AwaitedIn(Front(s), w)
         /\ Len(s) <= 1 => ~AwaitedIn(s, w)
<1> PICK r : r = Front(s) OBVIOUS
<1>1. /\ \A i \in DOMAIN r : i \in DOMAIN s /\ r[i] = s[i]
      /\ \A i \in DOMAIN s : i \in DOMAIN r \/ s[i] = Last(s)
      /\ Len(s) <= 1 => \A i \in DOMAIN s : s[i] = Last(s)
  BY PopIs
<1>2. AwaitedIn(s, w) => AwaitedIn(r, w) BY <1>1 DEF AwaitedIn
<1>3. Len(s) <= 1 => ~AwaitedIn(s, w) BY <1>1 DEF AwaitedIn
<1> QED BY <1>2, <1>3

-----------------------------------------------------------------------------
(* A copy under way.                                                       *)

(* What the types say of a copy.                                           *)
LEMMA CopyFacts ==
  ASSUME DirsTypes, Copying
  PROVE  /\ job.from \in FilePaths /\ job.to \in FilePaths /\ before \in FileTrees
         /\ IsPrefix(job.from, job.to) \/ IsPrefix(job.to, job.from) => job.from = job.to
         /\ DOMAIN fs = FilePaths
BY DEF DirsTypes, Copying, CopyJob

(* What the types say of a watched file.                                   *)
LEMMA WatchedIs ==
  ASSUME DirsTypes, Copying, NEW w \in Watched
  PROVE  /\ w \in Source /\ w \in FilePaths /\ before[w].kind = "file"
         /\ before[job.from].kind = "dir" =>
              w \in Below(job.from) /\ Target(w) \in FilePaths /\ Inside(w) \in FilePaths
<1>1. w \in Source /\ before[w].kind = "file" BY DEF Watched, Files, Source
<1>2. w \in FilePaths BY <1>1, CopyFacts, SourceType
<1>3. before[job.from].kind = "dir" => w \in Below(job.from) BY <1>1 DEF Source
<1>4. w \in Below(job.from) => Target(w) \in FilePaths /\ Inside(w) \in FilePaths
  BY <1>1 DEF DirsTypes, Copying, CopyJob, Target, Inside
<1> QED BY <1>1, <1>2, <1>3, <1>4

(* What is not a directory ends the way to a watched file.                 *)
LEMMA WayEnds ==
  ASSUME DirsTypes, Copying, SourceInv, NEW w \in Watched, NEW y \in Source,
         IsPrefix(y, w), fs[y].kind # "dir"
  PROVE  y = w
<1>1. w \in FilePaths /\ before[w].kind = "file" /\ y \in FilePaths /\ before \in FileTrees
  BY WatchedIs, CopyFacts, SourceType
<1>2. y # w => before[y].kind = "dir" BY <1>1, WayIsDirectory
<1> QED BY <1>2 DEF SourceInv

(* From a directory the way goes on to an entry that is there.             *)
LEMMA WayIs ==
  ASSUME DirsTypes, Copying, SourceInv, NEW w \in Watched, NEW y \in Source,
         IsPrefix(y, w), fs[y].kind = "dir"
  PROVE  \E c \in Entries(fs, y, FALSE) : IsPrefix(c, w)
<1>1. w \in FilePaths /\ before[w].kind = "file" /\ y \in FilePaths /\ job.from \in FilePaths
  BY WatchedIs, CopyFacts, SourceType
<1>2. fs[w] = before[w] BY DEF SourceInv
<1>3. y # w BY <1>1, <1>2
<1> PICK c \in Below(y) : Parent(c) = y /\ IsPrefix(c, w) BY <1>1, <1>3, WayGoesOn
<1>4. c \in Source BY <1>1, BelowSource DEF Source
<1>5. Exists(fs, c)
  <2>1. CASE fs[c].kind = "dir" BY <2>1 DEF Exists
  <2>2. CASE fs[c].kind # "dir"
    <3>1. c = w BY <1>4, <2>2, WayEnds
    <3> QED BY <1>1, <1>2, <3>1 DEF Exists
  <2> QED BY <2>1, <2>2
<1>6. c \in Entries(fs, y, FALSE) BY <1>5 DEF Entries
<1> QED BY <1>6

(* A step of the copy that leaves the source as it is.                     *)
LEMMA SourceKept ==
  ASSUME DirsTypes, Copying, SourceInv, UNCHANGED <<job, before, edited>>,
         \A z \in Source : fs'[z] = fs[z]
  PROVE  SourceInv'
<1>1. Source' = Source /\ Watched' = Watched /\ Watched \subseteq Source
  BY WatchedIs DEF Source, Watched, Untouched, Target
<1>2. \A x \in Below(job.from) : x \in Source /\ Parent(x) \in Source
  BY CopyFacts, ParentInSource DEF Source
<1>3. \A x \in Below(job.from) : Exists(fs, x)' => fs'[Parent(x)].kind = "dir"
  BY <1>2 DEF SourceInv, Exists
<1>4. \A x \in Source : before[x].kind = "dir" => fs'[x].kind = "dir" BY DEF SourceInv
<1>5. \A x \in Watched : fs'[x] = before[x] BY <1>1 DEF SourceInv
<1> QED BY <1>1, <1>3, <1>4, <1>5 DEF SourceInv, Exists

-----------------------------------------------------------------------------
(* The steps of a copy keep DirsInv.                                       *)

(* What is watched depends on the call and on the other program.           *)
LEMMA SameWatched ==
  ASSUME UNCHANGED <<job, before, edited>>
  PROVE  /\ Source' = Source /\ Watched' = Watched /\ Copying' = Copying
         /\ \A x : Target(x)' = Target(x) /\ Inside(x)' = Inside(x)
BY DEF Source, Watched, Untouched, Target, Inside, Copying

(* A copy that fails has left the watched files of the source.             *)
LEMMA CopyEndsEarly ==
  ASSUME DirsTypes, Copying, UNCHANGED <<job, before, edited>>,
         NEW res, res # "ok", Returns(res), DOMAIN fs' = FilePaths,
         \A w \in Watched : fs'[w] = before[w],
         job.FailIfExists /\ Exists(before, job.to) => fs' = before
  PROVE  DirsInv'
<1>1. stage' = "done" /\ result' = res /\ stack' = <<>> BY DEF Returns
<1>2. DirsTypes' BY <1>1 DEF DirsTypes, CopyJob, Copying, Moved
<1>3. IdleInv' /\ CopyInv' /\ RemoveInv' BY <1>1 DEF IdleInv, CopyInv, RemoveInv
<1>4. DoneInv' BY <1>1, SameWatched DEF DoneInv
<1>5. RefusedInv' BY <1>1 DEF RefusedInv, Exists
<1> QED BY <1>2, <1>3, <1>4, <1>5 DEF DirsInv

(* A step that ends within the copy.                                       *)
LEMMA CopyGoesOn ==
  ASSUME DirsTypes, Copying, UNCHANGED <<job, before, edited>>,
         stage' = "copy", DOMAIN fs' = FilePaths, before[job.from].kind = "dir",
         stack' \in Seq(FrameType), stack' # <<>>,
         \A i \in DOMAIN stack' : stack'[i].left \subseteq Below(job.from),
         ~(job.FailIfExists /\ Exists(before, job.to)),
         SourceInv', \A w \in Watched : Arrived(w)' \/ AwaitedIn(stack', w)
  PROVE  DirsInv'
<1>1. DirsTypes' BY DEF DirsTypes, CopyJob, Copying, Moved
<1>2. IdleInv' /\ DoneInv' /\ RemoveInv' BY DEF IdleInv, DoneInv, RemoveInv
<1>3. \A w \in Watched' : Arrived(w)' \/ AwaitedIn(stack, w)'
  BY SameWatched DEF AwaitedIn
<1>4. CopyInv' BY <1>3 DEF CopyInv
<1>5. RefusedInv' BY DEF RefusedInv, Exists
<1> QED BY <1>1, <1>2, <1>4, <1>5 DEF DirsInv

(* A write to a target leaves the source.                                  *)
LEMMA CopyWritesOutside ==
  ASSUME DirsTypes, Copying, NEW x \in Source, job.from # job.to,
         NEW p \in {Target(x), Inside(x)}, NEW e, fs' = [fs EXCEPT ![p] = e]
  PROVE  \A z \in Source : fs'[z] = fs[z]
<1>1. p \notin Source BY CopyFacts, TargetOutside
<1>2. \A z \in Source : z \in FilePaths BY CopyFacts, SourceType
<1> QED BY <1>1, <1>2, CopyFacts

(* The first directory: everything watched is awaited in it.               *)
LEMMA StartCopyKeeps == ASSUME DirsInv, StartCopy PROVE DirsInv'
<1> USE DEF DirsInv
<1>1. /\ DirsTypes /\ Copying /\ fs = before /\ edited = {} /\ stack = <<>>
      /\ UNCHANGED <<job, before, edited>> /\ Enter(job.from, job.callback)
  BY DEF StartCopy, Copying, IdleInv
<1>2. job.from \in Source /\ job.from \in FilePaths /\ before \in FileTrees /\ DOMAIN fs = FilePaths
  BY <1>1, CopyFacts DEF Source
<1>3. \A w \in Watched : w \in Source BY <1>1, WatchedIs
<1>4. \A res : Returns(res) /\ res # "ok" /\ UNCHANGED fs => DirsInv'
  BY <1>1, <1>2, CopyEndsEarly, Zenon DEF Watched
<1> PICK made : made = [fs EXCEPT ![job.to] =
                          IF Exists(fs, job.to) THEN fs[job.to] ELSE Directory]
  OBVIOUS
<1>5. Target(job.from) = job.to BY <1>1, CopyFacts, TargetOfTop
<1>6. \/ \E res : Returns(res) /\ res # "ok" /\ UNCHANGED fs
      \/ /\ Exists(fs, job.from) /\ ~(job.FailIfExists /\ Exists(fs, job.to))
         /\ fs' = made
         /\ \/ fs[job.from].kind # "dir" /\ Returns("throws")
            \/ /\ fs[job.from].kind = "dir"
               /\ stack' = Append(stack, Frame(job.from)) /\ stage' = "copy"
  BY <1>1, <1>5 DEF Enter, CopyFails, IsDirectory
<1>7. CASE \E res : Returns(res) /\ res # "ok" /\ UNCHANGED fs BY <1>4, <1>7
<1>8. ASSUME Exists(fs, job.from), ~(job.FailIfExists /\ Exists(fs, job.to)), fs' = made
      PROVE  (\A z \in Source : fs'[z] = fs[z]) /\ DOMAIN fs' = FilePaths
  <2>1. CASE job.from = job.to
    <3>1. Exists(fs, job.to) BY <1>8, <2>1
    <3>2. fs' = [fs EXCEPT ![job.to] = fs[job.to]] BY <1>8, <3>1
    <3> QED BY <1>2, <3>2, SourceType
  <2>2. CASE job.from # job.to
    <3>1. job.to \notin Source BY <1>1, <1>2, <1>5, <2>2, CopyFacts, TargetOutside
    <3>2. \A z \in Source : z \in FilePaths BY <1>2, SourceType
    <3> QED BY <1>2, <1>8, <3>1, <3>2
  <2> QED BY <2>1, <2>2
<1>9. ASSUME Exists(fs, job.from), ~(job.FailIfExists /\ Exists(fs, job.to)), fs' = made,
             Returns("throws")
      PROVE  DirsInv'
  <2>1. \A w \in Watched : fs'[w] = before[w] BY <1>1, <1>3, <1>8, <1>9
  <2>2. ~(job.FailIfExists /\ Exists(before, job.to)) BY <1>1, <1>9
  <2>3. DOMAIN fs' = FilePaths BY <1>8, <1>9
  <2>4. "throws" # "ok" OBVIOUS
  <2> QED BY <1>1, <1>9, <2>1, <2>2, <2>3, <2>4, CopyEndsEarly
<1>10. ASSUME Exists(fs, job.from), ~(job.FailIfExists /\ Exists(fs, job.to)), fs' = made,
              fs[job.from].kind = "dir",
              stack' = Append(stack, Frame(job.from)), stage' = "copy"
       PROVE  DirsInv'
  <2>1. SourceInv
    <3>1. \A x \in Below(job.from) : Exists(fs, x) => fs[Parent(x)].kind = "dir"
      BY <1>1, <1>2, TreeParents
    <3> QED BY <1>1, <3>1 DEF SourceInv
  <2>2. SourceInv' BY <1>1, <1>8, <1>10, <2>1, SourceKept
  <2>3. Frame(job.from) \in FrameType /\ Frame(job.from).left = Entries(fs, job.from, FALSE)
        /\ Frame(job.from).left \subseteq Below(job.from)
    BY <1>2 DEF Frame, FrameType, Entries, Below
  <2>4. stack \in Seq(FrameType) BY <1>1 DEF DirsTypes
  <2>5. /\ stack' \in Seq(FrameType) /\ stack' # <<>>
        /\ \A i \in DOMAIN stack' : stack'[i].left \subseteq Below(job.from)
    <3>1. \A i \in DOMAIN stack' : i \in DOMAIN stack \/ stack'[i] = Frame(job.from)
      BY <1>10, <2>3, <2>4, PushIs
    <3>2. DOMAIN stack = {} BY <1>1
    <3>3. stack' \in Seq(FrameType) /\ stack' # <<>> BY <1>10, <2>3, <2>4, PushIs
    <3> QED BY <2>3, <3>1, <3>2, <3>3
  <2>6. ASSUME NEW w \in Watched PROVE AwaitedIn(stack', w)
    <3>1. IsPrefix(job.from, w) BY <1>2, <1>3, SourceType
    <3>2. \E c \in Frame(job.from).left : IsPrefix(c, w)
      BY <1>1, <1>2, <1>10, <2>1, <2>3, <3>1, WayIs
    <3> QED BY <1>10, <2>3, <2>4, <3>2, PushAwaits
  <2>7. ~(job.FailIfExists /\ Exists(before, job.to)) /\ before[job.from].kind = "dir"
    BY <1>1, <1>10
  <2>8. DOMAIN fs' = FilePaths BY <1>8, <1>10
  <2> QED BY <1>1, <1>10, <2>2, <2>5, <2>6, <2>7, <2>8, CopyGoesOn
<1> QED BY <1>6, <1>7, <1>9, <1>10

(* What holds of a copy when it visits an entry.                           *)
LEMMA VisitFacts ==
  ASSUME DirsInv, stage = "copy", NEW x \in Top.left
  PROVE  /\ DirsTypes /\ Copying /\ SourceInv /\ x \in Below(job.from)
         /\ x \in Source /\ x \in FilePaths /\ DOMAIN fs = FilePaths
         /\ before[job.from].kind = "dir"
         /\ stack \in Seq(FrameType) /\ stack # <<>>
         /\ \A i \in DOMAIN stack : stack[i].left \subseteq Below(job.from)
         /\ \A w \in Watched : Arrived(w) \/ AwaitedIn(stack, w)
         /\ ~(job.FailIfExists /\ Exists(before, job.to))
         /\ \A w \in Watched : fs[w] = before[w]
<1>1. DirsTypes /\ Copying BY DEF DirsInv, DirsTypes
<1>2. /\ SourceInv /\ before[job.from].kind = "dir"
      /\ \A i \in DOMAIN stack : stack[i].left \subseteq Below(job.from)
      /\ \A w \in Watched : Arrived(w) \/ AwaitedIn(stack, w)
  BY <1>1 DEF DirsInv, CopyInv
<1>3. stack \in Seq(FrameType) /\ stack # <<>> BY <1>1 DEF DirsTypes
<1>4. Len(stack) \in DOMAIN stack /\ Top = stack[Len(stack)] BY <1>3 DEF Top, Last
<1>5. x \in Below(job.from) BY <1>2, <1>4
<1>6. x \in Source /\ x \in FilePaths BY <1>5 DEF Source, Below
<1>7. ~(job.FailIfExists /\ Exists(before, job.to)) BY <1>1 DEF DirsInv, RefusedInv
<1>8. DOMAIN fs = FilePaths BY <1>1, CopyFacts
<1>9. \A w \in Watched : fs[w] = before[w] BY <1>2 DEF SourceInv
<1> QED BY <1>1, <1>2, <1>3, <1>5, <1>6, <1>7, <1>8, <1>9

(* The stack when an entry has been visited.                               *)
LEMMA VisitedFrames ==
  ASSUME DirsInv, stage = "copy", NEW x \in Top.left
  PROVE  /\ Visited(x) \in Seq(FrameType) /\ Visited(x) # <<>>
         /\ \A i \in DOMAIN Visited(x) : Visited(x)[i].left \subseteq Below(job.from)
         /\ \A w \in Watched : Arrived(w) \/ AwaitedIn(Visited(x), w) \/ IsPrefix(x, w)
<1>1. /\ stack \in Seq(FrameType) /\ stack # <<>>
      /\ \A i \in DOMAIN stack : stack[i].left \subseteq Below(job.from)
      /\ \A w \in Watched : Arrived(w) \/ AwaitedIn(stack, w)
  BY VisitFacts
<1>2. Visited(x) = Append(Front(stack), [Last(stack) EXCEPT !.left = @ \ {x}])
  BY DEF Visited, Top
<1> PICK r : r = Visited(x) OBVIOUS
<1>3. /\ r \in Seq(FrameType) /\ r # <<>> /\ DOMAIN r = DOMAIN stack
      /\ \A i \in DOMAIN stack : r[i].left \subseteq stack[i].left
  <2>1. stack \in Seq(FrameType) /\ stack # <<>> BY <1>1
  <2> DEFINE f == Append(Front(stack), [Last(stack) EXCEPT !.left = @ \ {x}])
  <2>2. /\ f \in Seq(FrameType) /\ f # <<>> /\ DOMAIN f = DOMAIN stack
        /\ \A i \in DOMAIN stack : f[i].left \subseteq stack[i].left
    BY <2>1, VisitedIs
  <2>3. r = f BY <1>2
  <2> HIDE DEF f
  <2> QED BY <2>2, <2>3
<1>4. \A w : AwaitedIn(stack, w) => AwaitedIn(r, w) \/ IsPrefix(x, w)
  BY <1>1, <1>2, VisitedAwaits
<1>5. \A i \in DOMAIN r : r[i].left \subseteq Below(job.from) BY <1>1, <1>3
<1> QED BY <1>1, <1>3, <1>4, <1>5

(* A visit that fails ends the copy.                                       *)
LEMMA VisitFails ==
  ASSUME DirsInv, stage = "copy", NEW x \in Top.left, UNCHANGED <<job, before, edited>>,
         NEW res, res # "ok", Returns(res), DOMAIN fs' = FilePaths,
         \A z \in Source : fs'[z] = fs[z]
  PROVE  DirsInv'
<1>1. /\ DirsTypes /\ Copying /\ ~(job.FailIfExists /\ Exists(before, job.to))
      /\ \A w \in Watched : fs[w] = before[w]
  BY VisitFacts
<1>2. \A w \in Watched : fs'[w] = before[w] BY <1>1, WatchedIs
<1> QED BY <1>1, <1>2, CopyEndsEarly

(* A visit after which all at or below the entry has arrived.              *)
LEMMA VisitGoesOn ==
  ASSUME DirsInv, stage = "copy", NEW x \in Top.left, UNCHANGED <<job, before, edited>>,
         stage' = stage, stack' = Visited(x), DOMAIN fs' = FilePaths,
         \A z \in Source : fs'[z] = fs[z],
         \A w \in Watched : Arrived(w) \/ IsPrefix(x, w) => Arrived(w)'
  PROVE  DirsInv'
<1>1. /\ DirsTypes /\ Copying /\ ~(job.FailIfExists /\ Exists(before, job.to))
      /\ SourceInv /\ before[job.from].kind = "dir"
  BY VisitFacts
<1>2. SourceInv' BY <1>1, SourceKept
<1>3. /\ stack' \in Seq(FrameType) /\ stack' # <<>>
      /\ \A i \in DOMAIN stack' : stack'[i].left \subseteq Below(job.from)
      /\ \A w \in Watched : Arrived(w) \/ AwaitedIn(stack', w) \/ IsPrefix(x, w)
  BY VisitedFrames
<1>4. \A w \in Watched : Arrived(w)' \/ AwaitedIn(stack', w) BY <1>3
<1>5. stage' = "copy" OBVIOUS
<1> QED BY <1>1, <1>2, <1>3, <1>4, <1>5, CopyGoesOn

(* No watched file is at or below an entry that is skipped.                *)
LEMMA SkipKeeps ==
  ASSUME DirsInv, stage = "copy", NEW x \in Top.left, UNCHANGED <<job, before, edited>>,
         Skip(x)
  PROVE  DirsInv'
<1>1. /\ fs[x].kind # "dir" /\ fs[x].kind # "file" /\ stack' = Visited(x)
      /\ UNCHANGED <<fs, stage>>
  BY DEF Skip
<1>2. /\ DirsTypes /\ Copying /\ SourceInv /\ x \in Source /\ DOMAIN fs = FilePaths
      /\ \A w \in Watched : fs[w] = before[w]
  BY VisitFacts
<1>3. \A w \in Watched : ~IsPrefix(x, w)
  <2>1. ASSUME NEW w \in Watched, IsPrefix(x, w) PROVE FALSE
    <3>1. x = w BY <1>1, <1>2, <2>1, WayEnds
    <3>2. before[w].kind = "file" BY <1>2, WatchedIs
    <3> QED BY <1>1, <1>2, <3>1, <3>2
  <2> QED BY <2>1
<1>4. \A w \in Watched : Arrived(w) => Arrived(w)' BY <1>1, SameWatched DEF Arrived
<1> QED BY <1>1, <1>2, <1>3, <1>4, VisitGoesOn

(* A directory is entered: what was awaited below it is awaited in it.     *)
LEMMA VisitDirKeeps ==
  ASSUME DirsInv, stage = "copy", NEW x \in Top.left, UNCHANGED <<job, before, edited>>,
         VisitDir(x)
  PROVE  DirsInv'
<1>1. /\ DirsTypes /\ Copying /\ SourceInv /\ x \in Below(job.from) /\ x \in Source
      /\ x \in FilePaths /\ DOMAIN fs = FilePaths /\ before[job.from].kind = "dir"
      /\ ~(job.FailIfExists /\ Exists(before, job.to))
      /\ \A w \in Watched : fs[w] = before[w]
  BY VisitFacts
<1>2. fs[x].kind = "dir" BY DEF VisitDir
<1>3. \/ \E res : res # "ok" /\ Returns(res) /\ UNCHANGED fs
      \/ /\ fs[Target(x)].kind \in {"none", "dir"}
         /\ fs' = [fs EXCEPT ![Target(x)] = Directory]
         /\ stack' = Append(Visited(x), Frame(x)) /\ UNCHANGED stage
  BY DEF VisitDir, CopyFails
<1>4. CASE \E res : res # "ok" /\ Returns(res) /\ UNCHANGED fs
  BY <1>1, <1>4, VisitFails
<1>5. ASSUME fs[Target(x)].kind \in {"none", "dir"},
             fs' = [fs EXCEPT ![Target(x)] = Directory],
             stack' = Append(Visited(x), Frame(x)), UNCHANGED stage
      PROVE  DirsInv'
  <2>1. /\ \A p \in FilePaths : fs[p].kind = "file" => fs'[p] = fs[p]
        /\ DOMAIN fs' = FilePaths
    BY <1>1, <1>5
  <2>2. SourceInv'
    <3>1. CASE job.from # job.to
      <4>1. \A z \in Source : fs'[z] = fs[z] BY <1>1, <1>5, <3>1, CopyWritesOutside
      <4> QED BY <1>1, <4>1, SourceKept
    <3>2. CASE job.from = job.to
      <4>1. Target(x) = x BY <1>1, <3>2, CopyFacts, TargetOnItself
      <4>2. \A z \in FilePaths : fs'[z].kind = fs[z].kind
        <5>1. Directory.kind = "dir" BY DEF Directory
        <5> QED BY <1>1, <1>2, <1>5, <4>1, <5>1
      <4>3. \A z \in Below(job.from) : z \in FilePaths /\ Parent(z) \in FilePaths
        BY <1>1, CopyFacts, ParentInSource, SourceType DEF Source
      <4>4. \A z \in Source : z \in FilePaths BY <1>1, CopyFacts, SourceType
      <4>5. \A w \in Watched : fs'[w] = before[w] BY <1>1, <2>1, WatchedIs
      <4>6. \A z \in Below(job.from) : Exists(fs, z)' => fs'[Parent(z)].kind = "dir"
        BY <1>1, <4>2, <4>3 DEF SourceInv, Exists
      <4>7. \A z \in Source : before[z].kind = "dir" => fs'[z].kind = "dir"
        BY <1>1, <4>2, <4>4 DEF SourceInv
      <4> QED BY <4>5, <4>6, <4>7, SameWatched DEF SourceInv, Exists
    <3> QED BY <3>1, <3>2
  <2>3. Frame(x) \in FrameType /\ Frame(x).left = Entries(fs, x, FALSE)
        /\ Frame(x).left \subseteq Below(job.from)
    <3>1. Below(x) \subseteq Below(job.from) BY <1>1, CopyFacts, BelowSource
    <3> QED BY <1>1, <3>1 DEF Frame, FrameType, Entries, Below
  <2>4. /\ Visited(x) \in Seq(FrameType)
        /\ \A i \in DOMAIN Visited(x) : Visited(x)[i].left \subseteq Below(job.from)
        /\ \A w \in Watched : Arrived(w) \/ AwaitedIn(Visited(x), w) \/ IsPrefix(x, w)
    BY VisitedFrames
  <2>5. /\ stack' \in Seq(FrameType) /\ stack' # <<>>
        /\ \A i \in DOMAIN stack' : stack'[i].left \subseteq Below(job.from)
    <3>1. /\ stack' \in Seq(FrameType) /\ stack' # <<>>
          /\ \A i \in DOMAIN Visited(x) : stack'[i] = Visited(x)[i]
          /\ \A i \in DOMAIN stack' : i \in DOMAIN Visited(x) \/ stack'[i] = Frame(x)
      BY <1>5, <2>3, <2>4, PushIs
    <3> QED BY <2>3, <2>4, <3>1
  <2>6. ASSUME NEW w \in Watched PROVE Arrived(w)' \/ AwaitedIn(stack', w)
    <3>1. CASE Arrived(w)
      <4>1. /\ before[w].kind = "file" /\ Target(w) \in FilePaths /\ Inside(w) \in FilePaths
        BY <1>1, WatchedIs
      <4>2. fs'[Target(w)] = before[w] \/ fs'[Inside(w)] = before[w]
        BY <2>1, <3>1, <4>1 DEF Arrived
      <4> QED BY <3>1, <4>2, SameWatched DEF Arrived
    <3>2. CASE AwaitedIn(Visited(x), w) BY <1>5, <2>3, <2>4, <3>2, PushAwaits
    <3>3. CASE IsPrefix(x, w)
      <4>1. \E c \in Frame(x).left : IsPrefix(c, w) BY <1>1, <1>2, <2>3, <3>3, WayIs
      <4> QED BY <1>5, <2>3, <2>4, <4>1, PushAwaits
    <3> QED BY <2>4, <3>1, <3>2, <3>3
  <2>7. stage' = "copy" BY <1>5
  <2> QED BY <1>1, <2>1, <2>2, <2>5, <2>6, <2>7, CopyGoesOn
<1> QED BY <1>3, <1>4, <1>5

(* A file goes to a place where no other watched file has arrived.         *)
LEMMA VisitFileKeeps ==
  ASSUME DirsInv, stage = "copy", NEW x \in Top.left, UNCHANGED <<job, before, edited>>,
         VisitFile(x)
  PROVE  DirsInv'
<1>1. /\ DirsTypes /\ Copying /\ SourceInv /\ x \in Below(job.from) /\ x \in Source
      /\ x \in FilePaths /\ DOMAIN fs = FilePaths /\ before[job.from].kind = "dir"
      /\ \A w \in Watched : fs[w] = before[w]
  BY VisitFacts
<1>2. fs[x].kind = "file" BY DEF VisitFile
<1> PICK to : to = CopyTarget(x) OBVIOUS
<1>3. \/ Returns("error") /\ UNCHANGED fs
      \/ to # x /\ Returns("error") /\ fs' = [fs EXCEPT ![to] = File(<<>>)]
      \/ to # x /\ fs' = [fs EXCEPT ![to] = fs[x]] /\ stack' = Visited(x) /\ UNCHANGED stage
  BY DEF VisitFile, CopyFails
<1>4. to \in {Target(x), Inside(x)} BY DEF CopyTarget, Inside
<1>5. to # x => job.from # job.to
  <2>1. job.from = job.to => Target(x) = x BY <1>1, CopyFacts, TargetOnItself
  <2> QED BY <1>2, <2>1 DEF CopyTarget
<1>6. ASSUME NEW e, to # x, fs' = [fs EXCEPT ![to] = e]
      PROVE  DOMAIN fs' = FilePaths /\ \A z \in Source : fs'[z] = fs[z]
  <2>1. job.from # job.to BY <1>5, <1>6
  <2>2. \A z \in Source : fs'[z] = fs[z] BY <1>1, <1>4, <1>6, <2>1, CopyWritesOutside
  <2> QED BY <1>1, <1>6, <2>2
<1>7. CASE Returns("error") /\ UNCHANGED fs BY <1>1, <1>7, VisitFails
<1>8. CASE to # x /\ Returns("error") /\ fs' = [fs EXCEPT ![to] = File(<<>>)]
  <2>1. DOMAIN fs' = FilePaths /\ \A z \in Source : fs'[z] = fs[z] BY <1>6, <1>8
  <2> QED BY <1>8, <2>1, VisitFails
<1>9. ASSUME to # x, fs' = [fs EXCEPT ![to] = fs[x]], stack' = Visited(x), UNCHANGED stage
      PROVE  DirsInv'
  <2>1. DOMAIN fs' = FilePaths /\ \A z \in Source : fs'[z] = fs[z] BY <1>6, <1>9
  <2>2. ASSUME NEW w \in Watched, IsPrefix(x, w) PROVE Arrived(w)'
    <3>1. w = x BY <1>1, <1>2, <2>2, WayEnds
    <3>2. to \in FilePaths BY <1>1, <1>4, <3>1, WatchedIs
    <3>3. fs'[to] = before[w] BY <1>1, <1>9, <3>1, <3>2
    <3> QED BY <1>4, <1>5, <1>9, <3>1, <3>3, SameWatched DEF Arrived
  <2>3. ASSUME NEW w \in Watched, Arrived(w), w # x PROVE Arrived(w)'
    <3>1. /\ w \in Source /\ w \in FilePaths /\ w \in Below(job.from) /\ fs[w].kind = "file"
          /\ Target(w) \in FilePaths /\ Inside(w) \in FilePaths
      BY <1>1, WatchedIs
    <3>2. Parent(x) # w /\ Parent(w) # x
      BY <1>1, <1>2, <3>1 DEF SourceInv, Exists
    <3>3. /\ Target(w) # Target(x) /\ Inside(w) # Inside(x)
          /\ Inside(w) # Target(x) /\ Inside(x) # Target(w)
      BY <1>1, <2>3, <3>1, <3>2, CopyFacts, TargetsDiffer
    <3>4. Target(w) # to /\ Inside(w) # to BY <1>4, <3>3
    <3>5. fs'[Target(w)] = fs[Target(w)] /\ fs'[Inside(w)] = fs[Inside(w)]
      BY <1>1, <1>9, <3>1, <3>4
    <3> QED BY <2>3, <3>5, SameWatched DEF Arrived
  <2>4. \A w \in Watched : Arrived(w) \/ IsPrefix(x, w) => Arrived(w)'
    <3>1. x \in Watched => IsPrefix(x, x) BY <1>1, PathType, PrefixSelf
    <3> QED BY <2>2, <2>3, <3>1
  <2> QED BY <1>9, <2>1, <2>4, VisitGoesOn
<1> QED BY <1>3, <1>7, <1>8, <1>9

(* One entry, of any kind.                                                 *)
LEMMA VisitKeeps == ASSUME DirsInv, Visit PROVE DirsInv'
<1>1. stage = "copy" /\ UNCHANGED <<job, before, edited>> BY DEF Visit
<1> PICK x \in Top.left : VisitDir(x) \/ VisitFile(x) \/ Skip(x) BY DEF Visit
<1> QED BY <1>1, VisitDirKeeps, VisitFileKeeps, SkipKeeps

(* A directory is left, or the copy has ended with nothing awaited.        *)
LEMMA LeaveKeeps == ASSUME DirsInv, Leave PROVE DirsInv'
<1>1. /\ stage = "copy" /\ Last(stack).left = {}
      /\ UNCHANGED <<job, before, fs, refusals, edited>>
  BY DEF Leave, Top
<1>2. DirsTypes /\ Copying BY <1>1 DEF DirsInv, DirsTypes
<1>3. /\ SourceInv /\ before[job.from].kind = "dir"
      /\ \A i \in DOMAIN stack : stack[i].left \subseteq Below(job.from)
      /\ \A w \in Watched : Arrived(w) \/ AwaitedIn(stack, w)
      /\ ~(job.FailIfExists /\ Exists(before, job.to))
      /\ stack \in Seq(FrameType) /\ stack # <<>> /\ DOMAIN fs = FilePaths
  BY <1>1, <1>2 DEF DirsInv, CopyInv, RefusedInv, DirsTypes
<1>4. CASE Len(stack) > 1
  <2>1. stack' = Front(stack) /\ stage' = "copy" BY <1>1, <1>4 DEF Leave
  <2>2. SourceInv' BY <1>1, <1>2, <1>3, SourceKept
  <2>3. /\ stack' \in Seq(FrameType) /\ stack' # <<>>
        /\ \A i \in DOMAIN stack' : i \in DOMAIN stack /\ stack'[i] = stack[i]
    BY <1>3, <1>4, <2>1, PopIs
  <2>4. \A i \in DOMAIN stack' : stack'[i].left \subseteq Below(job.from) BY <1>3, <2>3
  <2>5. \A w \in Watched : Arrived(w) => Arrived(w)' BY <1>1, SameWatched DEF Arrived
  <2>6. \A w \in Watched : AwaitedIn(stack, w) => AwaitedIn(stack', w)
    BY <1>1, <1>3, <2>1, PopAwaits
  <2>7. \A w \in Watched : Arrived(w)' \/ AwaitedIn(stack', w) BY <1>3, <2>5, <2>6
  <2> QED BY <1>1, <1>2, <1>3, <2>1, <2>2, <2>3, <2>4, <2>7, CopyGoesOn
<1>5. CASE ~(Len(stack) > 1)
  <2>1. Copied BY <1>5 DEF Leave
  <2>2. \A w \in Watched : Arrived(w)
    <3>1. Len(stack) <= 1 BY <1>3, <1>5
    <3> QED BY <1>1, <1>3, <3>1, PopAwaits
  <2>3. \A w \in Watched' : Arrived(w)' BY <1>1, <2>2, SameWatched DEF Arrived
  <2>4. \/ stage' = "done" /\ result' = "ok" /\ job.op = "CopyDir"
        \/ stage' = "remove" /\ job.op = "MoveDir"
    BY <1>2, <2>1 DEF Copied, Returns, Copying
  <2>5. stack' = <<>> BY <2>1 DEF Copied, Returns
  <2>6. DirsTypes' BY <1>1, <1>2, <2>4, <2>5 DEF DirsTypes, CopyJob, Moved, Copying
  <2>7. IdleInv' /\ CopyInv' BY <2>4 DEF IdleInv, CopyInv
  <2>8. RemoveInv' /\ DoneInv' BY <1>1, <1>3, <2>3, <2>4 DEF RemoveInv, DoneInv
  <2>9. RefusedInv' BY <1>1, <1>3 DEF RefusedInv, Exists
  <2> QED BY <2>6, <2>7, <2>8, <2>9 DEF DirsInv
<1> QED BY <1>4, <1>5

(* The source is removed, and what has arrived is not in it.               *)
LEMMA RemoveAllKeeps == ASSUME DirsInv, RemoveAll PROVE DirsInv'
<1> PICK gone : /\ gone \subseteq Source
                /\ fs' = [x \in FilePaths |-> IF x \in gone THEN NoEntry ELSE fs[x]]
                /\ \/ gone = Source /\ Returns("ok")
                   \/ Returns("error")
  BY DEF RemoveAll, Source
<1>1. /\ stage = "remove" /\ UNCHANGED <<job, before, edited>> /\ DirsTypes
      /\ DOMAIN fs' = FilePaths /\ DOMAIN fs = FilePaths
  BY DEF RemoveAll, DirsInv, DirsTypes
<1>2. /\ stage' = "done" /\ stack' = <<>> /\ result' \in {"ok", "error"}
      /\ result' = "ok" => gone = Source
  BY DEF Returns
<1>3. DirsTypes' BY <1>1, <1>2 DEF DirsTypes, CopyJob, Moved, Copying
<1>4. IdleInv' /\ CopyInv' /\ RemoveInv' BY <1>2 DEF IdleInv, CopyInv, RemoveInv
<1>5. ASSUME Copying PROVE DoneInv' /\ RefusedInv'
  <2>1. /\ before[job.from].kind = "dir" /\ job.op = "MoveDir"
        /\ \A w \in Watched : Arrived(w)
        /\ ~(job.FailIfExists /\ Exists(before, job.to))
    BY <1>1, <1>5 DEF DirsInv, RemoveInv, RefusedInv
  <2>2. ASSUME NEW w \in Watched PROVE Arrived(w)'
    <3>1. /\ w \in Source /\ Target(w) \in FilePaths /\ Inside(w) \in FilePaths /\ job.from # job.to
      BY <1>1, <1>5, <2>1, WatchedIs DEF Arrived
    <3>2. Target(w) \notin Source /\ Inside(w) \notin Source
      BY <1>1, <1>5, <3>1, CopyFacts, TargetOutside
    <3>3. fs'[Target(w)] = fs[Target(w)] /\ fs'[Inside(w)] = fs[Inside(w)]
      BY <3>1, <3>2
    <3> QED BY <1>1, <2>1, <3>3, SameWatched DEF Arrived
  <2>3. result' = "ok" => \A x \in Source : fs'[x] = NoEntry
    BY <1>1, <1>2, <1>5, CopyFacts, SourceType
  <2>4. NoEntry.kind = "none" BY DEF NoEntry
  <2>5. DoneInv' BY <1>1, <2>2, <2>3, <2>4, SameWatched DEF DoneInv, Exists
  <2>6. RefusedInv' BY <1>1, <2>1 DEF RefusedInv, Exists
  <2> QED BY <2>5, <2>6
<1>6. Copying' = Copying BY <1>1, SameWatched
<1> QED BY <1>3, <1>4, <1>5, <1>6 DEF DirsInv

(* What the other program writes is not watched, and is no directory.      *)
LEMMA EditKeeps ==
  ASSUME DirsInv, NEW p \in FilePaths, NEW e, EditFile(p, e)
  PROVE  DirsInv'
<1>1. /\ stage \in {"copy", "remove", "delete"} /\ fs[Parent(p)].kind = "dir"
      /\ fs[p].kind \in {"none", "file"} /\ fs' = [fs EXCEPT ![p] = e]
      /\ edited' = edited \union {p}
      /\ UNCHANGED <<job, before, stage, stack, found, result>>
  BY DEF EditFile
<1>2. DirsTypes /\ DOMAIN fs = FilePaths /\ DOMAIN fs' = FilePaths BY <1>1 DEF DirsInv, DirsTypes
<1>3. DirsTypes' BY <1>1, <1>2 DEF DirsTypes, CopyJob, Moved, Copying
<1>4. IdleInv' BY <1>1 DEF IdleInv
<1>5. Copying' = Copying BY <1>1 DEF Copying
<1>6. ASSUME Copying PROVE CopyInv' /\ RemoveInv' /\ DoneInv' /\ RefusedInv'
  <2>1. \A z : Target(z)' = Target(z) /\ Inside(z)' = Inside(z)
    BY <1>1 DEF Target, Inside
  <2>2. Source' = Source BY <1>1 DEF Source
  <2>3. ASSUME NEW w \in Watched'
        PROVE  /\ w \in Watched /\ fs'[w] = fs[w]
               /\ fs'[Target(w)] = fs[Target(w)] /\ fs'[Inside(w)] = fs[Inside(w)]
    <3>1. w \in Files(before, job.from) /\ edited' \intersect {w, Target(w), Inside(w)} = {}
      BY <1>1, <2>1, <2>3 DEF Watched, Untouched, Inside, Files
    <3>2. p \notin {w, Target(w), Inside(w)} BY <1>1, <3>1
    <3>3. w \in Watched BY <1>1, <3>1 DEF Watched, Untouched, Inside
    <3>4. \A q : q # p => fs'[q] = fs[q] BY <1>1, <1>2
    <3> QED BY <3>2, <3>3, <3>4
  <2>4. ASSUME NEW w \in Watched' PROVE Arrived(w) => Arrived(w)'
    BY <1>1, <2>1, <2>3 DEF Arrived
  <2>5. CASE stage = "copy"
    <3>1. /\ before[job.from].kind = "dir" /\ SourceInv /\ stack # <<>>
          /\ \A i \in DOMAIN stack : stack[i].left \subseteq Below(job.from)
          /\ \A w \in Watched : Arrived(w) \/ AwaitedIn(stack, w)
      BY <1>6, <2>5 DEF DirsInv, CopyInv
    <3>2. \A q : q # p => fs'[q] = fs[q] BY <1>1, <1>2
    <3>3. \A z \in Source : before[z].kind = "dir" => fs'[z].kind = "dir"
      BY <1>1, <3>1, <3>2 DEF SourceInv
    <3>4. ASSUME NEW z \in Below(job.from), Exists(fs, z)'
          PROVE  fs'[Parent(z)].kind = "dir"
      <4>1. CASE z = p
        <5>1. Parent(p) # p BY <1>1
        <5> QED BY <1>1, <3>2, <4>1, <5>1
      <4>2. CASE z # p
        <5>1. Exists(fs, z) BY <3>2, <3>4, <4>2 DEF Exists
        <5>2. fs[Parent(z)].kind = "dir" BY <3>1, <5>1 DEF SourceInv
        <5>3. Parent(z) # p BY <1>1, <5>2
        <5> QED BY <3>2, <5>2, <5>3
      <4> QED BY <4>1, <4>2
    <3>5. \A w \in Watched' : fs'[w] = before[w] BY <2>3, <3>1 DEF SourceInv
    <3>6. SourceInv' BY <1>1, <2>2, <3>3, <3>4, <3>5 DEF SourceInv
    <3>7. \A w \in Watched' : Arrived(w)' \/ AwaitedIn(stack, w) BY <2>3, <2>4, <3>1
    <3>8. CopyInv' BY <1>1, <3>1, <3>6, <3>7 DEF CopyInv, AwaitedIn
    <3>9. RemoveInv' /\ DoneInv' BY <1>1, <2>5 DEF RemoveInv, DoneInv
    <3>10. RefusedInv' BY <1>1, <1>6, <2>5 DEF DirsInv, RefusedInv, Exists
    <3> QED BY <3>8, <3>9, <3>10
  <2>6. CASE stage = "remove"
    <3>1. CopyInv' /\ DoneInv' BY <1>1, <2>6 DEF CopyInv, DoneInv
    <3>2. /\ before[job.from].kind = "dir" /\ job.op = "MoveDir"
          /\ \A w \in Watched : Arrived(w)
      BY <1>6, <2>6 DEF DirsInv, RemoveInv
    <3>3. \A w \in Watched' : Arrived(w)' BY <2>3, <2>4, <3>2
    <3>4. RemoveInv' BY <1>1, <3>2, <3>3 DEF RemoveInv
    <3>5. RefusedInv' BY <1>1, <1>6, <2>6 DEF DirsInv, RefusedInv, Exists
    <3> QED BY <3>1, <3>4, <3>5
  <2>7. stage # "delete" BY <1>2, <1>6 DEF DirsTypes, Copying
  <2> QED BY <1>1, <2>5, <2>6, <2>7
<1> QED BY <1>3, <1>4, <1>5, <1>6 DEF DirsInv

(* The calls that do not copy.                                             *)
LEMMA OthersKeep ==
  ASSUME DirsInv, DeleteDir \/ Copy_File_Posix \/ Count \/ DeleteFiles \/ DeleteOne \/ DeleteEnds
  PROVE  DirsInv'
<1>1. /\ DirsTypes /\ ~Copying /\ job.op # "ChangeExt" /\ UNCHANGED <<job, before>>
      /\ stage' \in {"done", "remove", "delete"}
      /\ stage' = "delete" => job.op = "DeleteFiles"
  <2>1. DirsTypes BY DEF DirsInv
  <2>2. CASE DeleteDir BY <2>1, <2>2 DEF DeleteDir, Returns, Copying
  <2>3. CASE Copy_File_Posix BY <2>1, <2>3 DEF Copy_File_Posix, Returns, Copying
  <2>4. CASE Count BY <2>1, <2>4 DEF Count, Returns, Copying
  <2>5. CASE DeleteFiles BY <2>1, <2>5 DEF DeleteFiles, Returns, Copying
  <2>6. CASE DeleteOne BY <2>1, <2>6 DEF DeleteOne, DirsTypes, Copying
  <2>7. CASE DeleteEnds BY <2>1, <2>7 DEF DeleteEnds, Returns, DirsTypes, Copying
  <2> QED BY <2>2, <2>3, <2>4, <2>5, <2>6, <2>7
<1>2. DOMAIN fs = FilePaths /\ stack \in Seq(FrameType) BY <1>1 DEF DirsTypes
<1>3. stack' = stack \/ stack' = <<>>
  BY DEF DeleteDir, Copy_File_Posix, Count, DeleteFiles, DeleteOne, DeleteEnds, Returns
<1>4. DOMAIN fs' = DOMAIN fs
  BY DEF DeleteDir, Copy_File_Posix, Count, DeleteFiles, DeleteOne, DeleteEnds
<1>5. DirsTypes'
  <2>1. <<>> \in Seq(FrameType) OBVIOUS
  <2>2. stack' \in Seq(FrameType) /\ DOMAIN fs' = FilePaths BY <1>2, <1>3, <1>4, <2>1
  <2> QED BY <1>1, <2>2 DEF DirsTypes, Copying
<1>6. ~Copying' /\ IdleInv' BY <1>1 DEF Copying, IdleInv
<1> QED BY <1>5, <1>6 DEF DirsInv

(* ChangeExt moves the directory when the new name is there already.       *)
LEMMA ChangeExtKeeps == ASSUME DirsInv, ChangeExt PROVE DirsInv'
<1>1. /\ stage = "idle" /\ job.op = "ChangeExt" /\ UNCHANGED <<before, edited>>
      /\ DirsTypes /\ fs = before /\ edited = {} /\ stack = <<>>
  BY DEF ChangeExt, DirsInv, IdleInv
<1>2. /\ {"op", "from", "to", "FailIfExists", "callback"} \subseteq DOMAIN job
      /\ CopyJob(job, before) /\ DOMAIN fs = FilePaths
  BY <1>1 DEF DirsTypes
<1>3. \/ job' = [job EXCEPT !.op = "MoveDir"] /\ UNCHANGED <<fs, stage, stack>>
      \/ UNCHANGED job /\ stage' = "done" /\ stack' = <<>> /\ DOMAIN fs' = FilePaths
  BY <1>1, <1>2 DEF ChangeExt, Returns
<1>4. CASE job' = [job EXCEPT !.op = "MoveDir"] /\ UNCHANGED <<fs, stage, stack>>
  <2>1. /\ job'.op = "MoveDir" /\ job'.from = job.from /\ job'.to = job.to
        /\ job'.FailIfExists = job.FailIfExists /\ DOMAIN job' = DOMAIN job
    BY <1>2, <1>4
  <2>2. CopyJob(job', before)
    BY <1>2, <2>1 DEF CopyJob, Moved
  <2>3. DirsTypes' BY <1>1, <1>2, <1>4, <2>1, <2>2 DEF DirsTypes, CopyJob, Moved
  <2>4. IdleInv' BY <1>1, <1>4 DEF IdleInv
  <2>5. CopyInv' /\ RemoveInv' /\ DoneInv' BY <1>1, <1>4 DEF CopyInv, RemoveInv, DoneInv
  <2>6. RefusedInv' BY <1>1, <1>4 DEF RefusedInv
  <2> QED BY <2>3, <2>4, <2>5, <2>6 DEF DirsInv
<1>5. CASE UNCHANGED job /\ stage' = "done" /\ stack' = <<>> /\ DOMAIN fs' = FilePaths
  <2>1. ~Copying' BY <1>1, <1>5 DEF Copying
  <2>2. DirsTypes' BY <1>1, <1>5, <2>1 DEF DirsTypes, CopyJob, Moved, Copying
  <2>3. IdleInv' BY <1>5 DEF IdleInv
  <2> QED BY <2>1, <2>2, <2>3 DEF DirsInv
<1> QED BY <1>3, <1>4, <1>5

(* The first states have the invariant.                                    *)
LEMMA DirsInit_Inv == DirsInit => Climbing \/ DirsInv
<1> SUFFICES ASSUME DirsInit, ~Above(job) PROVE DirsInv
  <2>1. ASSUME DirsInit, Above(job) PROVE Climbing
    BY <2>1, JobsAssumption DEF DirsInit, Climbing, Above
  <2> QED BY <2>1
<1>1. /\ fs \in FileTrees /\ before = fs /\ job \in Jobs /\ stage = "idle" /\ stack = <<>>
      /\ edited = {}
  BY DEF DirsInit
<1>2. DOMAIN fs = FilePaths BY <1>1, TreesAssumption
<1>3. job.op \in {"CopyDir", "MoveDir", "ChangeExt"} =>
        /\ {"op", "from", "to", "FailIfExists", "callback"} \subseteq DOMAIN job
        /\ CopyJob(job, before)
  BY <1>1, JobsAssumption DEF CopyJob, Above
<1>4. DirsTypes
  <2>1. job.from \in FilePaths BY <1>1, JobsAssumption
  <2> QED BY <1>1, <1>2, <1>3, <2>1 DEF DirsTypes
<1>5. IdleInv /\ CopyInv /\ RemoveInv /\ DoneInv /\ RefusedInv
  BY <1>1 DEF IdleInv, CopyInv, RemoveInv, DoneInv, RefusedInv
<1> QED BY <1>4, <1>5 DEF DirsInv

(* Every step keeps it.                                                    *)
LEMMA DirsNext_Inv == DirsInv /\ [DirsNext]_pvars => DirsInv'
<1> SUFFICES ASSUME DirsInv, [DirsNext]_pvars PROVE DirsInv' OBVIOUS
<1>1. CASE StartCopy BY <1>1, StartCopyKeeps
<1>2. CASE Visit BY <1>2, VisitKeeps
<1>3. CASE Leave BY <1>3, LeaveKeeps
<1>4. CASE RemoveAll BY <1>4, RemoveAllKeeps
<1>5. CASE ChangeExt BY <1>5, ChangeExtKeeps
<1>6. CASE DeleteDir \/ Copy_File_Posix \/ Count \/ DeleteFiles \/ DeleteOne \/ DeleteEnds
  BY <1>6, OthersKeep
<1>7. CASE \E x \in FilePaths, e \in {NoEntry} \union {File(d) : d \in Data} : EditFile(x, e)
  BY <1>7, EditKeeps
<1>8. CASE UNCHANGED pvars
  <2>1. UNCHANGED <<fs, before, job, stage, stack, result, edited>> BY <1>8 DEF pvars
  <2>2. DirsTypes'
    <3>1. DirsTypes BY DEF DirsInv
    <3>2. CopyJob(job, before)' = CopyJob(job, before) BY <2>1 DEF CopyJob, Moved
    <3>3. Copying' = Copying BY <2>1 DEF Copying
    <3> QED BY <2>1, <3>1, <3>2, <3>3 DEF DirsTypes
  <2>3. IdleInv' BY <2>1 DEF DirsInv, IdleInv
  <2>4. Copying' = Copying BY <2>1 DEF Copying
  <2>5. Watched' = Watched
    <3>1. \A x : Target(x)' = Target(x) BY <2>1 DEF Target
    <3>2. \A x : Untouched(x)' = Untouched(x) BY <2>1, <3>1 DEF Untouched
    <3>3. Files(before, job.from)' = Files(before, job.from) BY <2>1 DEF Files
    <3> QED BY <3>2, <3>3 DEF Watched
  <2>6. \A x : Arrived(x)' = Arrived(x) BY <2>1 DEF Arrived, Inside, Target
  <2>7. \A w : AwaitedIn(stack', w) = AwaitedIn(stack, w) BY <2>1 DEF AwaitedIn
  <2>8. SourceInv => SourceInv' BY <2>1, <2>5 DEF SourceInv, Source, Exists
  <2>9. CopyInv => CopyInv' BY <2>1, <2>5, <2>6, <2>7, <2>8 DEF CopyInv
  <2>10. RemoveInv => RemoveInv' BY <2>1, <2>5, <2>6 DEF RemoveInv
  <2>11. DoneInv => DoneInv' BY <2>1, <2>5, <2>6 DEF DoneInv, Source, Exists
  <2>12. RefusedInv => RefusedInv' BY <2>1 DEF RefusedInv, Exists
  <2> QED BY <2>2, <2>3, <2>4, <2>9, <2>10, <2>11, <2>12 DEF DirsInv
<1> QED BY <1>1, <1>2, <1>3, <1>4, <1>5, <1>6, <1>7, <1>8 DEF DirsNext

(* A call that goes upwards remains one.                                   *)
LEMMA ClimbingStays == Climbing /\ [DirsNext]_pvars => Climbing'
<1> SUFFICES ASSUME Climbing, [DirsNext]_pvars PROVE Climbing' OBVIOUS
<1>1. UNCHANGED job \/ job' = [job EXCEPT !.op = "MoveDir"]
  BY DEF DirsNext, StartCopy, Visit, Leave, RemoveAll, DeleteDir, ChangeExt,
         Copy_File_Posix, Count, DeleteFiles, DeleteOne, DeleteEnds, EditFile, pvars
<1>2. CASE UNCHANGED job BY <1>2 DEF Climbing, Above
<1>3. CASE job' = [job EXCEPT !.op = "MoveDir"]
  <2>1. job'.op = "MoveDir" /\ job'.from = job.from /\ job'.to = job.to
        /\ DOMAIN job' = DOMAIN job
    BY <1>3 DEF Climbing
  <2> QED BY <2>1 DEF Climbing, Above
<1> QED BY <1>1, <1>2, <1>3

(* The invariant implies the property.                                     *)
LEMMA DirsInv_Safe == Climbing \/ DirsInv => CopiesSafe
<1> SUFFICES ASSUME DirsInv, Copying PROVE NothingLost /\ ExistingKept
  BY DEF CopiesSafe, Climbing, NothingLost, ExistingKept, Copying
<1>1. /\ DirsTypes /\ IdleInv /\ CopyInv /\ RemoveInv /\ DoneInv /\ RefusedInv
      /\ stage \in {"idle", "copy", "remove", "done"}
  BY DEF DirsInv, DirsTypes, Copying
<1>2. ASSUME NEW w \in Watched
      PROVE  \/ fs[w] = before[w] /\ ~(stage = "done" /\ result = "ok")
             \/ fs[Target(w)] = before[w]
             \/ fs[Append(Target(w), Name(w))] = before[w]
  <2>1. CASE stage = "idle" BY <1>1, <2>1 DEF IdleInv
  <2>2. CASE stage = "copy" BY <1>1, <2>2 DEF CopyInv, SourceInv
  <2>3. CASE stage = "remove" BY <1>1, <2>3 DEF RemoveInv, Arrived, Inside
  <2>4. CASE stage = "done" BY <1>1, <2>4 DEF DoneInv, Arrived, Inside
  <2> QED BY <1>1, <2>1, <2>2, <2>3, <2>4
<1>3. stage = "done" /\ result = "ok" /\ job.op = "MoveDir" => \A x \in Source : ~Exists(fs, x)
  BY <1>1 DEF DoneInv
<1>4. NothingLost BY <1>2, <1>3 DEF NothingLost, Watched, Source
<1>5. ExistingKept BY <1>1 DEF ExistingKept, RefusedInv
<1> QED BY <1>4, <1>5

(* For any trees of files and any calls between a source and a destination *)
(* neither of which is within the other, whatever fails and whatever       *)
(* another program writes: a file of the source of CopyDir, MoveDir or     *)
(* ChangeExt that nobody else wrote is whole in the source or in the       *)
(* destination at every moment, it is in the destination when the call     *)
(* says that it succeeded, and the source is removed only then.            *)
(* FailIfExists keeps what was there.                                      *)
THEOREM CopiesAreSafe == DirsSpec => []CopiesSafe
<1>1. DirsSpec => [](Climbing \/ DirsInv)
  BY DirsInit_Inv, DirsNext_Inv, ClimbingStays, PTL DEF DirsSpec
<1> QED BY <1>1, DirsInv_Safe, PTL

-----------------------------------------------------------------------------
(* The searches, in a tree.                                                *)

(* A search without patterns finds everything.                             *)
LEMMA EverythingIs ==
  /\ Everything.NameContentList = {} /\ Everything.ExtContentList = {}
  /\ \A n : FileName(Everything, n) /\ FileExt(Everything, n)
            /\ DirName(Everything, n) /\ DirExt(Everything, n)
<1>1. Everything.NameContentList = {} /\ Everything.ExtContentList = {}
  BY DEF Everything, OneString
<1> QED BY <1>1 DEF FileName, FileExt, DirName, DirExt

(* Where the comments and the code agree, a file is found if it is wanted. *)
LEMMA FileWanted ==
  ASSUME NEW q \in Searches(Lists), AsDocumented(q), NEW n
  PROVE  FileName(q, n) /\ FileExt(q, n) <=> Wanted(q, n)
<1>1. /\ (q.NameWholeWord /\ Cardinality(q.NameContentList) <= 1) = q.NameWholeWord
      /\ (q.ExtWholeWord /\ Cardinality(q.ExtContentList) <= 1) = q.ExtWholeWord
      /\ q.NameWholeWord = q.ExtWholeWord
  BY DEF AsDocumented, Searches
<1>2. CASE q.FindAll BY <1>1, <1>2 DEF FileName, FileExt, Wanted
<1>3. CASE ~q.FindAll BY <1>1, <1>3 DEF FileName, FileExt, Wanted
<1> QED BY <1>2, <1>3

(* So is a directory if one match is enough and case does not count.       *)
LEMMA DirWanted ==
  ASSUME NEW q \in Searches(Lists), AsDocumented(q), ~q.FindAll, ~q.CaseSensitive, NEW n
  PROVE  DirName(q, n) /\ DirExt(q, n) <=> Wanted(q, n)
<1>1. /\ (q.NameWholeWord /\ Cardinality(q.NameContentList) <= 1) = q.NameWholeWord
      /\ (q.ExtWholeWord /\ Cardinality(q.ExtContentList) <= 1) = q.ExtWholeWord
      /\ q.NameWholeWord = q.ExtWholeWord
  BY DEF AsDocumented, Searches
<1> QED BY <1>1 DEF DirName, DirExt, Wanted

(* Each pattern for the name is compared as it would be alone.             *)
LEMMA NameAlone ==
  ASSUME NEW q \in Searches(Lists), q.NameContentList # {}, NEW n
  PROVE  FileName(q, n) /\ FileExt(q, n) <=>
           IF q.FindAll
             THEN \A p \in q.NameContentList :
                    FileName(Alone(q, p), n) /\ FileExt(Alone(q, p), n)
             ELSE \E p \in q.NameContentList :
                    FileName(Alone(q, p), n) /\ FileExt(Alone(q, p), n)
<1>1. \A p : /\ Alone(q, p).NameContentList = {p}
              /\ Alone(q, p).NameWholeWord = q.NameWholeWord
              /\ Alone(q, p).ExtContentList = q.ExtContentList
              /\ Alone(q, p).ExtWholeWord = q.ExtWholeWord
              /\ Alone(q, p).CaseSensitive = q.CaseSensitive
              /\ Alone(q, p).FindAll = q.FindAll
  BY DEF Alone, Searches
<1> DEFINE hit(p) == Matches(Stem[n], p, IF q.FindAll THEN q.NameWholeWord
                                         ELSE q.ExtWholeWord, q.CaseSensitive)
<1>2. \A p : FileName(Alone(q, p), n) <=> hit(p)
  BY <1>1 DEF FileName
<1>3. \A p : FileExt(Alone(q, p), n) <=> FileExt(q, n)
  BY <1>1 DEF FileExt
<1>4. FileName(q, n) <=> IF q.FindAll THEN \A p \in q.NameContentList : hit(p)
                                      ELSE \E p \in q.NameContentList : hit(p)
  BY DEF FileName
<1> HIDE DEF hit
<1> QED BY <1>2, <1>3, <1>4

(* The laws of the searches.                                               *)
LEMMA SearchesAreRight ==
  ASSUME NEW tree \in FileTrees, NEW top \in FilePaths, NEW q \in Searches(Lists)
  PROVE  SearchesRight(tree, top, q)
<1>1. ASSUME NEW r \in BOOLEAN, AsDocumented(q)
      PROVE  ListFiles(tree, top, r, q) = {x \in Entries(tree, top, r) :
                        tree[x].kind # "dir" /\ Wanted(q, Name(x))}
  BY <1>1, FileWanted DEF ListFiles
<1>2. ASSUME NEW r \in BOOLEAN, AsDocumented(q), ~q.FindAll,
             ~q.CaseSensitive
      PROVE  ListDirs(tree, top, r, q) = {x \in Entries(tree, top, r) :
                       tree[x].kind = "dir" /\ Wanted(q, Name(x))}
  BY <1>2, DirWanted DEF ListDirs
<1>3. ASSUME NEW r \in BOOLEAN, q = Everything
      PROVE  ListFiles(tree, top, r, q) \union ListDirs(tree, top, r, q)
               = Entries(tree, top, r)
  BY <1>3, EverythingIs DEF ListFiles, ListDirs
<1> DEFINE dirs == {top} \union ListDirs(tree, top, TRUE, Everything)
<1>4. dirs = {top} \union {d \in Below(top) : tree[d].kind = "dir"}
  <2>1. \A d : tree[d].kind = "dir" => Exists(tree, d) BY DEF Exists
  <2> QED BY <2>1, EverythingIs DEF ListDirs, Entries
<1>5. ListFiles(tree, top, TRUE, q) = UNION {ListFiles(tree, d, FALSE, q) : d \in dirs}
  <2> HIDE DEF dirs
  <2>1. ASSUME NEW x \in ListFiles(tree, top, TRUE, q)
        PROVE  \E d \in dirs : x \in ListFiles(tree, d, FALSE, q)
    <3>1. x \in Below(top) /\ Exists(tree, x) BY DEF ListFiles, Entries
    <3>2. tree[Parent(x)].kind = "dir" BY <3>1, TreeParents
    <3>3. Parent(x) \in {top} \union Below(top) /\ x \in Below(Parent(x)) BY <3>1, ParentIs
    <3>4. Parent(x) \in dirs BY <1>4, <3>2, <3>3
    <3>5. x \in ListFiles(tree, Parent(x), FALSE, q)
      BY <3>3 DEF ListFiles, Entries
    <3> QED BY <3>4, <3>5
  <2>2. ASSUME NEW d \in dirs, NEW x \in ListFiles(tree, d, FALSE, q)
        PROVE  x \in ListFiles(tree, top, TRUE, q)
    <3>1. Below(d) \subseteq Below(top) BY <1>4, BelowBelow
    <3> QED BY <3>1 DEF ListFiles, Entries
  <2> QED BY <2>1, <2>2
<1>6. ASSUME NEW r \in BOOLEAN, q.NameContentList # {}, NEW x \in Entries(tree, top, r)
      PROVE  x \in ListFiles(tree, top, r, q) <=>
               IF q.FindAll
                 THEN \A p \in q.NameContentList :
                        x \in ListFiles(tree, top, r, Alone(q, p))
                 ELSE \E p \in q.NameContentList :
                        x \in ListFiles(tree, top, r, Alone(q, p))
  BY <1>6, NameAlone DEF ListFiles
<1> QED BY <1>1, <1>2, <1>3, <1>5, <1>6 DEF SearchesRight

-----------------------------------------------------------------------------
(* DeleteFiles.                                                            *)

Listed == ListFiles(before, job.from, job.recursive, job.search)
Removed == {x \in FilePaths : Exists(before, x) /\ ~Exists(fs, x)}

(* What has changed was found or written by somebody else, and as long as  *)
(* nobody else has, the count is the number of files that are gone.        *)
CountInv ==
  edited = {} =>
    /\ \A x \in found : Exists(fs, x)
    /\ stage = "delete" \/ (stage = "done" /\ result # -1) =>
         IsFiniteSet(Removed) /\ result = Cardinality(Removed)

FilesInv ==
  job.op = "DeleteFiles" =>
    /\ stage \in {"idle", "delete", "done"}
    /\ found \subseteq Listed
    /\ \A x \in FilePaths : fs[x] # before[x] =>
         x \in edited \union Listed /\ before[x].kind # "dir"
    /\ CountInv

(* What the search found at first does not change.                         *)
LEMMA SameListed ==
  ASSUME UNCHANGED <<job, before>>
  PROVE  Listed' = Listed
BY DEF Listed

(* It is files.                                                            *)
LEMMA ListedIs == \A x \in Listed : x \in FilePaths /\ Exists(before, x) /\ before[x].kind # "dir"
BY DEF Listed, ListFiles, Entries, Below

(* The list is made.                                                       *)
LEMMA DeleteFilesKeeps ==
  ASSUME DirsTypes, IdleInv, FilesInv, DeleteFiles
  PROVE  FilesInv'
<1>1. /\ stage = "idle" /\ job.op = "DeleteFiles" /\ fs = before /\ edited = {}
      /\ UNCHANGED <<job, before, fs, edited>>
  BY DEF DeleteFiles, IdleInv
<1>2. Listed = ListFiles(fs, job.from, job.recursive, job.search) BY <1>1 DEF Listed
<1>3. \/ stage' = "delete" /\ result' = 0 /\ found' \subseteq Listed
      \/ stage' = "done" /\ result' = -1 /\ UNCHANGED found
  BY <1>2 DEF DeleteFiles, Returns
<1>4. found' \subseteq Listed /\ stage' \in {"delete", "done"} BY <1>1, <1>3 DEF FilesInv
<1>5. \A x \in found' : Exists(fs, x)' BY <1>1, <1>4, ListedIs DEF Exists
<1>6. Removed' = {} BY <1>1 DEF Removed, Exists
<1>7. IsFiniteSet({}) /\ Cardinality({}) = 0 BY FS_EmptySet
<1>8. CountInv' BY <1>3, <1>5, <1>6, <1>7 DEF CountInv
<1> QED BY <1>1, <1>4, <1>8, SameListed DEF FilesInv

(* A file of the list goes, and is counted once.                           *)
LEMMA DeleteOneKeeps ==
  ASSUME DirsTypes, FilesInv, DeleteOne
  PROVE  FilesInv'
<1>1. /\ stage = "delete" /\ job.op = "DeleteFiles" /\ DOMAIN fs = FilePaths
      /\ UNCHANGED <<job, before, edited, stage>>
  BY DEF DeleteOne, DirsTypes
<1> PICK x \in found :
      /\ found' = found \ {x}
      /\ \/ fs' = [fs EXCEPT ![x] = NoEntry] /\ result' = result + 1
         \/ UNCHANGED <<fs, result>>
  BY DEF DeleteOne
<1>2. /\ found \subseteq Listed /\ CountInv
      /\ \A z \in FilePaths : fs[z] # before[z] =>
           z \in edited \union Listed /\ before[z].kind # "dir"
  BY <1>1 DEF FilesInv
<1>3. x \in Listed /\ x \in FilePaths /\ Exists(before, x) /\ before[x].kind # "dir"
  BY <1>2, ListedIs
<1>4. \A z \in FilePaths : z # x => fs'[z] = fs[z] BY <1>1
<1>5. \A z \in FilePaths : fs'[z] # before[z] =>
        z \in edited \union Listed /\ before[z].kind # "dir"
  BY <1>2, <1>3, <1>4
<1>6. ASSUME edited = {} PROVE CountInv'
  <2>1. /\ \A z \in found : Exists(fs, z)
        /\ IsFiniteSet(Removed) /\ result = Cardinality(Removed)
    BY <1>1, <1>2, <1>6 DEF CountInv
  <2>2. \A z \in found' : z \in FilePaths /\ z # x BY <1>2, ListedIs
  <2>3. \A z \in found' : Exists(fs, z)'
    BY <1>4, <2>1, <2>2 DEF Exists
  <2>4. CASE fs' = [fs EXCEPT ![x] = NoEntry] /\ result' = result + 1
    <3>1. fs'[x] = NoEntry /\ NoEntry.kind = "none" BY <1>1, <1>3, <2>4 DEF NoEntry
    <3>2. Removed' = Removed \union {x} BY <1>1, <1>3, <1>4, <3>1 DEF Removed, Exists
    <3>3. x \notin Removed BY <2>1 DEF Removed
    <3>4. IsFiniteSet(Removed \union {x})
          /\ Cardinality(Removed \union {x}) = Cardinality(Removed) + 1
      BY <2>1, <3>3, FS_AddElement
    <3>5. IsFiniteSet(Removed') /\ result' = Cardinality(Removed')
      BY <2>1, <2>4, <3>2, <3>4
    <3> QED BY <1>1, <2>3, <3>5 DEF CountInv
  <2>5. CASE UNCHANGED <<fs, result>>
    <3>1. Removed' = Removed BY <1>1, <2>5 DEF Removed, Exists
    <3> QED BY <1>1, <2>1, <2>3, <2>5, <3>1 DEF CountInv
  <2> QED BY <2>4, <2>5
<1>7. CountInv' BY <1>1, <1>6 DEF CountInv
<1> QED BY <1>1, <1>2, <1>5, <1>7, SameListed DEF FilesInv

(* Every step keeps the invariant of DeleteFiles.                          *)
LEMMA FilesInvKept ==
  ASSUME DirsTypes, IdleInv, FilesInv, [DirsNext]_pvars
  PROVE  FilesInv'
<1>1. CASE DeleteFiles BY <1>1, DeleteFilesKeeps
<1>2. CASE DeleteOne BY <1>2, DeleteOneKeeps
<1>3. CASE DeleteEnds
  <2>1. /\ stage = "delete" /\ stage' = "done" /\ result' = result
        /\ UNCHANGED <<job, before, fs, edited, found>>
    BY <1>3 DEF DeleteEnds, Returns
  <2>2. Removed' = Removed /\ Listed' = Listed BY <2>1 DEF Removed, Listed, Exists
  <2>3. CountInv => CountInv' BY <2>1, <2>2 DEF CountInv, Exists
  <2> QED BY <2>1, <2>2, <2>3 DEF FilesInv
<1>4. ASSUME NEW p \in FilePaths, NEW e, EditFile(p, e) PROVE FilesInv'
  <2>1. /\ fs[p].kind \in {"none", "file"} /\ fs' = [fs EXCEPT ![p] = e]
        /\ edited' = edited \union {p} /\ stage \in {"copy", "remove", "delete"}
        /\ UNCHANGED <<job, before, stage, stack, found, result>> /\ DOMAIN fs = FilePaths
    BY <1>4 DEF EditFile, DirsTypes
  <2>2. edited' # {} BY <2>1
  <2>3. ASSUME job.op = "DeleteFiles", NEW z \in FilePaths, fs'[z] # before[z]
        PROVE  z \in edited' \union Listed /\ before[z].kind # "dir"
    <3>1. CASE z = p
      <4>1. before[p].kind # "dir"
        <5>1. fs[p] # before[p] => before[p].kind # "dir" BY <2>3 DEF FilesInv
        <5> QED BY <2>1, <5>1
      <4> QED BY <2>1, <3>1, <4>1
    <3>2. CASE z # p BY <2>1, <2>3, <3>2 DEF FilesInv
    <3> QED BY <3>1, <3>2
  <2> QED BY <2>1, <2>2, <2>3, SameListed DEF FilesInv, CountInv
<1>5. CASE UNCHANGED pvars
  BY <1>5 DEF pvars, FilesInv, CountInv, Listed, Removed, Exists
<1>6. CASE /\ ~(DeleteFiles \/ DeleteOne \/ DeleteEnds) /\ DirsNext
           /\ ~\E x \in FilePaths, e \in {NoEntry} \union {File(d) : d \in Data} : EditFile(x, e)
  <2>1. ASSUME job.op = "DeleteFiles", FilesInv
        PROVE  ~(StartCopy \/ Visit \/ Leave \/ RemoveAll \/ DeleteDir \/ ChangeExt
                   \/ Copy_File_Posix \/ Count)
    <3>1. stage \in {"idle", "delete", "done"} BY <2>1 DEF FilesInv
    <3> QED BY <2>1, <3>1 DEF StartCopy, Visit, Leave, RemoveAll, DeleteDir, ChangeExt,
                              Copy_File_Posix, Count
  <2>2. job.op # "DeleteFiles" BY <1>6, <2>1 DEF DirsNext
  <2>3. job'.op # "DeleteFiles"
    <3>1. CASE ChangeExt
      <4>1. job.op = "ChangeExt" /\ (UNCHANGED job \/ job' = [job EXCEPT !.op = "MoveDir"])
        BY <3>1 DEF ChangeExt
      <4>2. "op" \in DOMAIN job BY <4>1 DEF DirsTypes
      <4> QED BY <2>2, <4>1, <4>2
    <3>2. CASE ~ChangeExt
      <4>1. UNCHANGED job
        BY <1>6, <3>2 DEF DirsNext, StartCopy, Visit, Leave, RemoveAll, DeleteDir,
           Copy_File_Posix, Count
      <4> QED BY <2>2, <4>1
    <3> QED BY <3>1, <3>2
  <2> QED BY <2>3 DEF FilesInv
<1> QED BY <1>1, <1>2, <1>3, <1>4, <1>5, <1>6

(* For any trees, searches and calls, whatever fails and whatever another  *)
(* program writes: DeleteFiles removes no directory and nothing but what   *)
(* it found, and counts what is gone; a search visits each entry once, it  *)
(* finds what its comment promises where comment and code agree, each of   *)
(* its patterns counts as it would alone, and a search of a tree is the    *)
(* union of the searches of its directories.                               *)
THEOREM FilesAreRight == DirsSpec => []FilesRight
<1>1. DirsInit => FilesInv
  <2> SUFFICES ASSUME DirsInit PROVE FilesInv OBVIOUS
  <2>1. fs = before /\ stage = "idle" /\ found = {} BY DEF DirsInit
  <2> QED BY <2>1 DEF FilesInv, CountInv
<1>2. DirsInv /\ FilesInv /\ [DirsNext]_pvars => FilesInv'
  BY FilesInvKept DEF DirsInv
<1>5. Climbing => FilesRight
  BY DEF Climbing, Above, FilesRight, OnlyFilesDeleted, SearchFinds
<1>3. DirsInv /\ FilesInv => FilesRight
  <2> SUFFICES ASSUME DirsInv, FilesInv PROVE FilesRight OBVIOUS
  <2>1. SearchFinds
    <3> SUFFICES ASSUME stage = "idle", NEW q \in Searches(Lists)
                 PROVE  SearchesRight(fs, job.from, q)
      BY DEF SearchFinds
    <3>1. fs \in FileTrees /\ job.from \in FilePaths BY DEF DirsInv, DirsTypes, IdleInv
    <3> QED BY <3>1, SearchesAreRight
  <2>2. OnlyFilesDeleted
    <3> SUFFICES ASSUME job.op = "DeleteFiles"
                 PROVE  /\ Removed \ edited \subseteq Listed
                        /\ \A x \in Removed : before[x].kind # "dir"
                        /\ stage \in {"delete", "done"} /\ edited = {} /\ result # -1 =>
                             result = Cardinality(Removed)
      BY DEF OnlyFilesDeleted, Removed, Listed
    <3>1. \A x \in Removed : x \in FilePaths /\ fs[x] # before[x] BY DEF Removed, Exists
    <3> QED BY <3>1 DEF FilesInv, CountInv
  <2> QED BY <2>1, <2>2 DEF FilesRight
<1>4. DirsSpec => [](Climbing \/ (DirsInv /\ FilesInv))
  BY <1>1, <1>2, DirsInit_Inv, DirsNext_Inv, ClimbingStays, PTL DEF DirsSpec
<1> QED BY <1>3, <1>4, <1>5, PTL

-----------------------------------------------------------------------------
(* DTree.                                                                  *)

(* A set of numbers has a least one: the intervals up to them are finite,  *)
(* and finite sets are well-founded.                                       *)
LEMMA MinimumExists ==
  ASSUME NEW S \in SUBSET Nat, S # {}
  PROVE  \E m \in S : \A s \in S : m <= s
<1>1. IsWellFoundedOn(StrictSubsetOrdering(Nat), FiniteSubsetsOf(Nat))
  BY FS_StrictSubsetOrderingWellFounded
<1>2. PICK T : T = {0..s : s \in S} OBVIOUS
<1>3. T \subseteq FiniteSubsetsOf(Nat)
  <2>1. ASSUME NEW s \in S PROVE IsFiniteSet(0..s) /\ 0..s \subseteq Nat
    BY FS_Interval
  <2> QED BY <1>2, <2>1 DEF FiniteSubsetsOf
<1>4. T # {} BY <1>2
<1>5. \E x \in T : \A y \in T : ~ (<<y, x>> \in StrictSubsetOrdering(Nat))
  BY <1>1, <1>3, <1>4, WFMin
<1>6. PICK x \in T : \A y \in T : ~ (<<y, x>> \in StrictSubsetOrdering(Nat))
  BY <1>5
<1>7. PICK m \in S : x = 0..m BY <1>2, <1>6
<1>8. ASSUME NEW s \in S, s < m PROVE FALSE
  <2>1. 0..s \in T BY <1>2
  <2>2. 0..s \subseteq 0..m /\ 0..s # 0..m
    <3>1. m \in 0..m /\ m \notin 0..s BY <1>8
    <3> QED BY <3>1, <1>8
  <2>3. 0..s \in SUBSET Nat /\ 0..m \in SUBSET Nat OBVIOUS
  <2>4. <<0..s, 0..m>> \in StrictSubsetOrdering(Nat)
    BY <2>2, <2>3 DEF StrictSubsetOrdering
  <2> QED BY <1>6, <1>7, <2>1, <2>4
<1> QED BY <1>8

(* What a tree may be made of: the nodes whose children are in T.  A set   *)
(* is closed that has every node below each of its own.                    *)
KidOver(T) == [name : Items, tree : T]
NodesOver(T) == [data : ItemTexts, kids : Seq(KidOver(T))]
Closed(T) == T \subseteq NodesOver(T)
IsTree(t) == \E T : t \in T /\ Closed(T)

LEMMA NodeParts ==
  ASSUME NEW T, NEW n \in NodesOver(T)
  PROVE  /\ n = [data |-> n.data, kids |-> n.kids]
         /\ n.data \in ItemTexts /\ n.kids \in Seq(KidOver(T))
         /\ Len(n.kids) \in Nat /\ DOMAIN n.kids = 1..Len(n.kids)
         /\ \A i \in 1..Len(n.kids) :
              /\ n.kids[i] = [name |-> n.kids[i].name, tree |-> n.kids[i].tree]
              /\ n.kids[i].name \in Items /\ n.kids[i].tree \in T
<1>1. n = [data |-> n.data, kids |-> n.kids] /\ n.data \in ItemTexts
      /\ n.kids \in Seq(KidOver(T))
  BY DEF NodesOver
<1>2. Len(n.kids) \in Nat /\ DOMAIN n.kids = 1..Len(n.kids)
  BY <1>1, LenProperties
<1>3. \A i \in 1..Len(n.kids) : n.kids[i] \in KidOver(T)
  BY <1>1, ElementOfSeq
<1>4. \A e \in KidOver(T) :
        e = [name |-> e.name, tree |-> e.tree] /\ e.name \in Items /\ e.tree \in T
  BY DEF KidOver
<1> QED BY <1>1, <1>2, <1>3, <1>4

LEMMA NodeMade ==
  ASSUME NEW T, NEW d \in ItemTexts, NEW s \in Seq(KidOver(T))
  PROVE  [data |-> d, kids |-> s] \in NodesOver(T)
BY DEF NodesOver

LEMMA NotMissing ==
  ASSUME NEW T, NEW n \in NodesOver(T)
  PROVE  n # Missing /\ OrEmpty(n) = n
<1>1. DOMAIN n = {"data", "kids"} BY DEF NodesOver
<1>2. DOMAIN Missing = {"missing"} BY DEF Missing
<1> QED BY <1>1, <1>2 DEF OrEmpty

LEMMA NodesGrow ==
  ASSUME NEW S, NEW T, S \subseteq T PROVE NodesOver(S) \subseteq NodesOver(T)
<1>1. KidOver(S) \subseteq KidOver(T) BY DEF KidOver
<1>2. \A s \in Seq(KidOver(S)) : s \in Seq(KidOver(T)) BY <1>1, SeqMonotonic
<1> QED BY <1>2 DEF NodesOver

LEMMA LeafIsNode ==
  ASSUME NEW T, NEW v \in ItemTexts
  PROVE  Leaf(v) \in NodesOver(T) /\ Empty \in NodesOver(T)
<1>1. <<>> \in Seq(KidOver(T)) BY EmptySeq
<1>2. "" \in ItemTexts BY DEF ItemTexts
<1> QED BY <1>1, <1>2, NodeMade DEF Leaf, Empty

LEMMA NodesAreTrees ==
  ASSUME NEW T, Closed(T), NEW n \in NodesOver(T)
  PROVE  Closed(T \cup {n}) /\ IsTree(n)
<1>1. NodesOver(T) \subseteq NodesOver(T \cup {n}) BY NodesGrow
<1>2. Closed(T \cup {n}) BY <1>1 DEF Closed
<1> QED BY <1>2 DEF IsTree

(* The first of some numbers is the least.                                 *)
LEMMA FirstIsLeast ==
  ASSUME NEW S \in SUBSET Nat, S # {}
  PROVE  First(S) \in S /\ \A s \in S : First(S) <= s
BY MinimumExists DEF First

LEMMA FirstIs ==
  ASSUME NEW S \in SUBSET Nat, NEW m \in S, \A s \in S : m <= s
  PROVE  First(S) = m
<1>1. First(S) \in S /\ First(S) <= m /\ m <= First(S) BY FirstIsLeast
<1>2. First(S) \in Nat /\ m \in Nat BY <1>1
<1> QED BY <1>1, <1>2

LEMMA NamedFacts ==
  ASSUME NEW T, NEW n \in NodesOver(T), NEW k
  PROVE  /\ Named(n, k) \subseteq 1..Len(n.kids)
         /\ Named(n, k) \in SUBSET Nat
         /\ Named(n, k) # {} =>
              /\ First(Named(n, k)) \in Named(n, k)
              /\ First(Named(n, k)) \in 1..Len(n.kids)
              /\ \A j \in Named(n, k) : First(Named(n, k)) <= j
<1>1. Named(n, k) \subseteq 1..Len(n.kids) /\ Len(n.kids) \in Nat BY NodeParts DEF Named
<1>2. 1..Len(n.kids) \subseteq Nat BY <1>1
<1>3. Named(n, k) \in SUBSET Nat BY <1>1, <1>2
<1> QED BY <1>1, <1>3, FirstIsLeast

LEMMA KidType ==
  ASSUME NEW T, NEW n \in NodesOver(T), NEW k
  PROVE  /\ Kid(n, k) \in T \cup {Missing}
         /\ Closed(T) => (Kid(n, k) = Missing <=> Named(n, k) = {})
<1>1. CASE Named(n, k) = {} BY <1>1 DEF Kid
<1>2. CASE Named(n, k) # {}
  <2>1. First(Named(n, k)) \in 1..Len(n.kids) BY <1>2, NamedFacts
  <2>2. Kid(n, k) \in T BY <1>2, <2>1, NodeParts DEF Kid
  <2> QED BY <1>2, <2>2, NotMissing DEF Closed
<1> QED BY <1>1, <1>2

LEMMA KidOfEmpty == ASSUME NEW k PROVE Kid(Empty, k) = Missing
BY DEF Kid, Named, Empty, Leaf

LEMMA KidByFolded ==
  ASSUME NEW n, NEW k, NEW l, Folded[k] = Folded[l]
  PROVE  Kid(n, k) = Kid(n, l)
BY DEF Kid, Named

(* A child put last is found when there was none of its name; the others   *)
(* are found as before.                                                    *)
HasAlso(w, n, e) ==
  \A l : /\ Kid(w, l) = IF Named(n, l) = {} /\ Folded[e.name] = Folded[l] THEN e.tree
                        ELSE Kid(n, l)
         /\ Folded[e.name] = Folded[l] => Named(w, l) # {}
         /\ Folded[e.name] # Folded[l] => Named(w, l) = Named(n, l)

LEMMA PutLast ==
  ASSUME NEW T, NEW n \in NodesOver(T), NEW e \in KidOver(T),
         NEW w, w = [data |-> n.data, kids |-> Append(n.kids, e)]
  PROVE  w.data = n.data /\ w \in NodesOver(T) /\ HasAlso(w, n, e)
<1> DEFINE len == Len(n.kids)
<1>1. /\ n = [data |-> n.data, kids |-> n.kids] /\ n.data \in ItemTexts
      /\ n.kids \in Seq(KidOver(T)) /\ len \in Nat /\ DOMAIN n.kids = 1..len
  BY NodeParts
<1>2. /\ w.kids \in Seq(KidOver(T)) /\ Len(w.kids) = len + 1
      /\ w.kids[len + 1] = e /\ \A j \in 1..len : w.kids[j] = n.kids[j]
  BY <1>1, AppendProperties
<1>3. DOMAIN w.kids = 1..(len + 1) BY <1>2, LenProperties
<1>4. w.data = n.data /\ w \in NodesOver(T)
  <2>1. w.data = n.data /\ w = [data |-> n.data, kids |-> w.kids] OBVIOUS
  <2> QED BY <1>1, <1>2, <2>1, NodeMade
<1>5. ASSUME NEW l
      PROVE  /\ Kid(w, l) = IF Named(n, l) = {} /\ Folded[e.name] = Folded[l] THEN e.tree
                            ELSE Kid(n, l)
             /\ Folded[e.name] = Folded[l] => Named(w, l) # {}
             /\ Folded[e.name] # Folded[l] => Named(w, l) = Named(n, l)
  <2>1. \A j \in 1..(len + 1) : j \in 1..len \/ j = len + 1 BY <1>1
  <2>2. \A j \in 1..len : j \in 1..(len + 1) /\ j <= len + 1 BY <1>1
  <2>3. len + 1 \in 1..(len + 1) BY <1>1
  <2>4. Named(w, l) =
          IF Folded[e.name] = Folded[l] THEN Named(n, l) \cup {len + 1} ELSE Named(n, l)
    BY <1>1, <1>2, <1>3, <2>1, <2>2, <2>3 DEF Named
  <2>5. CASE Named(n, l) # {}
    <3>1. /\ First(Named(n, l)) \in Named(n, l) /\ First(Named(n, l)) \in 1..len
          /\ \A j \in Named(n, l) : First(Named(n, l)) <= j
      BY <2>5, NamedFacts
    <3>2. /\ First(Named(n, l)) \in Named(w, l) /\ Named(w, l) \in SUBSET Nat
          /\ \A j \in Named(w, l) : First(Named(n, l)) <= j
      BY <1>4, <2>2, <2>4, <3>1, NamedFacts
    <3>3. First(Named(w, l)) = First(Named(n, l)) BY <3>2, FirstIs
    <3> QED BY <1>2, <2>4, <2>5, <3>1, <3>3 DEF Kid
  <2>6. CASE Named(n, l) = {} /\ Folded[e.name] = Folded[l]
    <3>1. Named(w, l) = {len + 1} BY <2>4, <2>6
    <3>2. /\ Named(w, l) \in SUBSET Nat /\ len + 1 \in Named(w, l)
          /\ \A j \in Named(w, l) : len + 1 <= j
      <4>1. PICK m \in Nat : m = len + 1 BY <1>1
      <4>2. m <= m /\ {m} \in SUBSET Nat OBVIOUS
      <4>3. Named(w, l) = {m} BY <3>1, <4>1
      <4> QED BY <4>1, <4>2, <4>3
    <3>3. First(Named(w, l)) = len + 1 BY <3>2, FirstIs
    <3> QED BY <1>2, <2>6, <3>1, <3>3 DEF Kid
  <2>7. CASE Named(n, l) = {} /\ Folded[e.name] # Folded[l]
    BY <2>4, <2>7 DEF Kid
  <2> QED BY <2>4, <2>5, <2>6, <2>7
<1> QED BY <1>4, <1>5 DEF HasAlso

LEMMA PushedBack ==
  ASSUME NEW T, NEW n \in NodesOver(T), NEW k \in Items, NEW sub, Named(n, k) = {},
         NEW w, w = push_back(n, k, sub)
  PROVE  /\ w.data = n.data /\ w \in NodesOver(T \cup {sub})
         /\ Kid(w, k) = sub
         /\ \A l : Folded[l] # Folded[k] => Kid(w, l) = Kid(n, l)
<1>1. PICK e : e = [name |-> k, tree |-> sub] OBVIOUS
<1>2. PICK U : U = T \cup {sub} OBVIOUS
<1>3. e \in KidOver(U) /\ e.name = k /\ e.tree = sub BY <1>1, <1>2 DEF KidOver
<1>4. n \in NodesOver(U)
  <2>1. T \subseteq U BY <1>2
  <2> QED BY <2>1, NodesGrow
<1>5. w = [data |-> n.data, kids |-> Append(n.kids, e)]
  <2>1. n = [data |-> n.data, kids |-> n.kids] BY NodeParts
  <2> QED BY <1>1, <2>1 DEF push_back
<1>6. w.data = n.data /\ w \in NodesOver(U) /\ HasAlso(w, n, e)
  BY <1>3, <1>4, <1>5, PutLast
<1> QED BY <1>2, <1>3, <1>6 DEF HasAlso

(* A child made or changed is the one found by its name; the others are    *)
(* found as before.                                                        *)
LEMMA WithKidFacts ==
  ASSUME NEW T, NEW n \in NodesOver(T), NEW k \in Items, NEW sub,
         NEW w, w = WithKid(n, k, sub)
  PROVE  /\ w.data = n.data /\ w \in NodesOver(T \cup {sub})
         /\ Kid(w, k) = sub
         /\ \A l : Folded[l] # Folded[k] => Kid(w, l) = Kid(n, l)
<1>1. CASE Named(n, k) = {} BY <1>1, PushedBack DEF WithKid
<1>2. CASE Named(n, k) # {}
  <2>a. PICK m : m = First(Named(n, k)) OBVIOUS
  <2>b. PICK e : e = [name |-> n.kids[m].name, tree |-> sub] OBVIOUS
  <2> DEFINE len == Len(n.kids)
  <2>1. /\ n = [data |-> n.data, kids |-> n.kids] /\ n.data \in ItemTexts
        /\ n.kids \in Seq(KidOver(T)) /\ len \in Nat /\ DOMAIN n.kids = 1..len
    BY NodeParts
  <2>2. m \in Named(n, k) /\ m \in 1..len /\ \A j \in Named(n, k) : m <= j
    BY <1>2, <2>a, NamedFacts
  <2>3. /\ n.kids[m] = [name |-> n.kids[m].name, tree |-> n.kids[m].tree]
        /\ n.kids[m].name \in Items
    BY <2>2, NodeParts
  <2>4. [n.kids[m] EXCEPT !.tree = sub] = e BY <2>3, <2>b
  <2>5. w = [data |-> n.data, kids |-> [n.kids EXCEPT ![m] = e]]
    BY <1>2, <2>1, <2>4, <2>a DEF WithKid
  <2>6. n.kids \in Seq(KidOver(T \cup {sub})) /\ e \in KidOver(T \cup {sub})
    <3>1. KidOver(T) \subseteq KidOver(T \cup {sub}) /\ e \in KidOver(T \cup {sub})
      BY <2>3, <2>b DEF KidOver
    <3> QED BY <2>1, <3>1, SeqMonotonic
  <2>7. /\ w.kids \in Seq(KidOver(T \cup {sub})) /\ Len(w.kids) = len
        /\ \A j \in 1..len : w.kids[j] = IF j = m THEN e ELSE n.kids[j]
    BY <2>2, <2>5, <2>6, ExceptSeq
  <2>8. DOMAIN w.kids = 1..len BY <2>7, LenProperties
  <2>9. \A l : Named(w, l) = Named(n, l)
    <3>1. \A j \in 1..len : w.kids[j].name = n.kids[j].name BY <2>7, <2>b
    <3> QED BY <2>1, <2>8, <3>1 DEF Named
  <2>10. Kid(w, k) = sub BY <1>2, <2>2, <2>7, <2>9, <2>a, <2>b DEF Kid
  <2>11. ASSUME NEW l, Folded[l] # Folded[k] PROVE Kid(w, l) = Kid(n, l)
    <3>1. CASE Named(n, l) # {}
      <4>1. First(Named(n, l)) \in 1..len /\ First(Named(n, l)) \in Named(n, l)
        BY <3>1, NamedFacts, SMTT(30)
      <4>2. First(Named(n, l)) # m BY <2>2, <2>11, <4>1 DEF Named
      <4> QED BY <2>7, <2>9, <3>1, <4>1, <4>2 DEF Kid
    <3> QED BY <2>9, <3>1 DEF Kid
  <2>12. w \in NodesOver(T \cup {sub}) /\ w.data = n.data
    <3>1. w.data = n.data /\ w = [data |-> n.data, kids |-> w.kids] BY <2>5
    <3> QED BY <2>1, <2>7, <3>1, NodeMade
  <2> QED BY <2>10, <2>11, <2>12
<1> QED BY <1>1, <1>2

(* A set of numbers with the first one and the next of each has them all.  *)
LEMMA AllNumbers ==
  ASSUME NEW S, 0 \in S, \A k \in Nat : k \in S => k + 1 \in S
  PROVE  Nat \subseteq S
<1> SUFFICES ASSUME Nat \ S # {} PROVE FALSE
  OBVIOUS
<1>1. PICK m \in Nat \ S : \A k \in Nat \ S : m <= k
  <2>1. Nat \ S \in SUBSET Nat OBVIOUS
  <2> QED BY <2>1, MinimumExists
<1>2. m # 0 OBVIOUS
<1>3. m - 1 \in Nat /\ ~(m <= m - 1) BY <1>2
<1>4. m - 1 \in S BY <1>1, <1>3
<1> QED BY <1>3, <1>4

(* The way along a path is what its definition says.                       *)
WayTo(t, path, m, f) ==
  f = [k \in 0..m |->
        IF k = 0 THEN t ELSE IF f[k - 1] = Missing THEN Missing ELSE Kid(f[k - 1], path[k])]

LEMMA WayExists ==
  ASSUME NEW t, NEW path, NEW n \in Nat
  PROVE  \E f : WayTo(t, path, n, f)
<1> DEFINE S == {m \in Nat : \E f : WayTo(t, path, m, f)}
<1>1. 0 \in S
  <2> DEFINE f == [k \in 0..0 |-> t]
  <2>1. WayTo(t, path, 0, f) BY DEF WayTo
  <2> QED BY <2>1
<1>2. ASSUME NEW m \in Nat, m \in S PROVE m + 1 \in S
  <2>1. PICK f : WayTo(t, path, m, f) BY <1>2
  <2> DEFINE g == [k \in 0..(m + 1) |->
                    IF k \in 0..m THEN f[k]
                    ELSE IF f[m] = Missing THEN Missing ELSE Kid(f[m], path[m + 1])]
             step(k) == IF k = 0 THEN t
                        ELSE IF g[k - 1] = Missing THEN Missing ELSE Kid(g[k - 1], path[k])
  <2>2. ASSUME NEW k \in 0..(m + 1) PROVE g[k] = step(k)
    <3>1. CASE k = 0 BY <2>1, <3>1 DEF WayTo
    <3>2. CASE k \in 1..m
      <4>1. k \in 0..m /\ k - 1 \in 0..m /\ k - 1 \in 0..(m + 1) /\ k # 0 BY <3>2
      <4>2. f[k] = IF f[k - 1] = Missing THEN Missing ELSE Kid(f[k - 1], path[k])
        BY <2>1, <4>1 DEF WayTo
      <4> QED BY <4>1, <4>2
    <3>3. CASE k = m + 1
      <4>1. k \notin 0..m /\ k - 1 = m /\ m \in 0..m /\ m \in 0..(m + 1) /\ k # 0 BY <3>3
      <4> QED BY <3>3, <4>1
    <3> QED BY <3>1, <3>2, <3>3
  <2>3. g = [k \in 0..(m + 1) |-> step(k)] BY <2>2
  <2>4. WayTo(t, path, m + 1, g) BY <2>3 DEF WayTo
  <2> QED BY <2>4
<1>3. Nat \subseteq S
  <2> HIDE DEF S
  <2> QED BY <1>1, <1>2, AllNumbers
<1> QED BY <1>3

LEMMA WayAlong ==
  ASSUME NEW t, NEW path, Len(path) \in Nat
  PROVE  /\ Way(t, path)[0] = t
         /\ \A k \in 1..Len(path) :
              Way(t, path)[k] = IF Way(t, path)[k - 1] = Missing THEN Missing
                                ELSE Kid(Way(t, path)[k - 1], path[k])
<1>1. Way(t, path) = CHOOSE f : WayTo(t, path, Len(path), f) BY DEF Way, WayTo
<1>2. WayTo(t, path, Len(path), Way(t, path)) BY <1>1, WayExists
<1>3. 0 \in 0..Len(path) /\ \A k \in 1..Len(path) : k \in 0..Len(path) /\ k # 0
  OBVIOUS
<1> HIDE DEF Way
<1> QED BY <1>2, <1>3 DEF WayTo

(* Every node on it is one of the tree.                                    *)
LEMMA WayIn ==
  ASSUME NEW T, Closed(T), NEW t \in T, NEW path, Len(path) \in Nat
  PROVE  \A k \in 0..Len(path) : Way(t, path)[k] \in T \cup {Missing}
<1> DEFINE S == {k \in Nat : k \in 0..Len(path) => Way(t, path)[k] \in T \cup {Missing}}
<1>1. 0 \in S BY WayAlong
<1>2. ASSUME NEW k \in Nat, k \in S PROVE k + 1 \in S
  <2> SUFFICES ASSUME k + 1 \in 0..Len(path)
               PROVE  Way(t, path)[k + 1] \in T \cup {Missing}
    OBVIOUS
  <2>1. k \in 0..Len(path) /\ k + 1 \in 1..Len(path) /\ (k + 1) - 1 = k OBVIOUS
  <2>2. Way(t, path)[k] \in T \cup {Missing} BY <1>2, <2>1
  <2>3. Way(t, path)[k + 1] = IF Way(t, path)[k] = Missing THEN Missing
                              ELSE Kid(Way(t, path)[k], path[k + 1])
    BY <2>1, WayAlong
  <2> QED BY <2>2, <2>3, KidType DEF Closed
<1>3. Nat \subseteq S
  <2> HIDE DEF S
  <2> QED BY <1>1, <1>2, AllNumbers
<1> QED BY <1>3

(* So are the nodes made along it.                                         *)
MadeTo(t, path, n, m, f) ==
  f = [k \in m..Len(path) |->
        IF k = Len(path) THEN n
        ELSE WithKid(OrEmpty(Way(t, path)[k]), path[k + 1], f[k + 1])]

LEMMA MadeExists ==
  ASSUME NEW t, NEW path, NEW n, Len(path) \in Nat
  PROVE  \E f : MadeTo(t, path, n, 0, f)
<1> DEFINE len == Len(path)
           S == {m \in Nat : m <= len => \E f : MadeTo(t, path, n, len - m, f)}
<1>1. 0 \in S
  <2> DEFINE f == [k \in len..len |-> n]
  <2>1. f = [k \in len..len |->
              IF k = len THEN n ELSE WithKid(OrEmpty(Way(t, path)[k]), path[k + 1], f[k + 1])]
    OBVIOUS
  <2>2. MadeTo(t, path, n, len - 0, f) BY <2>1 DEF MadeTo
  <2> QED BY <2>2
<1>2. ASSUME NEW m \in Nat, m \in S PROVE m + 1 \in S
  <2> SUFFICES ASSUME m + 1 <= len PROVE \E f : MadeTo(t, path, n, len - (m + 1), f)
    OBVIOUS
  <2>1. PICK f : MadeTo(t, path, n, len - m, f) BY <1>2
  <2>2. PICK l \in Nat : l = len - (m + 1)
    <3>1. len - (m + 1) \in Nat OBVIOUS
    <3> QED BY <3>1
  <2>3. l < len /\ len - m = l + 1 BY <2>2
  <2> DEFINE g == [k \in l..len |->
                    IF k = l THEN WithKid(OrEmpty(Way(t, path)[l]), path[l + 1], f[l + 1])
                    ELSE f[k]]
             step(k) == IF k = len THEN n
                        ELSE WithKid(OrEmpty(Way(t, path)[k]), path[k + 1], g[k + 1])
  <2>4. ASSUME NEW k \in l..len PROVE g[k] = step(k)
    <3>1. CASE k = l
      <4>1. l + 1 \in l..len /\ l # len /\ l + 1 # l BY <2>3
      <4> QED BY <3>1, <4>1
    <3>2. CASE k # l
      <4>1. k \in (len - m)..len /\ g[k] = f[k] BY <2>3, <3>2
      <4>2. f[k] = IF k = len THEN n
                   ELSE WithKid(OrEmpty(Way(t, path)[k]), path[k + 1], f[k + 1])
        BY <2>1, <4>1 DEF MadeTo
      <4>3. k # len => k + 1 \in l..len /\ k + 1 # l BY <2>3, <3>2
      <4> QED BY <4>1, <4>2, <4>3
    <3> QED BY <3>1, <3>2
  <2>5. g = [k \in l..len |-> step(k)] BY <2>4
  <2>6. MadeTo(t, path, n, l, g) BY <2>5 DEF MadeTo
  <2> QED BY <2>2, <2>6
<1>3. Nat \subseteq S
  <2> HIDE DEF S
  <2> QED BY <1>1, <1>2, AllNumbers
<1>4. len \in S /\ len - len = 0 BY <1>3
<1> QED BY <1>4

LEMMA MadeIs ==
  ASSUME NEW t, NEW path, NEW n, Len(path) \in Nat
  PROVE  /\ Made(t, path, n)[Len(path)] = n
         /\ \A k \in 0..(Len(path) - 1) :
              Made(t, path, n)[k] =
                WithKid(OrEmpty(Way(t, path)[k]), path[k + 1], Made(t, path, n)[k + 1])
<1>1. Made(t, path, n) = CHOOSE f : MadeTo(t, path, n, 0, f) BY DEF Made, MadeTo
<1>2. MadeTo(t, path, n, 0, Made(t, path, n)) BY <1>1, MadeExists
<1>3. Len(path) \in 0..Len(path)
      /\ \A k \in 0..(Len(path) - 1) : k \in 0..Len(path) /\ k # Len(path)
  OBVIOUS
<1> HIDE DEF Made
<1> QED BY <1>2, <1>3 DEF MadeTo

(* Each is the node of the way but for one child, and the whole is a tree. *)
LEMMA MadeFacts ==
  ASSUME NEW T, Closed(T), NEW t \in T, NEW path \in Seq(Items), NEW n \in NodesOver(T),
         NEW made, made = Made(t, path, n)
  PROVE  /\ \A k \in 0..(Len(path) - 1) :
              /\ made[k] # Missing /\ made[k].data = OrEmpty(Way(t, path)[k]).data
              /\ Kid(made[k], path[k + 1]) = made[k + 1]
              /\ \A l : Folded[l] # Folded[path[k + 1]] =>
                          Kid(made[k], l) = Kid(OrEmpty(Way(t, path)[k]), l)
         /\ made[Len(path)] = n
         /\ IsTree(made[0])
<1> DEFINE len == Len(path)
           old(k) == OrEmpty(Way(t, path)[k])
<1>1. len \in Nat /\ \A k \in 0..(len - 1) : k \in 0..len /\ path[k + 1] \in Items
  <2>1. len \in Nat BY LenProperties
  <2>2. \A k \in 0..(len - 1) : k \in 0..len /\ k + 1 \in 1..len BY <2>1
  <2> QED BY <2>1, <2>2, ElementOfSeq
<1>2. \A k \in 0..len : old(k) \in NodesOver(T)
  <2> SUFFICES ASSUME NEW k \in 0..len PROVE old(k) \in NodesOver(T)
    OBVIOUS
  <2>1. Way(t, path)[k] \in T \cup {Missing} BY <1>1, WayIn
  <2>2. Empty \in NodesOver(T)
    <3>1. "" \in ItemTexts BY DEF ItemTexts
    <3> QED BY <3>1, LeafIsNode
  <2> QED BY <2>1, <2>2 DEF Closed, OrEmpty
<1>3. ASSUME NEW k \in 0..(len - 1)
      PROVE  /\ made[k] \in NodesOver(T \cup {made[k + 1]})
             /\ made[k].data = old(k).data
             /\ Kid(made[k], path[k + 1]) = made[k + 1]
             /\ \A l : Folded[l] # Folded[path[k + 1]] => Kid(made[k], l) = Kid(old(k), l)
  <2>1. made[k] = WithKid(old(k), path[k + 1], made[k + 1]) BY <1>1, MadeIs
  <2>2. old(k) \in NodesOver(T) /\ path[k + 1] \in Items BY <1>1, <1>2
  <2>3. PICK o, p, s, w : o = old(k) /\ p = path[k + 1] /\ s = made[k + 1] /\ w = made[k]
    OBVIOUS
  <2> HIDE DEF old
  <2>4. o \in NodesOver(T) /\ p \in Items /\ w = WithKid(o, p, s) BY <2>1, <2>2, <2>3
  <2>5. /\ w \in NodesOver(T \cup {s}) /\ w.data = o.data /\ Kid(w, p) = s
        /\ \A l : Folded[l] # Folded[p] => Kid(w, l) = Kid(o, l)
    BY <2>4, WithKidFacts
  <2> QED BY <2>3, <2>5
<1>4. \A k \in 0..(len - 1) : made[k] # Missing BY <1>3, NotMissing
<1>5. IsTree(made[0])
  <2>1. PICK U : U = T \cup {made[k] : k \in 0..len} OBVIOUS
  <2>2. ASSUME NEW k \in 0..len PROVE made[k] \in NodesOver(U)
    <3>1. CASE k = len
      <4>1. made[k] = n BY <1>1, <3>1, MadeIs
      <4>2. T \subseteq U BY <2>1
      <4> QED BY <4>1, <4>2, NodesGrow
    <3>2. CASE k # len
      <4>1. k \in 0..(len - 1) /\ k + 1 \in 0..len BY <1>1, <3>2
      <4>2. T \cup {made[k + 1]} \subseteq U BY <2>1, <4>1
      <4>3. made[k] \in NodesOver(T \cup {made[k + 1]}) BY <1>3, <4>1
      <4> QED BY <4>2, <4>3, NodesGrow
    <3> QED BY <3>1, <3>2
  <2>3. \A x \in T : x \in NodesOver(U)
    <3>1. T \subseteq U BY <2>1
    <3> QED BY <3>1, NodesGrow DEF Closed
  <2>4. Closed(U) BY <2>1, <2>2, <2>3 DEF Closed
  <2>5. made[0] \in U BY <1>1, <2>1
  <2> QED BY <2>4, <2>5 DEF IsTree
<1>6. made[len] = n BY <1>1, MadeIs
<1> QED BY <1>3, <1>4, <1>5, <1>6

(* Two paths that begin alike have the same nodes so far.                  *)
Agree(q, p, j) ==
  j \in 0..Len(p) /\ j \in 0..Len(q) /\ \A k \in 1..j : Folded[q[k]] = Folded[p[k]]

LEMMA WaySame ==
  ASSUME NEW t, NEW p \in Seq(Items), NEW q \in Seq(Items), NEW j, Agree(q, p, j)
  PROVE  \A k \in 0..j : Way(t, q)[k] = Way(t, p)[k]
<1> DEFINE S == {k \in Nat : k \in 0..j => Way(t, q)[k] = Way(t, p)[k]}
<1>0. Len(p) \in Nat /\ Len(q) \in Nat /\ j \in Nat /\ j <= Len(p) /\ j <= Len(q)
  BY LenProperties DEF Agree
<1>1. 0 \in S BY <1>0, WayAlong
<1>2. ASSUME NEW k \in Nat, k \in S PROVE k + 1 \in S
  <2> SUFFICES ASSUME k + 1 \in 0..j PROVE Way(t, q)[k + 1] = Way(t, p)[k + 1]
    OBVIOUS
  <2>1. /\ k \in 0..j /\ k + 1 \in 1..j /\ (k + 1) - 1 = k
        /\ k + 1 \in 1..Len(p) /\ k + 1 \in 1..Len(q)
    BY <1>0
  <2>2. Way(t, q)[k] = Way(t, p)[k] BY <1>2, <2>1
  <2>3. Kid(Way(t, q)[k], q[k + 1]) = Kid(Way(t, q)[k], p[k + 1])
    BY <2>1, KidByFolded DEF Agree
  <2>4. /\ Way(t, q)[k + 1] = IF Way(t, q)[k] = Missing THEN Missing
                              ELSE Kid(Way(t, q)[k], q[k + 1])
        /\ Way(t, p)[k + 1] = IF Way(t, p)[k] = Missing THEN Missing
                              ELSE Kid(Way(t, p)[k], p[k + 1])
    BY <1>0, <2>1, WayAlong
  <2> QED BY <2>2, <2>3, <2>4
<1>3. Nat \subseteq S
  <2> HIDE DEF S
  <2> QED BY <1>1, <1>2, AllNumbers
<1> QED BY <1>0, <1>3

(* Along the path that was changed, those that were made are found.        *)
LEMMA WayMade ==
  ASSUME NEW T, Closed(T), NEW t \in T, NEW p \in Seq(Items), NEW n \in NodesOver(T),
         NEW q \in Seq(Items), NEW j, Agree(q, p, j)
  PROVE  \A k \in 0..j : Way(Changed(t, p, n), q)[k] = Made(t, p, n)[k]
<1> SUFFICES ASSUME NEW made, made = Made(t, p, n)
             PROVE  \A k \in 0..j : Way(made[0], q)[k] = made[k]
  BY DEF Changed
<1> DEFINE S == {k \in Nat : k \in 0..j => Way(made[0], q)[k] = made[k]}
<1>0. Len(p) \in Nat /\ Len(q) \in Nat /\ j \in Nat /\ j <= Len(p) /\ j <= Len(q)
  BY LenProperties DEF Agree
<1>1. 0 \in S BY <1>0, WayAlong
<1>2. ASSUME NEW k \in Nat, k \in S PROVE k + 1 \in S
  <2> SUFFICES ASSUME k + 1 \in 0..j PROVE Way(made[0], q)[k + 1] = made[k + 1]
    OBVIOUS
  <2>1. /\ k \in 0..j /\ k + 1 \in 1..j /\ (k + 1) - 1 = k
        /\ k \in 0..(Len(p) - 1) /\ k + 1 \in 1..Len(q)
    BY <1>0
  <2>2. Way(made[0], q)[k] = made[k] BY <1>2, <2>1
  <2>3. made[k] # Missing /\ Kid(made[k], p[k + 1]) = made[k + 1]
    BY <2>1, MadeFacts
  <2>4. Kid(made[k], q[k + 1]) = made[k + 1]
    <3>1. Folded[q[k + 1]] = Folded[p[k + 1]] BY <2>1 DEF Agree
    <3>2. Kid(made[k], q[k + 1]) = Kid(made[k], p[k + 1]) BY <3>1, KidByFolded
    <3> QED BY <2>3, <3>2
  <2>5. Way(made[0], q)[k + 1] = IF Way(made[0], q)[k] = Missing THEN Missing
                                 ELSE Kid(Way(made[0], q)[k], q[k + 1])
    BY <1>0, <2>1, WayAlong
  <2> QED BY <2>2, <2>3, <2>4, <2>5
<1>3. Nat \subseteq S
  <2> HIDE DEF S
  <2> QED BY <1>1, <1>2, AllNumbers
<1> QED BY <1>0, <1>3

(* Where two trees have the same node, they have the same ones below it.   *)
LEMMA WayOn ==
  ASSUME NEW t, NEW u, NEW q \in Seq(Items), NEW j \in 0..Len(q), Way(u, q)[j] = Way(t, q)[j]
  PROVE  Same(t, u, q)
<1> DEFINE S == {k \in Nat : k \in j..Len(q) => Way(u, q)[k] = Way(t, q)[k]}
<1>0. Len(q) \in Nat /\ j \in Nat /\ j <= Len(q) BY LenProperties
<1>1. 0 \in S BY <1>0
<1>2. ASSUME NEW k \in Nat, k \in S PROVE k + 1 \in S
  <2> SUFFICES ASSUME k + 1 \in j..Len(q) PROVE Way(u, q)[k + 1] = Way(t, q)[k + 1]
    OBVIOUS
  <2>1. CASE k + 1 = j BY <2>1
  <2>2. CASE k + 1 # j
    <3>1. k \in j..Len(q) /\ k + 1 \in 1..Len(q) /\ (k + 1) - 1 = k BY <1>0, <2>2
    <3>2. Way(u, q)[k] = Way(t, q)[k] BY <1>2, <3>1
    <3>3. /\ Way(u, q)[k + 1] = IF Way(u, q)[k] = Missing THEN Missing
                                ELSE Kid(Way(u, q)[k], q[k + 1])
          /\ Way(t, q)[k + 1] = IF Way(t, q)[k] = Missing THEN Missing
                                ELSE Kid(Way(t, q)[k], q[k + 1])
      BY <1>0, <3>1, WayAlong
    <3> QED BY <3>2, <3>3
  <2> QED BY <2>1, <2>2
<1>3. Nat \subseteq S
  <2> HIDE DEF S
  <2> QED BY <1>1, <1>2, AllNumbers
<1>4. Way(u, q)[Len(q)] = Way(t, q)[Len(q)] BY <1>0, <1>3
<1> QED BY <1>4 DEF Same, get_child_optional

(* A path that leaves the changed one finds what it found.                 *)
LEMMA WayApart ==
  ASSUME NEW T, Closed(T), NEW t \in T, NEW p \in Seq(Items), NEW n \in NodesOver(T),
         NEW q \in Seq(Items), NEW j, Agree(q, p, j), j < Len(p), j < Len(q),
         Folded[q[j + 1]] # Folded[p[j + 1]]
  PROVE  Same(t, Changed(t, p, n), q)
<1>0. /\ Len(p) \in Nat /\ Len(q) \in Nat /\ j \in Nat /\ j \in 0..j
      /\ j \in 0..(Len(p) - 1) /\ j + 1 \in 1..Len(q) /\ (j + 1) - 1 = j /\ j + 1 \in 0..Len(q)
  BY LenProperties DEF Agree
<1>1. PICK u, made, w, x :
        u = Changed(t, p, n) /\ made = Made(t, p, n)[j] /\ w = Way(t, p)[j] /\ x = q[j + 1]
  OBVIOUS
<1>2. Way(u, q)[j] = made /\ Way(t, q)[j] = w BY <1>0, <1>1, WayMade, WaySame
<1>3. made # Missing /\ Kid(made, x) = Kid(OrEmpty(w), x)
  <2>1. j \in 0..Len(p) BY <1>0
  <2>2. PICK all : all = Made(t, p, n) OBVIOUS
  <2>3. all[j] # Missing /\ Kid(all[j], x) = Kid(OrEmpty(w), x)
    BY <1>0, <1>1, <2>2, MadeFacts
  <2> QED BY <1>1, <2>2, <2>3
<1>4. Way(u, q)[j + 1] = Kid(OrEmpty(w), x)
      /\ Way(t, q)[j + 1] = IF w = Missing THEN Missing ELSE Kid(w, x)
  BY <1>0, <1>1, <1>2, <1>3, WayAlong
<1>5. Way(u, q)[j + 1] = Way(t, q)[j + 1] BY <1>4, KidOfEmpty DEF OrEmpty
<1> QED BY <1>0, <1>1, <1>5, WayOn

(* What erase leaves of some children has none of the name, and the others *)
(* are found as before.                                                    *)
ErasedTo(kids, name, m, f) ==
  f = [i \in 0..m |->
        IF i = 0 THEN <<>>
        ELSE IF Folded[kids[i].name] = Folded[name] THEN f[i - 1]
             ELSE Append(f[i - 1], kids[i])]

LEMMA ErasedExists ==
  ASSUME NEW kids, NEW name, NEW n \in Nat
  PROVE  \E f : ErasedTo(kids, name, n, f)
<1> DEFINE S == {m \in Nat : \E f : ErasedTo(kids, name, m, f)}
<1>1. 0 \in S
  <2> DEFINE f == [i \in 0..0 |-> <<>>]
  <2>1. ErasedTo(kids, name, 0, f) BY DEF ErasedTo
  <2> QED BY <2>1
<1>2. ASSUME NEW m \in Nat, m \in S PROVE m + 1 \in S
  <2>1. PICK f : ErasedTo(kids, name, m, f) BY <1>2
  <2> DEFINE g == [i \in 0..(m + 1) |->
                    IF i \in 0..m THEN f[i]
                    ELSE IF Folded[kids[m + 1].name] = Folded[name] THEN f[m]
                         ELSE Append(f[m], kids[m + 1])]
             step(i) == IF i = 0 THEN <<>>
                        ELSE IF Folded[kids[i].name] = Folded[name] THEN g[i - 1]
                             ELSE Append(g[i - 1], kids[i])
  <2>2. ASSUME NEW i \in 0..(m + 1) PROVE g[i] = step(i)
    <3>1. CASE i = 0 BY <2>1, <3>1 DEF ErasedTo
    <3>2. CASE i \in 1..m
      <4>1. i \in 0..m /\ i - 1 \in 0..m /\ i - 1 \in 0..(m + 1) /\ i # 0 BY <3>2
      <4>2. f[i] = IF Folded[kids[i].name] = Folded[name] THEN f[i - 1]
                   ELSE Append(f[i - 1], kids[i])
        BY <2>1, <4>1 DEF ErasedTo
      <4> QED BY <4>1, <4>2
    <3>3. CASE i = m + 1
      <4>1. i \notin 0..m /\ i - 1 = m /\ m \in 0..m /\ m \in 0..(m + 1) /\ i # 0 BY <3>3
      <4> QED BY <3>3, <4>1
    <3> QED BY <3>1, <3>2, <3>3
  <2>3. g = [i \in 0..(m + 1) |-> step(i)] BY <2>2
  <2>4. ErasedTo(kids, name, m + 1, g) BY <2>3 DEF ErasedTo
  <2> QED BY <2>4
<1>3. Nat \subseteq S
  <2> HIDE DEF S
  <2> QED BY <1>1, <1>2, AllNumbers
<1> QED BY <1>3

LEMMA EraseIs ==
  ASSUME NEW kids, NEW name, Len(kids) \in Nat
  PROVE  \E f : f[Len(kids)] = erase(kids, name) /\ ErasedTo(kids, name, Len(kids), f)
<1>1. PICK f : f = CHOOSE g : ErasedTo(kids, name, Len(kids), g) OBVIOUS
<1>2. erase(kids, name) = f[Len(kids)] BY <1>1 DEF erase, ErasedTo
<1>3. ErasedTo(kids, name, Len(kids), f) BY <1>1, ErasedExists
<1> QED BY <1>2, <1>3

(* L has none of the name, and is like A in the others.                    *)
LikeBut(L, A, name) ==
  /\ Named(L, name) = {}
  /\ \A l : Folded[l] # Folded[name] =>
       Kid(L, l) = Kid(A, l) /\ (Named(L, l) = {} <=> Named(A, l) = {})

LEMMA EraseStep ==
  ASSUME NEW T, NEW L \in NodesOver(T), NEW A \in NodesOver(T), NEW name,
         LikeBut(L, A, name), NEW e \in KidOver(T),
         NEW B, B = [data |-> A.data, kids |-> Append(A.kids, e)],
         NEW M, M = IF Folded[e.name] = Folded[name] THEN L
                    ELSE [data |-> L.data, kids |-> Append(L.kids, e)]
  PROVE  M \in NodesOver(T) /\ B \in NodesOver(T) /\ LikeBut(M, B, name)
<1>1. B \in NodesOver(T) /\ HasAlso(B, A, e) BY PutLast
<1>2. CASE Folded[e.name] = Folded[name] BY <1>1, <1>2 DEF LikeBut, HasAlso
<1>3. CASE Folded[e.name] # Folded[name]
  <2>1. M = [data |-> L.data, kids |-> Append(L.kids, e)] BY <1>3
  <2>2. M \in NodesOver(T) /\ HasAlso(M, L, e) BY <2>1, PutLast
  <2> QED BY <1>1, <1>3, <2>2 DEF LikeBut, HasAlso
<1> QED BY <1>2, <1>3

LEMMA EraseFacts ==
  ASSUME NEW T, NEW n \in NodesOver(T), NEW name,
         NEW w, w = [n EXCEPT !.kids = erase(@, name)]
  PROVE  /\ w \in NodesOver(T) /\ Kid(w, name) = Missing
         /\ \A l : Folded[l] # Folded[name] => Kid(w, l) = Kid(n, l)
<1> DEFINE len == Len(n.kids)
<1>1. /\ n = [data |-> n.data, kids |-> n.kids] /\ n.data \in ItemTexts
      /\ n.kids \in Seq(KidOver(T)) /\ len \in Nat
  BY NodeParts
<1>2. \A i \in 1..len : n.kids[i] \in KidOver(T) BY <1>1, ElementOfSeq
<1>3. PICK f : f[len] = erase(n.kids, name) /\ ErasedTo(n.kids, name, len, f)
  BY <1>1, EraseIs
<1> DEFINE left(i) == [data |-> n.data, kids |-> f[i]]
           all(i) == [data |-> n.data, kids |-> SubSeq(n.kids, 1, i)]
           Right(i) == /\ left(i) \in NodesOver(T) /\ all(i) \in NodesOver(T)
                       /\ LikeBut(left(i), all(i), name)
           S == {i \in Nat : i \in 0..len => Right(i)}
<1>4. 0 \in S
  <2>1. left(0) = [data |-> n.data, kids |-> <<>>]
    <3>1. 0 \in 0..len BY <1>1
    <3> QED BY <1>3, <3>1 DEF ErasedTo
  <2>2. all(0) = left(0)
    <3>1. SubSeq(n.kids, 1, 0) = <<>> BY SubSeqEmpty
    <3> QED BY <2>1, <3>1
  <2>3. left(0) \in NodesOver(T)
    <3>1. <<>> \in Seq(KidOver(T)) BY EmptySeq
    <3> QED BY <1>1, <2>1, <3>1, NodeMade
  <2>4. Named(left(0), name) = {} BY <2>1 DEF Named
  <2> HIDE DEF left, all
  <2> QED BY <2>2, <2>3, <2>4 DEF LikeBut
<1>5. ASSUME NEW i \in Nat, i \in S PROVE i + 1 \in S
  <2> HIDE DEF Right
  <2> SUFFICES ASSUME i + 1 \in 0..len PROVE Right(i + 1)
    OBVIOUS
  <2>1. i \in 0..len /\ i + 1 \in 1..len /\ i + 1 # 0 /\ (i + 1) - 1 = i BY <1>1
  <2>2. Right(i) BY <1>5, <2>1
  <2>3. PICK e \in KidOver(T) : e = n.kids[i + 1] BY <1>2, <2>1
  <2>4. PICK L, A, M, B : L = left(i) /\ A = all(i) /\ M = left(i + 1) /\ B = all(i + 1)
    OBVIOUS
  <2>5. B = [data |-> A.data, kids |-> Append(A.kids, e)]
    <3>1. 1 \in 1..len /\ i + 1 \in 1..len /\ 1 <= i + 1 BY <2>1
    <3>2. SubSeq(n.kids, 1, i + 1) = SubSeq(n.kids, 1, i) \o <<e>>
      BY <1>1, <2>1, <2>3, <3>1, SubSeqRecursiveSecond
    <3>3. SubSeq(n.kids, 1, i) \in Seq(KidOver(T))
      <4>1. \A k \in 1..i : n.kids[k] \in KidOver(T) BY <1>1, <1>2, <2>1
      <4> QED BY <4>1, SubSeqProperties
    <3>4. SubSeq(n.kids, 1, i + 1) = Append(SubSeq(n.kids, 1, i), e)
      BY <2>3, <3>2, <3>3, AppendIsConcat
    <3> QED BY <2>4, <3>4
  <2>6. M = IF Folded[e.name] = Folded[name] THEN L
            ELSE [data |-> L.data, kids |-> Append(L.kids, e)]
    <3>1. f[i + 1] = IF Folded[e.name] = Folded[name] THEN f[i] ELSE Append(f[i], e)
      BY <1>3, <2>1, <2>3 DEF ErasedTo
    <3> QED BY <2>4, <3>1
  <2>7. L \in NodesOver(T) /\ A \in NodesOver(T) /\ LikeBut(L, A, name)
    <3> HIDE DEF left, all
    <3> QED BY <2>2, <2>4 DEF Right
  <2>8. M \in NodesOver(T) /\ B \in NodesOver(T) /\ LikeBut(M, B, name)
    <3> HIDE DEF left, all, S, len
    <3> QED BY <2>5, <2>6, <2>7, EraseStep, SMTT(30)
  <2> HIDE DEF left, all
  <2> QED BY <2>4, <2>8 DEF Right
<1>6. Nat \subseteq S
  <2> HIDE DEF S
  <2> QED BY <1>4, <1>5, AllNumbers
<1>7. Right(len)
  <2>1. len \in 0..len BY <1>1
  <2> HIDE DEF Right
  <2>2. \A i \in S : i \in 0..len => Right(i) OBVIOUS
  <2> HIDE DEF S
  <2>3. len \in S BY <1>1, <1>6
  <2> QED BY <2>1, <2>2, <2>3
<1>8. w = left(len) BY <1>1, <1>3
<1>9. n = all(len)
  <2>1. SubSeq(n.kids, 1, len) = n.kids BY <1>1, SubSeqFull
  <2> QED BY <1>1, <2>1
<1> HIDE DEF left, all
<1> QED BY <1>7, <1>8, <1>9 DEF Kid, LikeBut

(* Above the changed path, on it and below it, and apart from it.          *)
LEMMA WithinIs ==
  ASSUME NEW p \in Seq(Items), NEW q \in Seq(Items), Within(q, p)
  PROVE  Agree(q, p, Len(p)) /\ Agree(p, q, Len(p))
<1>1. DOMAIN p = 1..Len(p) /\ Len(p) \in Nat /\ Len(q) \in Nat BY LenProperties
<1> QED BY <1>1 DEF Agree, Within

LEMMA ReadBelow ==
  ASSUME NEW T, Closed(T), NEW t \in T, NEW p \in Seq(Items), NEW n \in NodesOver(T),
         NEW q \in Seq(Items), Within(q, p)
  PROVE  /\ Len(p) \in 0..Len(q)
         /\ Way(Changed(t, p, n), q)[Len(p)] = n
         /\ Way(t, q)[Len(p)] = get_child_optional(t, p)
<1>1. Agree(q, p, Len(p)) /\ Len(p) \in Nat BY WithinIs, LenProperties
<1>2. Len(p) \in 0..Len(q) /\ Len(p) \in 0..Len(p) BY <1>1 DEF Agree
<1>3. Way(Changed(t, p, n), q)[Len(p)] = Made(t, p, n)[Len(p)] BY <1>1, <1>2, WayMade
<1>4. Made(t, p, n)[Len(p)] = n BY <1>1, MadeIs
<1>5. Way(t, q)[Len(p)] = Way(t, p)[Len(p)] BY <1>1, <1>2, WaySame
<1> QED BY <1>2, <1>3, <1>4, <1>5 DEF get_child_optional

LEMMA ReadAbove ==
  ASSUME NEW T, Closed(T), NEW t \in T, NEW p \in Seq(Items), NEW n \in NodesOver(T),
         NEW q \in Seq(Items), Within(p, q), Len(q) # Len(p)
  PROVE  /\ get_child_optional(Changed(t, p, n), q) # Missing
         /\ get_child_optional(Changed(t, p, n), q).data = NodeAt(t, q).data
<1>1. PICK j, made : j = Len(q) /\ made = Made(t, p, n) OBVIOUS
<1>2. Agree(q, p, j) /\ j \in Nat /\ j \in 0..j /\ j \in 0..(Len(p) - 1)
  <2>1. Agree(q, p, j) /\ Len(q) \in Nat /\ Len(p) \in Nat BY <1>1, WithinIs, LenProperties
  <2> QED BY <1>1, <2>1 DEF Agree
<1>3. Way(Changed(t, p, n), q)[j] = made[j] BY <1>1, <1>2, WayMade
<1>4. Way(t, q)[j] = Way(t, p)[j] BY <1>2, WaySame
<1>5. made[j] # Missing /\ made[j].data = OrEmpty(Way(t, p)[j]).data
  BY <1>1, <1>2, MadeFacts
<1> QED BY <1>1, <1>3, <1>4, <1>5 DEF get_child_optional, NodeAt

LEMMA ReadApart ==
  ASSUME NEW T, Closed(T), NEW t \in T, NEW p \in Seq(Items), NEW n \in NodesOver(T),
         NEW q \in Seq(Items), ~Within(q, p), ~Within(p, q)
  PROVE  Same(t, Changed(t, p, n), q)
<1>1. /\ DOMAIN p = 1..Len(p) /\ Len(p) \in Nat
      /\ DOMAIN q = 1..Len(q) /\ Len(q) \in Nat
  BY LenProperties
<1> DEFINE S == {j \in Nat : j < Len(p) /\ j < Len(q) /\ Folded[q[j + 1]] # Folded[p[j + 1]]}
<1>2. S # {}
  <2>1. PICK k \in Nat \ {0} : k <= Len(p) /\ k <= Len(q) /\ Folded[q[k]] # Folded[p[k]]
    <3>1. CASE Len(p) <= Len(q)
      <4>1. PICK k \in 1..Len(p) : Folded[q[k]] # Folded[p[k]] BY <1>1, <3>1 DEF Within
      <4> QED BY <1>1, <3>1, <4>1
    <3>2. CASE Len(q) <= Len(p)
      <4>1. PICK k \in 1..Len(q) : Folded[q[k]] # Folded[p[k]] BY <1>1, <3>2 DEF Within
      <4> QED BY <1>1, <3>2, <4>1
    <3> QED BY <1>1, <3>1, <3>2
  <2>2. k - 1 \in Nat /\ (k - 1) + 1 = k /\ k - 1 < k BY <2>1
  <2>3. k - 1 < Len(p) /\ k - 1 < Len(q) BY <1>1, <2>1, <2>2
  <2> QED BY <2>1, <2>2, <2>3
<1>3. PICK j \in S : \A i \in S : j <= i
  <2>1. S \in SUBSET Nat OBVIOUS
  <2> HIDE DEF S
  <2> QED BY <1>2, <2>1, MinimumExists
<1>4. Agree(q, p, j)
  <2>1. ASSUME NEW k \in 1..j PROVE Folded[q[k]] = Folded[p[k]]
    <3>1. k - 1 \in Nat /\ (k - 1) + 1 = k /\ ~(j <= k - 1)
          /\ k - 1 < Len(p) /\ k - 1 < Len(q)
      BY <1>1, <1>3
    <3>2. k - 1 \notin S BY <1>3, <3>1
    <3> QED BY <3>1, <3>2
  <2>2. j \in 0..Len(p) /\ j \in 0..Len(q) BY <1>1, <1>3
  <2> QED BY <2>1, <2>2 DEF Agree
<1>5. j < Len(p) /\ j < Len(q) /\ Folded[q[j + 1]] # Folded[p[j + 1]] BY <1>3
<1> HIDE DEF S
<1> QED BY <1>4, <1>5, WayApart

(* The paths of the program, and the nodes at them.                        *)
LEMMA PathTypes ==
  ASSUME NEW s \in Sections, NEW i \in Items
  PROVE  /\ s \in Seq(Items) /\ s \o <<i>> \in Seq(Items)
         /\ Joined(s, i) \in Seq(Items) /\ Joined(s, i) # <<>>
         /\ ReadPath(s, i) \in Seq(Items)
<1>1. s \in Seq(Items)
  <2>1. s \in Seq(ItemNames) BY TreeAssumption
  <2>2. ItemNames \subseteq Items BY DEF Items
  <2> QED BY <2>1, <2>2, SeqMonotonic
<1>2. <<"">> \in Seq(Items) /\ <<i>> \in Seq(Items) /\ <<>> \in Seq(Items)
  <2>1. "" \in Items BY DEF Items
  <2>2. \A e \in Items : <<e>> \in Seq(Items) OBVIOUS
  <2> QED BY <2>1, <2>2, EmptySeq
<1>3. \A q \in Seq(Items) : q \o <<i>> \in Seq(Items) /\ q \o <<i>> # <<>>
  <2> TAKE q \in Seq(Items)
  <2>1. Len(q \o <<i>>) = Len(q) + Len(<<i>>) /\ q \o <<i>> \in Seq(Items)
    BY <1>2, ConcatProperties
  <2>2. Len(<<i>>) = 1 /\ Len(<<>>) = 0 /\ Len(q) \in Nat OBVIOUS
  <2> QED BY <2>1, <2>2
<1>4. s \o <<>> \in Seq(Items) BY <1>1, <1>2, ConcatProperties
<1> QED BY <1>1, <1>2, <1>3, <1>4 DEF Joined, ReadPath

(* A path but its last name.                                               *)
LEMMA PathSplit ==
  ASSUME NEW p \in Seq(Items), p # <<>>
  PROVE  /\ Front(p) \in Seq(Items) /\ Last(p) \in Items /\ Last(p) = p[Len(p)]
         /\ Len(Front(p)) = Len(p) - 1 /\ Len(p) \in Nat \ {0}
         /\ \A k \in 1..(Len(p) - 1) : Front(p)[k] = p[k]
<1>1. Len(p) \in Nat \ {0} BY EmptySeq
<1>2. \A k \in 1..Len(p) : p[k] \in Items BY ElementOfSeq
<1>3. 1..(Len(p) - 1) \subseteq 1..Len(p) /\ Len(p) \in 1..Len(p) BY <1>1
<1>4. /\ SubSeq(p, 1, Len(p) - 1) \in Seq(Items)
      /\ Len(SubSeq(p, 1, Len(p) - 1)) =
           IF 1 <= Len(p) - 1 THEN (Len(p) - 1) - 1 + 1 ELSE 0
      /\ \A k \in 1..((Len(p) - 1) - 1 + 1) : SubSeq(p, 1, Len(p) - 1)[k] = p[1 + k - 1]
  <2>1. \A k \in 1..(Len(p) - 1) : p[k] \in Items BY <1>2, <1>3
  <2>2. 1 \in Int /\ Len(p) - 1 \in Int BY <1>1
  <2> QED BY <2>1, <2>2, SubSeqProperties
<1>5. Len(SubSeq(p, 1, Len(p) - 1)) = Len(p) - 1
  <2>1. PICK l \in Nat : l = Len(p) - 1 BY <1>1
  <2>2. (IF 1 <= l THEN l - 1 + 1 ELSE 0) = l OBVIOUS
  <2> QED BY <1>4, <2>1, <2>2
<1>6. \A k \in 1..(Len(p) - 1) : SubSeq(p, 1, Len(p) - 1)[k] = p[k]
  <2>1. (Len(p) - 1) - 1 + 1 = Len(p) - 1 /\ \A k \in 1..(Len(p) - 1) : 1 + k - 1 = k
    BY <1>1
  <2> QED BY <1>4, <2>1
<1> QED BY <1>1, <1>2, <1>3, <1>4, <1>5, <1>6 DEF Front, Last

(* A path put to is walked to the place where reading looks for the item.  *)
LEMMA WalkedPaths ==
  ASSUME NEW s \in Sections, s # <<>>, NEW i \in Items
  PROVE  /\ i # "" => ReadPath(s, i) = Joined(s, i)
         /\ i = "" => ReadPath(s, i) = s /\ Joined(s, i) = s \o <<"">>
         /\ Walked(Joined(s, i)) = ReadPath(s, i)
<1>1. PICK p : p = s \o <<i>> OBVIOUS
<1>2. s \in Seq(Items) /\ p \in Seq(Items) /\ p # <<>> /\ p = Joined(s, i)
  BY <1>1, PathTypes DEF Joined
<1>3. Len(p) = Len(s) + 1 /\ p[Len(p)] = i /\ \A k \in 1..Len(s) : p[k] = s[k]
  <2>1. <<i>> \in Seq(Items) /\ Len(<<i>>) = 1 /\ <<i>>[1] = i OBVIOUS
  <2>2. /\ Len(p) = Len(s) + Len(<<i>>)
        /\ \A k \in 1..(Len(s) + Len(<<i>>)) :
             p[k] = IF k <= Len(s) THEN s[k] ELSE <<i>>[k - Len(s)]
    BY <1>1, <1>2, <2>1, ConcatProperties
  <2>3. PICK j \in Nat : j = Len(s) BY <1>2, LenProperties
  <2>4. j + 1 \in 1..(j + 1) /\ ~(j + 1 <= j) /\ (j + 1) - j = 1
        /\ \A k \in 1..j : k \in 1..(j + 1) /\ k <= j
    OBVIOUS
  <2> QED BY <2>1, <2>2, <2>3, <2>4
<1>4. s \o <<>> = s BY <1>2, ConcatEmptySeq
<1>5. Last(p) = i BY <1>3 DEF Last
<1>6. CASE i # ""
  <2>1. ReadPath(s, i) = p BY <1>1, <1>6 DEF ReadPath
  <2>2. Walked(p) = p BY <1>5, <1>6 DEF Walked
  <2> QED BY <1>2, <1>6, <2>1, <2>2
<1>7. CASE i = ""
  <2>1. Front(p) = s
    <3>1. /\ Front(p) \in Seq(Items) /\ Len(Front(p)) = Len(p) - 1
          /\ \A k \in 1..(Len(p) - 1) : Front(p)[k] = p[k]
      BY <1>2, PathSplit
    <3>2. Len(p) - 1 = Len(s) /\ Len(s) \in Nat BY <1>2, <1>3, LenProperties
    <3>3. Len(Front(p)) = Len(s) /\ \A k \in 1..Len(s) : Front(p)[k] = s[k]
      BY <1>3, <3>1, <3>2
    <3> QED BY <1>2, <3>1, <3>3, SeqEqual
  <2>2. Walked(p) = s BY <1>2, <1>5, <1>7, <2>1 DEF Walked
  <2>3. ReadPath(s, i) = s BY <1>4, <1>7 DEF ReadPath
  <2> QED BY <1>1, <1>2, <1>7, <2>2, <2>3
<1> QED BY <1>6, <1>7

LEMMA NodeAtType ==
  ASSUME NEW T, Closed(T), NEW t \in T, NEW path \in Seq(Items)
  PROVE  /\ NodeAt(t, path) \in NodesOver(T)
         /\ get_child_optional(t, path) \in T \cup {Missing}
         /\ get_child_optional(t, path) # Missing =>
              NodeAt(t, path) = get_child_optional(t, path)
<1>1. Len(path) \in 0..Len(path) /\ Len(path) \in Nat BY LenProperties
<1>2. get_child_optional(t, path) \in T \cup {Missing}
  BY <1>1, WayIn DEF get_child_optional
<1>3. Empty \in NodesOver(T)
  <2>1. "" \in ItemTexts BY DEF ItemTexts
  <2> QED BY <2>1, LeafIsNode
<1> QED BY <1>2, <1>3, NotMissing DEF Closed, NodeAt, OrEmpty

(* A write is read back, and changes no other item.                        *)
LEMMA PutNode ==
  ASSUME NEW T, NEW n \in NodesOver(T), NEW v \in ItemTexts
  PROVE  [n EXCEPT !.data = v] \in NodesOver(T) /\ [n EXCEPT !.data = v].data = v
<1>1. n = [data |-> n.data, kids |-> n.kids] /\ n.kids \in Seq(KidOver(T)) BY NodeParts
<1>2. [n EXCEPT !.data = v] = [data |-> v, kids |-> n.kids] BY <1>1
<1> QED BY <1>1, <1>2, NodeMade

(* A node put at p leaves the other items of the program as they read.     *)
LEMMA OthersAreKept ==
  ASSUME NEW T, Closed(T), NEW t \in T, NEW p \in Seq(Items), NEW n \in NodesOver(T),
         NEW u, u = Changed(t, p, n)
  PROVE  OthersKept(t, u, p)
<1>1. ASSUME NEW q \in Paths, ~Within(q, p)
       PROVE  /\ ~Within(p, q) => Same(t, u, q)
              /\ TreeExists(t, q) => GetTree(u, q).data = GetTree(t, q).data
  <2>1. q \in Seq(Items) BY PathTypes DEF Paths
  <2>2. CASE ~Within(p, q)
    <3>1. Same(t, u, q) BY <1>1, <2>1, <2>2, ReadApart
    <3> QED BY <2>2, <3>1 DEF Same, GetTree, TreeExists
  <2>3. CASE Within(p, q)
    <3>1. Len(q) # Len(p)
      <4>1. SUFFICES ASSUME Len(q) = Len(p) PROVE FALSE OBVIOUS
      <4>2. DOMAIN p = 1..Len(p) /\ DOMAIN q = 1..Len(q) BY <2>1, LenProperties
      <4> QED BY <1>1, <2>3, <4>1, <4>2 DEF Within
    <3>2. /\ get_child_optional(u, q) # Missing
          /\ get_child_optional(u, q).data = NodeAt(t, q).data
      BY <2>1, <2>3, <3>1, ReadAbove
    <3>3. TreeExists(t, q) => NodeAt(t, q) = GetTree(t, q)
      BY <2>1, NodeAtType DEF GetTree, TreeExists
    <3> QED BY <2>3, <3>2, <3>3 DEF GetTree, TreeExists
  <2> QED BY <2>2, <2>3
<1> QED BY <1>1 DEF OthersKept

LEMMA ChangedIsRight ==
  ASSUME NEW T, Closed(T), NEW t \in T, NEW s \in Sections, s # <<>>, NEW i \in Items,
         NEW v \in ItemTexts,
         NEW u, u = Changed(t, ReadPath(s, i), [NodeAt(t, ReadPath(s, i)) EXCEPT !.data = v])
  PROVE  WrittenRight(t, u, s, i, v)
<1>1. PICK p : p = ReadPath(s, i) OBVIOUS
<1>2. p \in Seq(Items) BY <1>1, PathTypes
<1>3. PICK n : n = [NodeAt(t, p) EXCEPT !.data = v] OBVIOUS
<1>4. n \in NodesOver(T) /\ n.data = v
  <2>1. NodeAt(t, p) \in NodesOver(T) BY <1>2, NodeAtType
  <2> QED BY <1>3, <2>1, PutNode
<1>5. u = Changed(t, p, n) BY <1>1, <1>3
<1>6. get_child_optional(u, p) = n
  <2>1. Within(p, p)
    <3>1. Len(p) \in Nat BY <1>2, LenProperties
    <3> QED BY <3>1 DEF Within
  <2> QED BY <1>2, <1>4, <1>5, <2>1, ReadBelow DEF get_child_optional
<1>7. n # Missing BY <1>4, NotMissing
<1>8. \A d, Converts : Read(u, s, i, d, Converts) =
                         IF v \in DOMAIN Converts THEN Converts[v] ELSE d
  BY <1>1, <1>4, <1>6, <1>7 DEF Read
<1>9. \A d \in ItemTexts :
         /\ ReadString(u, s, i, d) = v
         /\ ReadInteger(u, s, i, d) = (IF v \in DOMAIN AsNumber THEN v ELSE d)
         /\ ReadByte(u, s, i, d) = (IF v \in DOMAIN AsByte THEN v ELSE d)
         /\ ReadBool(u, s, i, d) = (IF v \in DOMAIN AsTruth THEN AsTruth[v] ELSE d)
  <2> TAKE d \in ItemTexts
  <2>1. ReadString(u, s, i, d) = v
    <3>1. PICK c : c = [w \in ItemTexts |-> w] OBVIOUS
    <3>2. v \in DOMAIN c /\ c[v] = v BY <3>1
    <3> QED BY <1>8, <3>1, <3>2 DEF ReadString
  <2>2. ReadInteger(u, s, i, d) = (IF v \in DOMAIN AsNumber THEN v ELSE d)
    <3>1. v \in DOMAIN AsNumber => AsNumber[v] = v BY DEF AsNumber
    <3> QED BY <1>8, <3>1 DEF ReadInteger
  <2>3. ReadByte(u, s, i, d) = (IF v \in DOMAIN AsByte THEN v ELSE d)
    <3>1. v \in DOMAIN AsByte => AsByte[v] = v BY DEF AsByte
    <3> QED BY <1>8, <3>1 DEF ReadByte
  <2>4. ReadBool(u, s, i, d) = (IF v \in DOMAIN AsTruth THEN AsTruth[v] ELSE d)
    BY <1>8 DEF ReadBool
  <2> QED BY <2>1, <2>2, <2>3, <2>4
<1>10. OthersKept(t, u, p) BY <1>2, <1>4, <1>5, OthersAreKept
<1> QED BY <1>1, <1>9, <1>10 DEF WrittenRight

(* Where reading looks for the item is where it is written.                *)
LEMMA WrittenIsRight ==
  ASSUME NEW T, Closed(T), NEW t \in T, NEW s \in Sections, s # <<>>, NEW i \in Items,
         NEW v \in ItemTexts
  PROVE  i # "" \/ TreeExists(t, s) => WrittenRight(t, WriteString(t, s, i, v), s, i, v)
<1>1. PICK p : p = ReadPath(s, i) OBVIOUS
<1>2. Walked(Joined(s, i)) = p BY <1>1, WalkedPaths
<1>3. i # "" => Joined(s, i) = p BY <1>1, WalkedPaths
<1>4. i = "" => p = s BY <1>1, WalkedPaths
<1>5. ASSUME i # "" \/ TreeExists(t, s)
      PROVE  WriteString(t, s, i, v) = Changed(t, p, [NodeAt(t, p) EXCEPT !.data = v])
  <2>1. PICK w, q :
          /\ w = Joined(s, i)
          /\ q = IF get_child_optional(t, Walked(w)) # Missing THEN Walked(w) ELSE w
    OBVIOUS
  <2>2. q = p
    <3>1. CASE get_child_optional(t, p) # Missing BY <1>2, <2>1, <3>1
    <3>2. CASE get_child_optional(t, p) = Missing
      <4>1. i # "" BY <1>4, <1>5, <3>2 DEF TreeExists
      <4> QED BY <1>3, <2>1, <1>2, <4>1
    <3> QED BY <3>1, <3>2
  <2>3. put(t, w, v) = Changed(t, q, [NodeAt(t, q) EXCEPT !.data = v]) BY <2>1 DEF put
  <2> QED BY <2>1, <2>2, <2>3 DEF WriteString
<1>6. WrittenRight(t, Changed(t, p, [NodeAt(t, p) EXCEPT !.data = v]), s, i, v)
  BY <1>1, ChangedIsRight
<1> QED BY <1>5, <1>6

(* Without its assertions boost puts the text of a section that is not     *)
(* there into a child without a name.                                      *)
LEMMA MislaidIs ==
  ASSUME NEW T, Closed(T), NEW t \in T, NEW s \in Sections, s # <<>>,
         NEW v \in ItemTexts, ~TreeExists(t, s)
  PROVE  Mislaid(t, WriteString(t, s, "", v), s, v)
<1>1. PICK e : e = "" OBVIOUS
<1>2. e \in Items BY <1>1 DEF Items
<1>3. PICK p : p = s \o <<e>> OBVIOUS
<1>4. p \in Seq(Items) /\ s \in Seq(Items) BY <1>3, <1>2, PathTypes
<1>5. PICK j \in Nat : j = Len(s) BY <1>4, LenProperties
<1>6. Len(p) = j + 1 /\ DOMAIN s = 1..j /\ \A k \in 1..j : p[k] = s[k]
  <2>1. <<e>> \in Seq(Items) /\ Len(<<e>>) = 1 BY <1>2
  <2>2. /\ Len(p) = Len(s) + Len(<<e>>)
        /\ \A k \in 1..(Len(s) + Len(<<e>>)) :
             p[k] = IF k <= Len(s) THEN s[k] ELSE <<e>>[k - Len(s)]
    BY <1>3, <1>4, <2>1, ConcatProperties
  <2>3. \A k \in 1..j : k \in 1..(j + 1) /\ k <= j OBVIOUS
  <2> QED BY <1>4, <1>5, <2>1, <2>2, <2>3, LenProperties
<1>7. Within(p, s) /\ Agree(p, s, j) /\ Len(s) # Len(p)
  <2>1. Within(p, s) BY <1>5, <1>6 DEF Within
  <2> QED BY <1>4, <1>5, <1>6, <2>1, WithinIs
<1>8. get_child_optional(t, p) = Missing
  <2>1. j + 1 \in 1..Len(p) /\ (j + 1) - 1 = j /\ j \in 0..j BY <1>6
  <2>2. Way(t, p)[j] = Missing
    BY <1>4, <1>5, <1>7, <2>1, WaySame DEF TreeExists, get_child_optional
  <2>3. Way(t, p)[j + 1] = Missing BY <1>6, <2>1, <2>2, WayAlong
  <2> QED BY <1>6, <2>3 DEF get_child_optional
<1>9. PICK n, u : n = Leaf(v) /\ u = Changed(t, p, n) OBVIOUS
<1>10. n \in NodesOver(T) /\ n # Missing BY <1>9, LeafIsNode, NotMissing
<1>11. WriteString(t, s, "", v) = u
  <2>1. Joined(s, "") = p /\ Walked(p) = s BY <1>1, <1>3, <1>2, WalkedPaths
  <2>2. get_child_optional(t, s) = Missing BY DEF TreeExists
  <2>3. NodeAt(t, p) = Empty BY <1>8 DEF NodeAt, OrEmpty
  <2>4. [Empty EXCEPT !.data = v] = n
    <3>1. \A w, kids : [[data |-> w, kids |-> kids] EXCEPT !.data = v]
                         = [data |-> v, kids |-> kids]
      OBVIOUS
    <3> QED BY <1>9, <3>1 DEF Empty, Leaf
  <2> QED BY <1>9, <2>1, <2>2, <2>3, <2>4 DEF WriteString, put
<1>12. GetTree(u, p) = Leaf(v)
  <2>1. Within(p, p)
    <3>1. Len(p) \in Nat BY <1>4, LenProperties
    <3> QED BY <3>1 DEF Within
  <2>2. get_child_optional(u, p) = n BY <1>4, <1>9, <1>10, <2>1, ReadBelow DEF get_child_optional
  <2> QED BY <1>9, <1>10, <2>2 DEF GetTree, TreeExists
<1>13. ASSUME NEW d \in ItemTexts PROVE ReadString(u, s, "", d) = ""
  <2>1. ~Within(s, p) BY <1>5, <1>6 DEF Within
  <2>2. /\ get_child_optional(u, s) # Missing
        /\ get_child_optional(u, s).data = NodeAt(t, s).data
    BY <1>4, <1>7, <1>9, <1>10, <2>1, ReadAbove
  <2>3. NodeAt(t, s).data = "" BY DEF NodeAt, OrEmpty, TreeExists, Empty, Leaf
  <2>4. PICK c : c = [w \in ItemTexts |-> w] OBVIOUS
  <2>5. "" \in DOMAIN c /\ c[""] = "" BY <2>4 DEF ItemTexts
  <2>6. ReadPath(s, "") = s BY <1>1, <1>2, WalkedPaths
  <2>7. Read(u, s, "", d, c) = "" BY <2>2, <2>3, <2>5, <2>6 DEF Read
  <2> QED BY <2>4, <2>7 DEF ReadString
<1>14. OthersKept(t, u, p) BY <1>4, <1>9, <1>10, OthersAreKept
<1> QED BY <1>1, <1>3, <1>11, <1>12, <1>13, <1>14 DEF Mislaid

(* A deletion takes the items of the name, and nothing else.               *)
LEMMA DeletedIsRight ==
  ASSUME NEW T, Closed(T), NEW t \in T, NEW s \in Seq(Items), NEW i \in Items
  PROVE  DeletedRight(t, DeleteItem(t, s, i), s, i)
<1>1. PICK p : p = s \o <<i>> OBVIOUS
<1>2. s \in Seq(Items) /\ p \in Seq(Items)
  <2>1. <<i>> \in Seq(Items) OBVIOUS
  <2> QED BY <1>1, <2>1, ConcatProperties
<1>3. PICK j \in Nat : j = Len(s) BY <1>2, LenProperties
<1>4. /\ Len(p) = j + 1 /\ p[j + 1] = i /\ \A k \in 1..j : p[k] = s[k]
      /\ DOMAIN s = 1..j /\ DOMAIN p = 1..(j + 1)
  <2>1. <<i>> \in Seq(Items) /\ Len(<<i>>) = 1 /\ <<i>>[1] = i OBVIOUS
  <2>2. /\ Len(p) = Len(s) + Len(<<i>>)
        /\ \A k \in 1..(Len(s) + Len(<<i>>)) :
             p[k] = IF k <= Len(s) THEN s[k] ELSE <<i>>[k - Len(s)]
    BY <1>1, <1>2, <2>1, ConcatProperties
  <2>3. Len(p) = j + 1 BY <1>3, <2>1, <2>2
  <2>4. j + 1 \in 1..(j + 1) /\ ~(j + 1 <= j) /\ (j + 1) - j = 1
        /\ \A k \in 1..j : k \in 1..(j + 1) /\ k <= j
    OBVIOUS
  <2>5. p[j + 1] = i /\ \A k \in 1..j : p[k] = s[k] BY <1>3, <2>1, <2>2, <2>4
  <2> QED BY <1>2, <1>3, <2>3, <2>5, LenProperties
<1>5. j + 1 \in 1..Len(p) /\ (j + 1) - 1 = j /\ j \in 0..Len(s) /\ j \in 0..j
  BY <1>3, <1>4
<1>6. Within(p, s) BY <1>3, <1>4 DEF Within
<1>7. CASE ~TreeExists(t, s)
  <2>1. DeleteItem(t, s, i) = t BY <1>7 DEF DeleteItem
  <2>2. Agree(p, s, j) BY <1>2, <1>3, <1>6, WithinIs
  <2>3. Way(t, p)[j] = Missing
    BY <1>2, <1>3, <1>5, <1>7, <2>2, WaySame DEF TreeExists, get_child_optional
  <2>4. Way(t, p)[j + 1] = Missing BY <1>4, <1>5, <2>3, WayAlong
  <2>5. ~TreeExists(t, p) BY <1>4, <2>4 DEF TreeExists, get_child_optional
  <2> QED BY <1>1, <2>1, <2>5 DEF DeletedRight, Same
<1>8. CASE TreeExists(t, s)
  <2>1. PICK m, n, u :
          /\ m = NodeAt(t, s) /\ n = [m EXCEPT !.kids = erase(@, i)]
          /\ u = Changed(t, s, n)
    OBVIOUS
  <2>2. m \in NodesOver(T) /\ m = get_child_optional(t, s) /\ m # Missing
    BY <1>2, <1>8, <2>1, NodeAtType DEF TreeExists
  <2>3. /\ n \in NodesOver(T) /\ Kid(n, i) = Missing
        /\ \A l : Folded[l] # Folded[i] => Kid(n, l) = Kid(m, l)
    <3>1. n = [m EXCEPT !.kids = erase(@, i)] BY <2>1
    <3> QED BY <2>2, <3>1, EraseFacts
  <2>4. n # Missing BY <2>3, NotMissing
  <2>5. DeleteItem(t, s, i) = u BY <1>8, <2>1 DEF DeleteItem
  <2>6. ~TreeExists(u, p)
    <3>1. Way(u, p)[j] = n BY <1>2, <1>3, <1>6, <2>1, <2>3, ReadBelow
    <3>2. Way(u, p)[j + 1] = Missing BY <1>4, <1>5, <2>3, <3>1, WayAlong
    <3> QED BY <1>4, <3>2 DEF TreeExists, get_child_optional
  <2>7. ASSUME NEW q \in Paths, ~Within(q, p), ~Within(s, q) PROVE Same(t, u, q)
    <3>1. q \in Seq(Items) /\ Len(q) \in Nat /\ DOMAIN q = 1..Len(q)
      BY PathTypes, LenProperties DEF Paths
    <3>2. CASE ~Within(q, s) BY <1>2, <2>1, <2>3, <2>7, <3>1, <3>2, ReadApart
    <3>3. CASE Within(q, s)
      <4>1. j < Len(q)
        <5>1. j <= Len(q) /\ Len(q) \in Nat BY <1>3, <3>1, <3>3 DEF Within
        <5>2. Len(q) # j
          <6>1. SUFFICES ASSUME Len(q) = j PROVE FALSE OBVIOUS
          <6> QED BY <1>3, <1>4, <2>7, <3>1, <3>3, <6>1 DEF Within
        <5> QED BY <5>1, <5>2
      <4>2. Folded[q[j + 1]] # Folded[i]
        <5>1. SUFFICES ASSUME Folded[q[j + 1]] = Folded[i] PROVE FALSE OBVIOUS
        <5>2. \A k \in 1..(j + 1) : k \in 1..j \/ k = j + 1 OBVIOUS
        <5> QED BY <1>3, <1>4, <2>7, <3>1, <3>3, <4>1, <5>1, <5>2 DEF Within
      <4>3. Way(u, q)[j] = n /\ Way(t, q)[j] = m
        BY <1>2, <1>3, <2>1, <2>2, <2>3, <3>1, <3>3, ReadBelow
      <4>4. j + 1 \in 1..Len(q) /\ j + 1 \in 0..Len(q) /\ (j + 1) - 1 = j
        BY <3>1, <4>1
      <4>5. Way(u, q)[j + 1] = Kid(n, q[j + 1]) /\ Way(t, q)[j + 1] = Kid(m, q[j + 1])
        BY <2>2, <2>4, <3>1, <4>3, <4>4, WayAlong, SMTT(30)
      <4>6. Way(u, q)[j + 1] = Way(t, q)[j + 1] BY <2>3, <4>2, <4>5
      <4> QED BY <3>1, <4>4, <4>6, WayOn
    <3> QED BY <3>2, <3>3
  <2> QED BY <1>1, <2>5, <2>6, <2>7 DEF DeletedRight
<1> QED BY <1>7, <1>8

(* A child added where there was none is the one found.                    *)
LEMMA AddedIsFound ==
  ASSUME NEW T, Closed(T), NEW t \in T, NEW p \in Seq(Items), p # <<>>,
         NEW sub \in T, ~TreeExists(t, p)
  PROVE  get_child_optional(add_child(t, p, sub), p) = sub
<1>1. PICK q, k, j : q = Front(p) /\ k = Last(p) /\ j = Len(p) - 1 OBVIOUS
<1>2. /\ q \in Seq(Items) /\ k \in Items /\ k = p[j + 1] /\ Len(p) = j + 1
      /\ Len(q) = j /\ j \in Nat /\ \A i \in 1..j : q[i] = p[i]
  <2>1. /\ q \in Seq(Items) /\ k \in Items /\ k = p[Len(p)] /\ Len(q) = j
        /\ Len(p) \in Nat \ {0} /\ \A i \in 1..j : q[i] = p[i]
    BY <1>1, PathSplit
  <2> QED BY <1>1, <2>1
<1>3. PICK m : m = NodeAt(t, q) OBVIOUS
<1>4. m \in NodesOver(T) BY <1>2, <1>3, NodeAtType
<1>5. Within(p, q) /\ Agree(p, q, j)
  <2>1. DOMAIN q = 1..j BY <1>2, LenProperties
  <2>2. Within(p, q) BY <1>2, <2>1 DEF Within
  <2> QED BY <1>2, <2>2, WithinIs
<1>6. Kid(m, k) = Missing
  <2>1. j + 1 \in 1..Len(p) /\ (j + 1) - 1 = j /\ j \in 0..j BY <1>2
  <2>2. Way(t, p)[j] = get_child_optional(t, q)
    BY <1>2, <1>5, <2>1, WaySame DEF get_child_optional
  <2>3. Way(t, p)[j + 1] = Missing BY <1>2 DEF TreeExists, get_child_optional
  <2>4. Way(t, p)[j + 1] = IF Way(t, p)[j] = Missing THEN Missing ELSE Kid(Way(t, p)[j], k)
    BY <1>2, <2>1, WayAlong
  <2> QED BY <1>3, <2>2, <2>3, <2>4, KidOfEmpty DEF NodeAt, OrEmpty
<1>7. PICK n : n = push_back(m, k, sub) OBVIOUS
<1>8. n \in NodesOver(T) /\ Kid(n, k) = sub /\ n # Missing
  <2>1. Named(m, k) = {} BY <1>4, <1>6, KidType
  <2>2. n \in NodesOver(T \cup {sub}) /\ Kid(n, k) = sub BY <1>2, <1>4, <1>7, <2>1, PushedBack
  <2>3. T \cup {sub} = T OBVIOUS
  <2>4. n \in NodesOver(T) BY <2>2, <2>3
  <2> QED BY <2>2, <2>4, NotMissing
<1>9. PICK u : u = Changed(t, q, n) OBVIOUS
<1>10. add_child(t, p, sub) = u BY <1>1, <1>3, <1>7, <1>9 DEF add_child
<1>11. Way(u, p)[j] = n BY <1>2, <1>5, <1>8, <1>9, ReadBelow
<1>12. Way(u, p)[j + 1] = sub
  <2>1. j + 1 \in 1..Len(p) /\ (j + 1) - 1 = j BY <1>2
  <2> QED BY <1>2, <1>8, <1>11, <2>1, WayAlong
<1> QED BY <1>2, <1>10, <1>12 DEF get_child_optional

LEMMA PushedNode ==
  ASSUME NEW T, NEW n \in NodesOver(T), NEW k \in Items, NEW sub \in T
  PROVE  push_back(n, k, sub) \in NodesOver(T)
<1>1. PICK e : e = [name |-> k, tree |-> sub] OBVIOUS
<1>2. e \in KidOver(T) BY <1>1 DEF KidOver
<1>3. n = [data |-> n.data, kids |-> n.kids] BY NodeParts
<1>4. PICK w : w = push_back(n, k, sub) OBVIOUS
<1>5. w = [data |-> n.data, kids |-> Append(n.kids, e)] BY <1>1, <1>3, <1>4 DEF push_back
<1>6. w \in NodesOver(T) BY <1>2, <1>5, PutLast
<1> QED BY <1>4, <1>6

(* The array of some trees is a node that has them.                        *)
LEMMA ArrayNode ==
  ASSUME NEW T, NEW s \in Seq(T),
         NEW a, a = [Empty EXCEPT !.kids = [x \in DOMAIN s |-> [name |-> "", tree |-> s[x]]]]
  PROVE  a \in NodesOver(T) /\ Trees(a) = s
<1>1. DOMAIN s = 1..Len(s) /\ Len(s) \in Nat /\ s = [x \in 1..Len(s) |-> s[x]]
  BY LenProperties
<1>2. PICK kids : kids = [x \in 1..Len(s) |-> [name |-> "", tree |-> s[x]]] OBVIOUS
<1>3. a.kids = [x \in 1..Len(s) |-> [name |-> "", tree |-> s[x]]]
      /\ a = [data |-> "", kids |-> a.kids]
  <2>1. a = [data |-> "", kids |-> kids] BY <1>1, <1>2 DEF Empty, Leaf
  <2>2. a.kids = kids
    <3>1. \A k : [data |-> "", kids |-> k].kids = k OBVIOUS
    <3> QED BY <2>1, <3>1
  <2> QED BY <1>2, <2>1, <2>2
<1>4. a.kids \in Seq(KidOver(T))
  <2>1. "" \in Items BY DEF Items
  <2>2. \A x \in 1..Len(s) : [name |-> "", tree |-> s[x]] \in KidOver(T)
    BY <2>1, ElementOfSeq DEF KidOver
  <2>3. a.kids \in [1..Len(s) -> KidOver(T)] BY <1>3, <2>2
  <2> QED BY <1>1, <2>3, SeqDef
<1>5. a \in NodesOver(T)
  <2>1. "" \in ItemTexts BY DEF ItemTexts
  <2>2. [data |-> "", kids |-> a.kids] \in NodesOver(T) BY <1>4, <2>1, NodeMade
  <2> QED BY <1>3, <2>2
<1>6. Trees(a) = s
  <2>1. DOMAIN a.kids = 1..Len(s) /\ \A x \in 1..Len(s) : a.kids[x].tree = s[x] BY <1>3
  <2>2. Trees(a) = [x \in 1..Len(s) |-> s[x]] BY <2>1 DEF Trees
  <2> QED BY <1>1, <2>2
<1> QED BY <1>5, <1>6

LEMMA ArrayTrees ==
  ASSUME NEW T, Closed(T), NEW v \in ItemTexts
  PROVE  \E U : /\ T \subseteq U /\ Closed(U) /\ Leaf(v) \in U
                /\ <<Leaf(v), Empty>> \in Seq(U)
<1>1. PICK l, e : l = Leaf(v) /\ e = Empty OBVIOUS
<1>2. PICK U : U = T \cup {l, e} OBVIOUS
<1>3. Closed(U)
  <2>1. l \in NodesOver(U) /\ e \in NodesOver(U) BY <1>1, LeafIsNode
  <2>2. NodesOver(T) \subseteq NodesOver(U) BY <1>2, NodesGrow
  <2> QED BY <1>2, <2>1, <2>2 DEF Closed
<1>4. l \in U /\ e \in U BY <1>2
<1>5. <<l, e>> \in Seq(U)
  <2>1. \A x, y \in U : <<x, y>> \in Seq(U) OBVIOUS
  <2> QED BY <1>4, <2>1
<1> QED BY <1>1, <1>2, <1>3, <1>4, <1>5

(* Every edit makes a tree of a tree.                                      *)
LEMMA EditsMakeTrees ==
  ASSUME NEW t, IsTree(t), NEW s \in Sections, NEW i \in Items, NEW v \in Values
  PROVE  /\ IsTree(WriteString(t, s, i, v)) /\ IsTree(WriteAt(t, s, v))
         /\ IsTree(DeleteItem(t, s, i)) /\ IsTree(DeleteContent(t, s))
         /\ IsTree(WriteArray(t, s, i, <<Leaf(v), Empty>>))
         /\ s # <<>> => IsTree(WriteTree(t, s, Leaf(v)))
         /\ IsTree(Leaf(v))
<1>1. PICK T : t \in T /\ Closed(T) BY DEF IsTree
<1>2. v \in ItemTexts BY TreeAssumption
<1>3. s \in Seq(Items) /\ Joined(s, i) \in Seq(Items) /\ Joined(s, i) # <<>> BY PathTypes
<1>4. \A p \in Seq(Items), n \in NodesOver(T) : IsTree(Changed(t, p, n))
  BY <1>1, MadeFacts DEF Changed
<1>5. ASSUME NEW p \in Seq(Items) PROVE IsTree(put(t, p, v))
  <2>1. PICK q : q = IF get_child_optional(t, Walked(p)) # Missing THEN Walked(p) ELSE p
    OBVIOUS
  <2>2. q \in Seq(Items) BY <2>1, PathSplit DEF Walked
  <2>3. IsTree(Changed(t, q, [NodeAt(t, q) EXCEPT !.data = v]))
    BY <1>1, <1>2, <1>4, <2>2, NodeAtType, PutNode
  <2> QED BY <2>1, <2>3 DEF put
<1>6. ASSUME NEW p \in Seq(Items), p # <<>>, NEW U, NEW sub \in U, T \subseteq U, Closed(U)
      PROVE  IsTree(add_child(t, p, sub))
  <2>1. PICK m, k : m = NodeAt(t, Front(p)) /\ k = Last(p) OBVIOUS
  <2>2. Front(p) \in Seq(Items) /\ k \in Items /\ t \in U BY <1>1, <1>6, <2>1, PathSplit
  <2>3. m \in NodesOver(U) BY <1>6, <2>1, <2>2, NodeAtType
  <2>4. push_back(m, k, sub) \in NodesOver(U)
    BY <1>6, <2>2, <2>3, PushedNode
  <2> QED BY <1>6, <2>1, <2>2, <2>4, MadeFacts DEF add_child, Changed
<1>7. PICK U : T \subseteq U /\ Closed(U) /\ Leaf(v) \in U /\ <<Leaf(v), Empty>> \in Seq(U)
  BY <1>1, <1>2, ArrayTrees
<1>8. PICK array, a :
        /\ array = <<Leaf(v), Empty>>
        /\ a = [Empty EXCEPT !.kids = [x \in DOMAIN array |-> [name |-> "", tree |-> array[x]]]]
  OBVIOUS
<1>9. IsTree(Leaf(v)) BY <1>7 DEF IsTree
<1>10. IsTree(DeleteItem(t, s, i))
  <2>1. NodeAt(t, s) \in NodesOver(T) BY <1>1, <1>3, NodeAtType
  <2>2. [NodeAt(t, s) EXCEPT !.kids = erase(@, i)] \in NodesOver(T) BY <2>1, EraseFacts
  <2> QED BY <1>3, <1>4, <2>2 DEF DeleteItem
<1>11. IsTree(DeleteContent(t, s)) BY <1>2, <1>3, <1>4, LeafIsNode DEF DeleteContent
<1>12. IsTree(WriteArray(t, s, i, <<Leaf(v), Empty>>))
  <2>1. a \in NodesOver(U) BY <1>7, <1>8, ArrayNode
  <2>2. PICK W : W = U \cup {a} OBVIOUS
  <2>3. Closed(W) BY <1>7, <2>1, <2>2, NodesAreTrees
  <2>4. IsTree(add_child(t, Joined(s, i), a)) BY <1>3, <1>6, <1>7, <2>2, <2>3
  <2>5. WriteArray(t, s, i, array) = add_child(t, Joined(s, i), a)
    BY <1>8 DEF WriteArray
  <2> QED BY <1>8, <2>4, <2>5
<1>13. s # <<>> => IsTree(WriteTree(t, s, Leaf(v)))
  BY <1>3, <1>6, <1>7 DEF WriteTree
<1> QED BY <1>3, <1>5, <1>9, <1>10, <1>11, <1>12, <1>13 DEF WriteString, WriteAt

LEMMA TreeStarts == TreeInit => IsTree(Root)
<1>1. "" \in ItemTexts BY DEF ItemTexts
<1>2. Empty \in NodesOver({}) BY <1>1, LeafIsNode
<1>3. IsTree(Empty) BY <1>2, NodesAreTrees DEF Closed
<1> QED BY <1>3 DEF TreeInit

LEMMA TreeStays == IsTree(Root) /\ [TreeNext]_Root => IsTree(Root')
<1> SUFFICES ASSUME IsTree(Root), [TreeNext]_Root PROVE IsTree(Root')
  OBVIOUS
<1>1. CASE TreeEdits
  <2>1. PICK s \in Sections, i \in Items, v \in Values :
          \/ Root' = WriteString(Root, s, i, v) \/ Root' = WriteAt(Root, s, v)
          \/ Root' = DeleteItem(Root, s, i) \/ Root' = DeleteContent(Root, s)
          \/ Root' = WriteArray(Root, s, i, <<Leaf(v), Empty>>)
          \/ s # <<>> /\ Root' = WriteTree(Root, s, Leaf(v))
    BY <1>1 DEF TreeEdits, EditTree
  <2>2. /\ IsTree(WriteString(Root, s, i, v)) /\ IsTree(WriteAt(Root, s, v))
        /\ IsTree(DeleteItem(Root, s, i)) /\ IsTree(DeleteContent(Root, s))
        /\ IsTree(WriteArray(Root, s, i, <<Leaf(v), Empty>>))
        /\ s # <<>> => IsTree(WriteTree(Root, s, Leaf(v)))
    BY EditsMakeTrees
  <2> QED BY <2>1, <2>2
<1>2. CASE ClearTree
  <2>1. PICK v \in Values : Root' = Leaf(v) BY <1>2 DEF ClearTree, EditTree
  <2>2. v \in ItemTexts BY TreeAssumption
  <2>3. Leaf(v) \in NodesOver({}) BY <2>2, LeafIsNode
  <2>4. IsTree(Leaf(v)) BY <2>3, NodesAreTrees DEF Closed
  <2> QED BY <2>1, <2>4
<1>3. CASE UNCHANGED Root BY <1>3
<1> QED BY <1>1, <1>2, <1>3 DEF TreeNext

LEMMA TreeLaws == IsTree(Root) => TreeRight
<1> SUFFICES ASSUME IsTree(Root), NEW s \in Sections \ {<<>>}, NEW i \in Items,
                    NEW v \in Values, NEW p, p = Joined(s, i),
                    NEW u, u = WriteString(Root, s, i, v)
             PROVE  /\ i # "" \/ TreeExists(Root, s) => WrittenRight(Root, u, s, i, v)
                    /\ i = "" /\ ~TreeExists(Root, s) => Mislaid(Root, u, s, v)
                    /\ \A r \in {s, <<>>} : DeletedRight(Root, DeleteItem(Root, r, i), r, i)
                    /\ ~TreeExists(Root, p) =>
                         /\ ReadArrayTrees(WriteArray(Root, s, i, <<Leaf(v), Empty>>), p)
                              = <<Leaf(v), Empty>>
                         /\ GetTree(WriteTree(Root, p, Leaf(v)), p) = Leaf(v)
  BY DEF TreeRight
<1>1. PICK T : Root \in T /\ Closed(T) BY DEF IsTree
<1>2. v \in ItemTexts BY TreeAssumption
<1>3. p \in Seq(Items) /\ p # <<>> /\ s \in Seq(Items) BY PathTypes
<1>4. <<>> \in Seq(Items) BY EmptySeq
<1>5. i # "" \/ TreeExists(Root, s) => WrittenRight(Root, u, s, i, v)
  BY <1>1, <1>2, WrittenIsRight
<1>6. i = "" /\ ~TreeExists(Root, s) => Mislaid(Root, u, s, v)
  BY <1>1, <1>2, MislaidIs
<1>7. ASSUME NEW r \in {s, <<>>} PROVE DeletedRight(Root, DeleteItem(Root, r, i), r, i)
  <2>1. r \in Seq(Items) BY <1>3, <1>4
  <2> QED BY <1>1, <2>1, DeletedIsRight
<1>8. ASSUME ~TreeExists(Root, p)
      PROVE  /\ ReadArrayTrees(WriteArray(Root, s, i, <<Leaf(v), Empty>>), p) = <<Leaf(v), Empty>>
             /\ GetTree(WriteTree(Root, p, Leaf(v)), p) = Leaf(v)
  <2>1. PICK U : T \subseteq U /\ Closed(U) /\ Leaf(v) \in U /\ <<Leaf(v), Empty>> \in Seq(U)
    BY <1>1, <1>2, ArrayTrees
  <2>2. PICK array, a :
          /\ array = <<Leaf(v), Empty>>
          /\ a = [Empty EXCEPT !.kids = [x \in DOMAIN array |-> [name |-> "", tree |-> array[x]]]]
    OBVIOUS
  <2>3. a \in NodesOver(U) /\ Trees(a) = array BY <2>1, <2>2, ArrayNode
  <2>4. PICK W : W = U \cup {a} OBVIOUS
  <2>5. Closed(W) /\ Root \in W /\ Leaf(v) \in W /\ a \in W
    BY <1>1, <2>1, <2>3, <2>4, NodesAreTrees
  <2>6. \A sub \in W : sub # Missing BY <2>5, NotMissing DEF Closed
  <2>7. \A sub \in W : get_child_optional(add_child(Root, p, sub), p) = sub
    BY <1>3, <1>8, <2>5, AddedIsFound
  <2>8. WriteArray(Root, s, i, array) = add_child(Root, p, a)
    BY <2>2 DEF WriteArray
  <2>9. ReadArrayTrees(WriteArray(Root, s, i, array), p) = array
    BY <2>3, <2>5, <2>6, <2>7, <2>8 DEF ReadArrayTrees, GetTree, TreeExists
  <2>10. GetTree(WriteTree(Root, p, Leaf(v)), p) = Leaf(v)
    BY <2>5, <2>6, <2>7 DEF WriteTree, GetTree, TreeExists
  <2> QED BY <2>2, <2>9, <2>10
<1> QED BY <1>5, <1>6, <1>7, <1>8

(* The laws of the tree hold of every tree that a program can make.        *)
THEOREM TreeIsRight == TreeSpec => []TreeRight
<1>1. TreeInit => IsTree(Root) BY TreeStarts
<1>2. IsTree(Root) /\ [TreeNext]_Root => IsTree(Root)' BY TreeStays DEF IsTree
<1>3. IsTree(Root) => TreeRight BY TreeLaws
<1> QED BY <1>1, <1>2, <1>3, PTL DEF TreeSpec
=============================================================================
