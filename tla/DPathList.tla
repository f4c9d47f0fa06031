------------------------------ MODULE DPathList ------------------------------
(***************************************************************************)
(* The searches of DPath (lib/DPath.cpp): ListFiles, ListDirs and the      *)
(* functions that call them, on the tree of files below a directory.       *)
(*                                                                         *)
(* A path is a sequence of names.  What the searches look at in a name is  *)
(* given by constants: its stem and its extension, what these texts        *)
(* contain, and how they compare without case.                             *)
(***************************************************************************)
EXTENDS Integers, FiniteSets, SequencesExt

CONSTANTS
  FilePaths,  \* the paths of the disk
  Stem, Ext,  \* functions from a name to a text; Ext has no dot
  Dotted,     \* function from an extension to the text with its dot
  Cleaned,    \* function from a pattern to the text without '*' and '.'
  Fold,       \* function from a text to the text without case
  Parts       \* function from a text to the set of texts it contains

Name(x) == x[Len(x)]
Parent(x) == Front(x)
Below(x) == {y \in FilePaths : y # x /\ IsPrefix(x, y)}

NoEntry == [kind |-> "none", data |-> <<>>]
Directory == [kind |-> "dir", data |-> <<>>]
File(data) == [kind |-> "file", data |-> data]

Exists(disk, x) == disk[x].kind # "none"
IsDirectory(disk, x) == Exists(disk, x) /\ disk[x].kind # "file"

(* What the iterator meets: the entries of a directory, or all below it.   *)
Entries(disk, top, recursive) ==
  {x \in Below(top) : Exists(disk, x) /\ (recursive \/ Parent(x) = top)}

-----------------------------------------------------------------------------
(* A search: patterns for the name and for the extension (an empty list    *)
(* and a null one accept everything), whether each must be the whole text, *)
(* whether case counts, and whether all patterns must match or one of them.*)
Searches(lists) ==
  [NameContentList : lists, NameWholeWord : BOOLEAN,
   ExtContentList : lists, ExtWholeWord : BOOLEAN,
   CaseSensitive : BOOLEAN, FindAll : BOOLEAN]

(* The overloads that take one string each: an empty one is no pattern.    *)
OneString(name, nameWhole, ext, extWhole, caseSensitive) ==
  [NameContentList |-> {name} \ {""}, NameWholeWord |-> nameWhole,
   ExtContentList |-> {ext} \ {""}, ExtWholeWord |-> extWhole,
   CaseSensitive |-> caseSensitive, FindAll |-> FALSE]
Everything == OneString("", FALSE, "", FALSE, FALSE)

Matches(txt, p, whole, caseSensitive) ==
  LET c == Cleaned[p] IN
    IF whole THEN IF caseSensitive THEN txt = c ELSE Fold[txt] = Fold[c]
             ELSE IF caseSensitive THEN c \in Parts[txt]
                                   ELSE Fold[c] \in Parts[Fold[txt]]

(* All patterns are compared under the flag for the whole name, one of     *)
(* them under the flag for the whole extension.                            *)
FileName(q, n) ==
  LET Hit(p) == Matches(Stem[n], p, IF q.FindAll THEN q.NameWholeWord
                                    ELSE q.ExtWholeWord, q.CaseSensitive)
  IN  \/ q.NameContentList = {}
      \/ q.FindAll /\ \A p \in q.NameContentList : Hit(p)
      \/ ~q.FindAll /\ \E p \in q.NameContentList : Hit(p)

(* Fault: all extensions must match whatever was asked for.                *)
FileExt_All(q, n) ==
  \A p \in q.ExtContentList :
    Matches(Ext[n], p, IF q.FindAll THEN q.NameWholeWord ELSE q.ExtWholeWord,
            q.CaseSensitive)

FileExt(q, n) ==
  LET Hit(p) == Matches(Ext[n], p, IF q.FindAll THEN q.NameWholeWord
                                   ELSE q.ExtWholeWord, q.CaseSensitive)
  IN  \/ q.ExtContentList = {}
      \/ q.FindAll /\ \A p \in q.ExtContentList : Hit(p)
      \/ ~q.FindAll /\ \E p \in q.ExtContentList : Hit(p)

ListFiles(disk, top, recursive, q) ==
  {x \in Entries(disk, top, recursive) :
     disk[x].kind # "dir" /\ FileName(q, Name(x)) /\ FileExt(q, Name(x))}

(* For directories, one pattern within the name, with case, is compared    *)
(* the other way round: the name is looked for in the pattern.             *)
DirName(q, n) ==
  LET Swapped == ~q.ExtWholeWord /\ q.CaseSensitive
      One(p) == IF Swapped THEN Stem[n] \in Parts[Cleaned[p]]
                ELSE Matches(Stem[n], p, q.ExtWholeWord, q.CaseSensitive)
  IN  \/ q.NameContentList = {}
      \/ q.FindAll /\ \A p \in q.NameContentList :
                        Matches(Stem[n], p, q.NameWholeWord, q.CaseSensitive)
      \/ ~q.FindAll /\ \E p \in q.NameContentList : One(p)

(* When all must match, the extension still has its dot.                   *)
DirExt(q, n) ==
  \/ q.ExtContentList = {}
  \/ q.FindAll /\ \A p \in q.ExtContentList :
                    Matches(Dotted[Ext[n]], p, q.NameWholeWord, q.CaseSensitive)
  \/ ~q.FindAll /\ \E p \in q.ExtContentList :
                     Matches(Ext[n], p, q.ExtWholeWord, q.CaseSensitive)

ListDirs(disk, top, recursive, q) ==
  {x \in Entries(disk, top, recursive) :
     disk[x].kind = "dir" /\ DirName(q, Name(x)) /\ DirExt(q, Name(x))}

(* -1 stands for a directory that is not there.                            *)
CountFiles(disk, top, recursive, q) ==
  IF Exists(disk, top) THEN Cardinality(ListFiles(disk, top, recursive, q)) ELSE -1
CountDirs(disk, top, recursive, q) ==
  IF Exists(disk, top) THEN Cardinality(ListDirs(disk, top, recursive, q)) ELSE -1

-----------------------------------------------------------------------------
(* What the comments before ListFiles and ListDirs ask for: a name is      *)
(* found if all its patterns, or one of them, match under the name's own   *)
(* flag, and the extension likewise; for more than one pattern the flag is *)
(* ignored.                                                                *)
Wanted(q, n) ==
  LET Whole(list, flag) == flag /\ Cardinality(list) <= 1
      Fits(txt, list, flag) ==
        \/ list = {}
        \/ q.FindAll /\ \A p \in list :
                          Matches(txt, p, Whole(list, flag), q.CaseSensitive)
        \/ ~q.FindAll /\ \E p \in list :
                           Matches(txt, p, Whole(list, flag), q.CaseSensitive)
  IN  /\ Fits(Stem[n], q.NameContentList, q.NameWholeWord)
      /\ Fits(Ext[n], q.ExtContentList, q.ExtWholeWord)

(* The searches in which the code is what the comments say.  The two flags *)
(* are one, as the code takes one for the other; and no whole word is      *)
(* asked of a list of several patterns, where the comments ignore the flag *)
(* and the code does not.                                                  *)
AsDocumented(q) ==
  /\ q.NameWholeWord = q.ExtWholeWord
  /\ q.NameWholeWord =>
       Cardinality(q.NameContentList) <= 1 /\ Cardinality(q.ExtContentList) <= 1

(* The search for one of the patterns for the name, as if it were alone.   *)
Alone(q, p) == [q EXCEPT !.NameContentList = {p}]

(* There ListFiles finds what is wanted, and ListDirs does if besides one  *)
(* match is enough and case does not count.  Whatever the flags, each      *)
(* pattern for the name counts as it would alone, in whole words also      *)
(* (against the comments).  Together the two visit each entry once, and a  *)
(* search of a tree is the union of the searches of its directories.       *)
SearchesRight(disk, top, q) ==
  LET Found(r) == ListFiles(disk, top, r, q)
      Dirs(r) == ListDirs(disk, top, r, q)
      FoundAlone(r, p) == ListFiles(disk, top, r, Alone(q, p))
  IN \A r \in BOOLEAN :
       /\ AsDocumented(q) =>
            /\ Found(r) = {x \in Entries(disk, top, r) :
                             disk[x].kind # "dir" /\ Wanted(q, Name(x))}
            /\ ~q.FindAll /\ ~q.CaseSensitive =>
                 Dirs(r) = {x \in Entries(disk, top, r) :
                              disk[x].kind = "dir" /\ Wanted(q, Name(x))}
       /\ q.NameContentList # {} =>
            \A x \in Entries(disk, top, r) :
              x \in Found(r) <=>
                IF q.FindAll
                  THEN \A p \in q.NameContentList : x \in FoundAlone(r, p)
                  ELSE \E p \in q.NameContentList : x \in FoundAlone(r, p)
       /\ q = Everything => Found(r) \union Dirs(r) = Entries(disk, top, r)
       /\ r => Found(r) = UNION {ListFiles(disk, d, FALSE, q) : d \in
                 {top} \union ListDirs(disk, top, TRUE, Everything)}
=============================================================================
