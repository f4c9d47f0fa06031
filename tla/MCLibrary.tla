------------------------------ MODULE MCLibrary ------------------------------
(***************************************************************************)
(* The parts of the library that do not call each other, side by side in   *)
(* one instance for TLC.  The first state chooses a part; that part runs,  *)
(* and the others stay in their own first state.                           *)
(***************************************************************************)
EXTENDS DPreferences, DTcpServer, DUdpServer, DRESTClient, DPathDirs, DFormLog, DLog, DTree, TLC

VARIABLES
  part,
  u8_data, u8_len, u8_valid, u8_bypassed, u8_hung,
  str,
  Grid, RowCount, ColCount, ragged,
  UriString, Valid, parts, authority, text

prefs == vars
u8 == <<u8_data, u8_len, u8_valid, u8_bypassed, u8_hung>>
grid == <<Grid, RowCount, ColCount, ragged>>
uri == <<UriString, Valid, parts, authority, text>>
text_parts == <<u8, Root, logvars, str, grid, uri>>
net_parts == <<rvars, tvars, dvars>>
lvars == <<part, prefs, text_parts, net_parts, pvars, fvars>>

-----------------------------------------------------------------------------
(* A one-byte, a two-byte and a four-byte character.                       *)
U8 == INSTANCE DUTF8String WITH
  CodePoints <- {97, 233, 128512},
  Words <- {<<>>, <<97>>, <<97, 97>>, <<97, 97, 233>>, <<128512>>},
  MaxBytes <- 4, MaxCut <- 3,
  data <- u8_data, cached_len <- u8_len, cache_valid <- u8_valid,
  bypassed <- u8_bypassed, hung <- u8_hung

(* Two spellings of one name, and another.                                 *)
TreeNames == {"a", "A", "b"}
TreeFolded == [n \in TreeNames \union {""} |-> IF n = "A" THEN "a" ELSE n]
TreeSections == {<<>>} \union {<<n>> : n \in TreeNames}

StrChars == {"a", "A", "1", "-", "."}
S == INSTANCE DString WITH
  Chars <- StrChars, Lower <- [c \in StrChars |-> IF c = "A" THEN "a" ELSE c],
  MaxInt <- 32, MaxLength <- 3, MaxPattern <- 2

(* A cell that holds both separators, and rows that are short and long.    *)
G == INSTANCE DStringGrid WITH
  LineEnds <- {"r", "n"}, Sep <- ";", OtherSep <- ",",
  Cells <- {<<",", ";", "b">>}, Rows <- {<<>>, <<<<",", "a">>, <<"a">>>>},
  MaxRows <- 2, MaxCols <- 4

(* Uris without the format, with and without a port, with an authority     *)
(* that does not split, and with none.                                     *)
UriParts(s, a) ==
  [Scheme |-> s, Authority |-> a, Path |-> "/", Query |-> "", Fragment |-> ""]
UriHost(h, p) == [User |-> "", Pwd |-> "", Host |-> h, Port |-> p]
Split(s, a, splits, auth) ==
  [format |-> TRUE, parts |-> UriParts(s, a), splits |-> splits, authority |-> auth]
U == INSTANCE DUri WITH
  Uris <- {[format |-> FALSE],
           Split("http", "a.b", TRUE, UriHost("a.b", "")),
           Split("tcp", "c.d:1", TRUE, UriHost("c.d", "1")),
           Split("http", "u@v@w.x", FALSE, UriHost("", "")),
           Split("http", "", FALSE, UriHost("", ""))},
  Bytes <- {37, 65, 50, 53, 10, 195}, MaxText <- 4

(* DRESTClient: a Url that is not valid, one with a port, one without.     *)
RestUrls ==
  {[valid |-> FALSE],
   [valid |-> TRUE, Host |-> "h", Port |-> "80", Path |-> "/p"],
   [valid |-> TRUE, Host |-> "i", Port |-> "", Path |-> ""]}
RestBodies == {<<"b">>}
RestParams == {<<"k", "v">>}

-----------------------------------------------------------------------------
(* Two directories with a file f, a directory d and a file in it; f may be *)
(* a directory or a special file in one of them, and one may be missing.   *)
Names == {"s", "t", "f", "d"}
PathsOf(r) ==
  {<<r>>, <<r, "f">>, <<r, "d">>, <<r, "d", "f">>, <<r, "f", "f">>, <<r, "d", "f", "f">>}
Texts == {"ab", "AB", "A", "a", "B", "b", ".b", ".B", ""}
Gone == [kind |-> "none", data |-> <<>>]
Dir == [kind |-> "dir", data |-> <<>>]
Special == [kind |-> "other", data |-> <<>>]
Holds(d) == [kind |-> "file", data |-> d]
Shape(r, top, f, d, df) ==
  (<<r>> :> top) @@ (<<r, "f">> :> f) @@ (<<r, "d">> :> d) @@ (<<r, "d", "f">> :> df)
    @@ (<<r, "f", "f">> :> Gone) @@ (<<r, "d", "f", "f">> :> Gone)
Sources ==
  {Shape("s", Dir, f, Dir, df) : f \in {Gone, Dir, Special, Holds(<<1>>)},
                                 df \in {Gone, Holds(<<2, 2>>)}}
    \union {Shape("s", Dir, Holds(<<1>>), Gone, Gone),
            Shape("s", Gone, Gone, Gone, Gone), Shape("s", Holds(<<2>>), Gone, Gone, Gone)}
Dests ==
  {Shape("t", Gone, Gone, Gone, Gone), Shape("t", Holds(<<3, 3>>), Gone, Gone, Gone),
   Shape("t", Dir, Gone, Holds(<<3>>), Gone), Shape("t", Dir, Dir, Gone, Gone),
   Shape("t", Dir, Holds(<<3, 3>>), Dir, Holds(<<3>>))}

Copies ==
  {[op |-> o, from |-> p[1], to |-> p[2], FailIfExists |-> b[1], callback |-> b[2]] :
     o \in {"CopyDir", "MoveDir"}, b \in {<<TRUE, FALSE>>, <<FALSE, FALSE>>, <<FALSE, TRUE>>},
     p \in {<<<<"s">>, <<"t">>>>, <<<<"s">>, <<"s">>>>, <<<<"s", "d">>, <<"t">>>>,
            <<<<"s", "d">>, <<"t", "d">>>>}}
    \union
  {[op |-> "MoveDir", from |-> <<"s", "d">>, to |-> <<"s">>, FailIfExists |-> FALSE,
    callback |-> FALSE]}
Renames ==
  {[op |-> "ChangeExt", from |-> <<"s">>, to |-> <<t>>, FailIfExists |-> FALSE,
    callback |-> FALSE, first |-> b] : t \in {"s", "t"}, b \in BOOLEAN}
AllFiles ==
  [NameContentList |-> {}, NameWholeWord |-> FALSE, ExtContentList |-> {},
   ExtWholeWord |-> FALSE, CaseSensitive |-> FALSE, FindAll |-> FALSE]
Deletes ==
  {[op |-> "DeleteDir", from |-> <<"s", "d">>, to |-> <<"t">>]}
    \union
  {[op |-> "DeleteFiles", from |-> <<"s">>, to |-> <<"t">>, recursive |-> b[1],
    stop |-> b[2], search |-> q] : b \in BOOLEAN \X BOOLEAN,
     q \in {AllFiles, [AllFiles EXCEPT !.ExtContentList = {"*.b"}]}}
Others ==
  {[op |-> "Count", from |-> <<"s">>, to |-> <<"t">>, dirs |-> b, recursive |-> TRUE,
    search |-> AllFiles] : b \in BOOLEAN}
    \union
  {[op |-> "Copy_File_Posix", from |-> <<"s", "d", "f">>, to |-> <<"t", "f">>,
    overwrite |-> b] : b \in BOOLEAN}

DiskPaths == PathsOf("s") \union PathsOf("t")
DiskStem == [n \in Names |-> CASE n = "f" -> "ab" [] n = "d" -> "A" [] OTHER -> "b"]
DiskExt == [n \in Names |-> CASE n = "f" -> "b" [] n = "d" -> "B" [] OTHER -> ""]
DiskDotted == [e \in {"b", "B", ""} |->
                CASE e = "b" -> ".b" [] e = "B" -> ".B" [] OTHER -> ""]
DiskCleaned == [p \in {"a", "b", "*.b", "*"} |->
                 CASE p = "*.b" -> "b" [] p = "*" -> "" [] OTHER -> p]
DiskFold == [x \in Texts |-> CASE x = "A" -> "a" [] x = "B" -> "b" [] x = ".B" -> ".b"
                               [] x = "AB" -> "ab" [] OTHER -> x]
DiskParts == [x \in Texts |->
  CASE x = "ab" -> {"", "a", "b", "ab"} [] x = "AB" -> {"", "A", "B", "AB"}
    [] x = ".b" -> {"", ".", "b", ".b"} [] x = ".B" -> {"", ".", "B", ".B"}
    [] OTHER -> {"", x}]
DiskTrees == {s @@ t : s \in Sources, t \in Dests}
DiskJobs == Copies \union Renames \union Deletes \union Others
DiskData == {<<1>>, <<2, 2>>}
DiskLists == {{}, {"a"}, {"*.b"}, {"a", "b"}, {"*"}}

-----------------------------------------------------------------------------
MCInit ==
  /\ part \in {"preferences", "utf8", "tree", "log", "string", "grid", "uri",
               "rest", "tcp", "udp", "path", "form"}
  /\ Init /\ U8!Init /\ LogInit /\ S!Init /\ G!Init /\ U!Init
  /\ RestInit /\ TcpInit /\ UdpInit /\ DirsInit /\ FormInit
  /\ IF part = "tree" THEN TreeInit ELSE Root = Missing
  /\ part # "tcp" => ReadTimeoutSec = 0 /\ WriteTimeoutSec = 0
  /\ part # "log" => StorageModeParam = 1
  /\ part # "form" => onUI /\ written = 0
  /\ part # "path" => /\ job = CHOOSE j \in Deletes : j.op = "DeleteDir"
                      /\ fs = CHOOSE tree \in DiskTrees : TRUE

Preferences ==
  part = "preferences" /\ Next /\ UNCHANGED <<text_parts, net_parts, pvars, fvars>>
Texts8 ==
  /\ part = "utf8" /\ U8!Next
  /\ UNCHANGED <<prefs, Root, logvars, str, grid, uri, net_parts, pvars, fvars>>
TreeSteps ==
  /\ part = "tree" /\ TreeNext
  /\ UNCHANGED <<prefs, u8, logvars, str, grid, uri, net_parts, pvars, fvars>>
RotationSteps ==
  /\ part = "log" /\ LogNext
  /\ UNCHANGED <<prefs, u8, Root, str, grid, uri, net_parts, pvars, fvars>>
Strings ==
  /\ part = "string" /\ S!Next
  /\ UNCHANGED <<prefs, u8, Root, logvars, grid, uri, net_parts, pvars, fvars>>
GridSteps ==
  /\ part = "grid" /\ G!Next
  /\ UNCHANGED <<prefs, u8, Root, logvars, str, uri, net_parts, pvars, fvars>>
UriSteps ==
  /\ part = "uri" /\ U!Next
  /\ UNCHANGED <<prefs, u8, Root, logvars, str, grid, net_parts, pvars, fvars>>
RestSteps ==
  part = "rest" /\ RestNext /\ UNCHANGED <<prefs, text_parts, tvars, dvars, pvars, fvars>>
TcpSteps ==
  part = "tcp" /\ TcpNext /\ UNCHANGED <<prefs, text_parts, rvars, dvars, pvars, fvars>>
UdpSteps ==
  part = "udp" /\ UdpNext /\ UNCHANGED <<prefs, text_parts, rvars, tvars, pvars, fvars>>
PathSteps ==
  part = "path" /\ DirsNext /\ UNCHANGED <<prefs, text_parts, net_parts, fvars>>
FormSteps ==
  part = "form" /\ FormNext /\ UNCHANGED <<prefs, text_parts, net_parts, pvars>>

MCNext ==
  /\ UNCHANGED part
  /\ \/ Preferences \/ Texts8 \/ TreeSteps \/ RotationSteps \/ Strings \/ GridSteps
     \/ UriSteps \/ RestSteps \/ TcpSteps \/ UdpSteps \/ PathSteps
     \/ FormSteps

MCSpec == MCInit /\ [][MCNext]_lvars /\ Fairness

-----------------------------------------------------------------------------
(* The properties of the modules, each where its part runs; those of the   *)
(* modules that this one extends are checked as they stand.                *)

(* DUTF8String: edits and answers are those of the list of characters.     *)
Utf8Right == part = "utf8" => U8!EditsRight /\ U8!AnswersRight

(* DString, DCsv, DStringGrid and DUri: the laws of the text functions, a  *)
(* grid that stays as it claims, fields and encoded texts that come back.  *)
TextLaws ==
  /\ part = "string" => S!StringsRight
  /\ part = "grid" => G!GridRight /\ G!FieldsRight
  /\ part = "uri" => U!TextsSurvive /\ U!PartsAgree
=============================================================================
