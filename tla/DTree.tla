-------------------------------- MODULE DTree --------------------------------
(***************************************************************************)
(* The tree of settings (lib/DTree.cpp): reads and writes by section path  *)
(* and item name on a boost iptree, whose own operations are modelled from *)
(* their use.  A node has a text and children in order, named without      *)
(* regard to case and not always uniquely.                                 *)
(***************************************************************************)
EXTENDS Integers, Sequences, SequencesExt

CONSTANTS
  ItemNames, \* of items and sections
  Folded,    \* what a name, or "", is compared by
  Values,    \* texts written into the tree
  Sections,  \* the paths of sections that the program names
  MaxItems   \* bound: items in the tree

(* What texts convert to: "300" is no byte, "true" is no number.           *)
AsNumber == [v \in {"0", "1", "300"} |-> v]
AsByte == [v \in {"0", "1"} |-> v]
AsTruth == [v \in {"0", "1", "false", "true"} |->
              CASE v = "0" -> "false" [] v = "1" -> "true" [] OTHER -> v]
ItemTexts == {"", "0", "1", "300", "false", "true", "word"}

ASSUME TreeAssumption ==
  Values \subseteq ItemTexts /\ Sections \subseteq Seq(ItemNames) /\ "" \notin ItemNames

VARIABLE Root

Leaf(v) == [data |-> v, kids |-> <<>>]
Empty == Leaf("")
Missing == [missing |-> TRUE]
Trees(n) == [i \in DOMAIN n.kids |-> n.kids[i].tree]

-----------------------------------------------------------------------------
(* iptree.                                                                 *)

Named(n, k) == {i \in DOMAIN n.kids : Folded[n.kids[i].name] = Folded[k]}
First(S) == CHOOSE i \in S : \A j \in S : i <= j
Kid(n, k) == IF Named(n, k) = {} THEN Missing ELSE n.kids[First(Named(n, k))].tree

(* Of several children of one name the first is found: the nodes on the    *)
(* way along a path, Missing from where there is none.                     *)
Way(t, path) ==
  LET at[k \in 0..Len(path)] ==
        IF k = 0 THEN t
        ELSE IF at[k - 1] = Missing THEN Missing ELSE Kid(at[k - 1], path[k])
  IN at
get_child_optional(t, path) == Way(t, path)[Len(path)]

push_back(n, k, sub) == [n EXCEPT !.kids = Append(@, [name |-> k, tree |-> sub])]

OrEmpty(n) == IF n = Missing THEN Empty ELSE n
NodeAt(t, path) == OrEmpty(get_child_optional(t, path))

WithKid(n, k, sub) ==
  IF Named(n, k) = {} THEN push_back(n, k, sub)
  ELSE [n EXCEPT !.kids[First(Named(n, k))].tree = sub]

(* The node at path, made where it is missing, becomes n, and each node    *)
(* above it that of the next.                                              *)
Made(t, path, n) ==
  LET made[k \in 0..Len(path)] ==
        IF k = Len(path) THEN n
        ELSE WithKid(OrEmpty(Way(t, path)[k]), path[k + 1], made[k + 1])
  IN made
Changed(t, path, n) == Made(t, path, n)[0]

(* All children of one name go.                                            *)
erase(kids, name) ==
  LET left[i \in 0..Len(kids)] ==
        IF i = 0 THEN <<>>
        ELSE IF Folded[kids[i].name] = Folded[name] THEN left[i - 1]
             ELSE Append(left[i - 1], kids[i])
  IN left[Len(kids)]

(* Looking a path up ends with its text, so a last empty name counts for   *)
(* nothing; forcing one into being does not.                               *)
Walked(path) == IF path # <<>> /\ Last(path) = "" THEN Front(path) ELSE path

(* To force a path that ends with an empty name is an assertion that ends  *)
(* the program; without assertions it makes a child that has no name.      *)
put(t, path, v) ==
  LET at == IF get_child_optional(t, Walked(path)) # Missing THEN Walked(path) ELSE path
  IN Changed(t, at, [NodeAt(t, at) EXCEPT !.data = v])

add_child(t, path, sub) ==
  Changed(t, Front(path), push_back(NodeAt(t, Front(path)), Last(path), sub))

-----------------------------------------------------------------------------
(* A path is the names between the dots; SubTree + '.' + Item begins with  *)
(* an empty name when SubTree is empty, and ends with one when Item is.    *)
Joined(SubTree, Item) == (IF SubTree = <<>> THEN <<"">> ELSE SubTree) \o <<Item>>

(* Reading takes the empty SubTree for the root, unlike writing, and walks. *)
ReadPath(SubTree, Item) == SubTree \o (IF Item = "" THEN <<>> ELSE <<Item>>)

Read(t, SubTree, Item, Default, Converts) ==
  LET n == get_child_optional(t, ReadPath(SubTree, Item)) IN
  IF n = Missing THEN Default
  ELSE IF n.data \in DOMAIN Converts THEN Converts[n.data] ELSE Default

ReadString(t, s, i, d) == Read(t, s, i, d, [v \in ItemTexts |-> v])
ReadInteger(t, s, i, d) == Read(t, s, i, d, AsNumber)
ReadFloat(t, s, i, d) == Read(t, s, i, d, AsNumber)
ReadByte(t, s, i, d) == Read(t, s, i, d, AsByte)
ReadBool(t, s, i, d) == Read(t, s, i, d, AsTruth)

TreeExists(t, SubTree) == get_child_optional(t, SubTree) # Missing
GetTree(t, SubTree) == IF TreeExists(t, SubTree) THEN get_child_optional(t, SubTree) ELSE Empty
GetTreeAt(t, Index) == IF Index < Len(t.kids) THEN t.kids[Index + 1].tree ELSE Empty

HasChildren(t, SubTree) == GetTree(t, SubTree).kids # <<>>
HasData(t, SubTree) == GetTree(t, SubTree).data # ""
GetItemsCount(t, SubTree) == Len(GetTree(t, SubTree).kids)
ReadNames(t, SubTree) ==
  LET n == GetTree(t, SubTree) IN [i \in DOMAIN n.kids |-> n.kids[i].name]
ReadArrayTrees(t, SubTree) == Trees(GetTree(t, SubTree))
ReadArrayNames(t, SubTree) ==
  LET n == GetTree(t, SubTree) IN [i \in DOMAIN n.kids |-> n.kids[i].tree.data]

-----------------------------------------------------------------------------
WriteString(t, SubTree, Item, Value) == put(t, Joined(SubTree, Item), Value)
WriteInteger(t, SubTree, Item, Value) == put(t, Joined(SubTree, Item), Value)
WriteFloat(t, SubTree, Item, Value) == put(t, Joined(SubTree, Item), Value)
WriteByte(t, SubTree, Item, Value) == put(t, Joined(SubTree, Item), Value)
WriteBool(t, SubTree, Item, Value) == put(t, Joined(SubTree, Item), Value)
WriteAt(t, Tree, Value) == put(t, Tree, Value)

WriteTree(t, SubTree, NewTree) == add_child(t, SubTree, NewTree)

WriteArray(t, SubTree, ArrayName, Items) ==
  add_child(t, Joined(SubTree, ArrayName),
            [Empty EXCEPT !.kids = [i \in DOMAIN Items |-> [name |-> "", tree |-> Items[i]]]])

(* Fault: only the first item of the name goes.                            *)
DeleteItem_First(t, SubTree, Item) ==
  IF ~TreeExists(t, SubTree) \/ Kid(NodeAt(t, SubTree), Item) = Missing THEN t
  ELSE Changed(t, SubTree, [NodeAt(t, SubTree) EXCEPT !.kids =
         LET i == First(Named(NodeAt(t, SubTree), Item)) IN RemoveAt(@, i)])

DeleteItem(t, SubTree, Item) ==
  IF ~TreeExists(t, SubTree) THEN t
  ELSE Changed(t, SubTree, [NodeAt(t, SubTree) EXCEPT !.kids = erase(@, Item)])

(* It says whether the section is empty now, not whether it did anything.  *)
ItemDeleted(t, SubTree, Item) == ~HasChildren(DeleteItem(t, SubTree, Item), SubTree)

DeleteContent(t, SubTree) ==
  IF TreeExists(t, SubTree) THEN Changed(t, SubTree, Empty) ELSE t

-----------------------------------------------------------------------------
Items == ItemNames \union {""}
Paths == {ReadPath(s, i) : s \in Sections, i \in Items}

ItemCount(t) == Len(t.kids) + FoldLeft(LAMBDA n, k : n + Len(k.kids), 0, Trees(t))

TreeInit == Root = Empty

EditTree(t) == ItemCount(t) <= MaxItems /\ Root' = t

TreeEdits ==
  \E s \in Sections, i \in Items, v \in Values :
    \/ EditTree(WriteString(Root, s, i, v)) \/ EditTree(WriteAt(Root, s, v))
    \/ EditTree(DeleteItem(Root, s, i)) \/ EditTree(DeleteContent(Root, s))
    \/ EditTree(WriteArray(Root, s, i, <<Leaf(v), Empty>>))
    \/ s # <<>> /\ EditTree(WriteTree(Root, s, Leaf(v)))

(* Clear, or a tree loaded in its place.                                   *)
ClearTree == \E v \in Values : EditTree(Leaf(v))

TreeNext == TreeEdits \/ ClearTree

TreeSpec == TreeInit /\ [][TreeNext]_Root

-----------------------------------------------------------------------------
(* The item at q is the one at p, or below it.                             *)
Within(q, p) ==
  Len(p) <= Len(q) /\ \A k \in DOMAIN p : Folded[q[k]] = Folded[p[k]]
Same(t, u, q) == get_child_optional(u, q) = get_child_optional(t, q)

(* Of a write at p: no other item reads differently.                      *)
OthersKept(t, u, p) ==
  \A q \in Paths : ~Within(q, p) =>
    /\ ~Within(p, q) => Same(t, u, q)
    /\ TreeExists(t, q) => GetTree(u, q).data = GetTree(t, q).data

(* Item i of section s of the tree t becomes v, and nothing else changes.  *)
WrittenRight(t, u, s, i, v) ==
  /\ \A d \in ItemTexts :
       /\ ReadString(u, s, i, d) = v
       /\ ReadInteger(u, s, i, d) = (IF v \in DOMAIN AsNumber THEN v ELSE d)
       /\ ReadByte(u, s, i, d) = (IF v \in DOMAIN AsByte THEN v ELSE d)
       /\ ReadBool(u, s, i, d) = (IF v \in DOMAIN AsTruth THEN AsTruth[v] ELSE d)
  /\ OthersKept(t, u, ReadPath(s, i))

(* The text of a section that was not there is in a child without a name   *)
(* below it, where no read of the section finds it.                        *)
Mislaid(t, u, s, v) ==
  /\ GetTree(u, s \o <<"">>) = Leaf(v)
  /\ \A d \in ItemTexts : ReadString(u, s, "", d) = ""
  /\ OthersKept(t, u, s \o <<"">>)

(* Item i of section s is gone, and what is not above it is as it was.     *)
DeletedRight(t, u, s, i) ==
  /\ i # "" => ~TreeExists(u, s \o <<i>>)
  /\ \A q \in Paths : ~Within(q, s \o <<i>>) /\ ~Within(s, q) => Same(t, u, q)

(* Whatever tree a program has made and edits: what is written under a     *)
(* section is read back, whatever the case of the names, and no other item *)
(* reads differently - but for the unnamed item of a section that was not  *)
(* there, which a build without assertions mislays; a deleted item is      *)
(* gone, with all of its name, and the others are not; a tree or an array  *)
(* written where there was none is the one found there, which for an       *)
(* unnamed one is a child without a name and not the section.  (Missing: a *)
(* program without a tree.)                                                *)
TreeRight ==
  Root # Missing =>
    \A s \in Sections \ {<<>>}, i \in Items, v \in Values :
      LET p == Joined(s, i)
          u == WriteString(Root, s, i, v)
      IN
      /\ i # "" \/ TreeExists(Root, s) => WrittenRight(Root, u, s, i, v)
      /\ i = "" /\ ~TreeExists(Root, s) => Mislaid(Root, u, s, v)
      /\ \A r \in {s, <<>>} : DeletedRight(Root, DeleteItem(Root, r, i), r, i)
      /\ ~TreeExists(Root, p) =>
           /\ ReadArrayTrees(WriteArray(Root, s, i, <<Leaf(v), Empty>>), p) = <<Leaf(v), Empty>>
           /\ GetTree(WriteTree(Root, p, Leaf(v)), p) = Leaf(v)
=============================================================================
