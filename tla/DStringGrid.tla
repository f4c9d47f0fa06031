----------------------------- MODULE DStringGrid -----------------------------
(***************************************************************************)
(* One DStringGrid (lib/DStringGrid.cpp), a vector of rows of cells, and   *)
(* the CSV file it is saved to and loaded from with DCsv.  Rows, columns   *)
(* and characters are counted from 0 in the code and from 1 here.  Reading *)
(* a cell changes nothing and is left out.                                 *)
(***************************************************************************)
EXTENDS DCsv

LOCAL INSTANCE SequencesExt

CONSTANTS
  Cells,           \* what is written into a cell: sequences of characters
  Rows,            \* what rows are added or set: sequences of cells
  Sep, OtherSep,   \* separators of the files
  MaxRows, MaxCols \* bounds: the size of the grid

VARIABLES
  Grid, RowCount, ColCount,
  ragged           \* history: rows of any length have been added

gvars == <<Grid, RowCount, ColCount, ragged>>

EmptyRow(cols) == [i \in 1..cols |-> <<>>]

Init ==
  /\ Grid = <<EmptyRow(1)>> /\ RowCount = 1 /\ ColCount = 1
  /\ ragged = FALSE

AddRow ==
  /\ RowCount < MaxRows
  /\ Grid' = Append(Grid, EmptyRow(ColCount)) /\ RowCount' = RowCount + 1
  /\ UNCHANGED <<ColCount, ragged>>

(* The row may be shorter or longer than the others.                       *)
AddItems(Items) ==
  /\ RowCount < MaxRows
  /\ Grid' = Append(Grid, Items) /\ RowCount' = RowCount + 1
  /\ ragged' = (ragged \/ Len(Items) # ColCount)
  /\ UNCHANGED <<ColCount>>

Widened(cols) ==
  [r \in DOMAIN Grid |->
     IF Len(Grid[r]) < cols
       THEN Grid[r] \o EmptyRow(cols - Len(Grid[r])) ELSE Grid[r]]

Overwritten(Row, Items) ==
  [i \in DOMAIN Row |-> IF i <= Len(Items) THEN Items[i] ELSE <<>>]

(* Fault: the columns that are missing are not added.                      *)
SetRow_Narrow(Index, Items) ==
  /\ IF Index > RowCount
       THEN UNCHANGED Grid
       ELSE Grid' = [Grid EXCEPT ![Index] = Items]
  /\ UNCHANGED <<RowCount, ColCount, ragged>>

(* A row that is too long adds as many columns as it has, even if there is *)
(* no row at Index.                                                        *)
SetRow(Index, Items) ==
  LET cols == IF Len(Items) > ColCount THEN (2 * ColCount) + Len(Items)
                                       ELSE ColCount
      wide == IF cols = ColCount THEN Grid ELSE Widened(cols) IN
    /\ cols <= MaxCols /\ ColCount' = cols
    /\ Grid' = IF Index > RowCount THEN wide
               ELSE [wide EXCEPT ![Index] = Overwritten(@, Items)]
    /\ UNCHANGED <<RowCount, ragged>>

AddCols(Count) ==
  /\ ColCount + Count <= MaxCols
  /\ ColCount' = ColCount + Count /\ Grid' = Widened(ColCount')
  /\ UNCHANGED <<RowCount, ragged>>

SetColCount(NewColCount) ==
  NewColCount > ColCount /\ AddCols(NewColCount - ColCount)

(* Outside of the row it throws.                                           *)
Set(RowIndex, ColIndex, Value) ==
  /\ RowIndex \in DOMAIN Grid /\ ColIndex \in DOMAIN Grid[RowIndex]
  /\ Grid' = [Grid EXCEPT ![RowIndex][ColIndex] = Value]
  /\ UNCHANGED <<RowCount, ColCount, ragged>>

(* A row without cells is read before its beginning: nothing is said of    *)
(* that.                                                                   *)
Line(Row) ==
  FoldLeft(LAMBDA line, cell : line \o <<Sep>> \o cell, Row[1], Tail(Row))

Savable == \A r \in DOMAIN Grid : Grid[r] # <<>>
SaveToCsvFile == [r \in DOMAIN Grid |-> Line(Grid[r])]

LineItems(line) == ReadCSVRow(line, <<Sep>>, 0)

(* The file is loaded, into this grid or a new one: its rows follow those  *)
(* there are, the constructor's first one included.                        *)
LoadFromCsvFile(file, into) ==
  LET items == [i \in DOMAIN file |-> LineItems(file[i])] IN
    /\ Len(into) + Len(file) <= MaxRows
    /\ Grid' = into \o items /\ RowCount' = Len(into) + Len(file)
    /\ ColCount' = IF into = Grid THEN ColCount ELSE 1
    /\ ragged' = (\E i \in DOMAIN items : Len(items[i]) # ColCount')
                  \/ (into = Grid /\ ragged)

SaveAndLoad ==
  Savable /\ \E into \in {Grid, <<EmptyRow(1)>>} :
               LoadFromCsvFile(SaveToCsvFile, into)

Next ==
  \/ AddRow \/ SaveAndLoad
  \/ \E Items \in Rows : AddItems(Items)
  \/ \E Items \in Rows, Index \in 1..MaxRows : SetRow(Index, Items)
  \/ \E n \in 1..MaxCols : AddCols(n) \/ SetColCount(n)
  \/ \E r \in 1..MaxRows, c \in 1..MaxCols, v \in Cells : Set(r, c, v)

-----------------------------------------------------------------------------
Plain(Row) ==
  /\ Row # <<>>
  /\ \A i \in DOMAIN Row : Sep \notin ToSet(Row[i]) /\ OfOneLine(Row[i])

(* The counts are those of the grid until a row of another length is       *)
(* added, and a row without separators in its cells is read back from the  *)
(* file as it was, but for an empty last cell.                             *)
GridRight ==
  /\ RowCount = Len(Grid)
  /\ ~ragged => \A r \in DOMAIN Grid : Len(Grid[r]) = ColCount
  /\ \A r \in DOMAIN Grid :
       Plain(Grid[r]) => LineItems(Line(Grid[r])) = Listed(Grid[r])

(* The fields of a line are read, and replaced, one by one as they are all *)
(* together; every line is that of some grid of one row.                   *)
FieldsRight ==
  RowCount = 1 => \A item \in {<<>>, <<OtherSep>>} :
                    CsvLaw(Line(Grid[1]), Sep, OtherSep, item)
=============================================================================
