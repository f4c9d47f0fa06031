-------------------------------- MODULE DCsv --------------------------------
(***************************************************************************)
(* The functions of DCsv (lib/DCsv.cpp) on rows that are sequences of      *)
(* characters; positions are counted from 0.  The class in DCsv.h is a     *)
(* comment.                                                                *)
(***************************************************************************)
EXTENDS Integers, Sequences

LOCAL INSTANCE SequencesExt

CONSTANT LineEnds  \* '\r' and '\n'

(* std::string::substr; a count below 0 wraps, and takes all there is.      *)
Sub(s, pos, count) ==
  SubSeq(s, pos + 1, IF count < 0 THEN Len(s) ELSE pos + count)
Rest(s, pos) == SubSeq(s, pos + 1, Len(s))

-----------------------------------------------------------------------------
(* One separator cSep looked at for the character at ix, unless the loop   *)
(* over the separators has been left (w.brk).                              *)
AtSeparator(Row, MaxFieldsCount, ix, w, cSep) ==
  LET c == Row[ix + 1]
      item == Rest(Row, w.ixStart) IN
    IF w.brk THEN w
    ELSE IF c = cSep THEN
      IF w.SepCount + 1 = MaxFieldsCount
        THEN [w EXCEPT !.SepCount = @ + 1, !.brk = TRUE]
        ELSE [w EXCEPT !.SepCount = @ + 1, !.ixStart = ix + 1,
                       !.list = Append(@, Sub(Row, w.ixStart, ix - w.ixStart))]
    ELSE IF c \in LineEnds \/ ix + 1 >= Len(Row) THEN
      [w EXCEPT !.brk = TRUE,
                !.list = IF item = <<>> THEN @ ELSE Append(@, item)]
    ELSE w

(* Leaving the inner loop does not leave the loop over the characters: the *)
(* row goes on after a line end and after MaxFieldsCount.                  *)
ReadCSVRow(Row, Separators, MaxFieldsCount) ==
  FoldLeftDomain(
    LAMBDA w, i :
      FoldLeft(LAMBDA v, cSep : AtSeparator(Row, MaxFieldsCount, i - 1, v, cSep),
               [w EXCEPT !.brk = FALSE], Separators),
    [list |-> <<>>, SepCount |-> 0, ixStart |-> 0, brk |-> FALSE], Row).list

CsvToVector(CsvString, Separators) == ReadCSVRow(CsvString, Separators, 0)

(* The walk that ReadCSVField and ReplaceCSVField_Copy share: up to the    *)
(* separator FieldNr, or to the end.                                       *)
Walk(Row, cSep, FieldNr) ==
  FoldLeft(LAMBDA w, c :
             IF w.found THEN w
             ELSE IF c # cSep THEN [w EXCEPT !.ixR = @ + 1]
             ELSE IF w.SepCount + 1 = FieldNr
                    THEN [w EXCEPT !.SepCount = @ + 1, !.found = TRUE]
             ELSE [w EXCEPT !.SepCount = @ + 1, !.ixR = @ + 1,
                            !.ixStart = w.ixR + 1],
           [SepCount |-> 0, ixStart |-> 0, ixR |-> 0, found |-> FALSE], Row)

(* A FieldNr that the row has not gives its last field.                    *)
ReadCSVField(Row, cSep, FieldNr) ==
  LET w == Walk(Row, cSep, FieldNr) IN
    IF w.SepCount = 0 THEN IF FieldNr > 1 THEN <<>> ELSE Row
                      ELSE Sub(Row, w.ixStart, w.ixR - w.ixStart)

(* Fault: the separator after the field goes with it.                      *)
ReplaceCSVField_Copy_Eats(Row, cSep, FieldNr, ReplaceStr) ==
  LET w == Walk(Row, cSep, FieldNr) IN
    IF w.SepCount = 0 THEN IF FieldNr > 1 THEN <<>> ELSE ReplaceStr
    ELSE Sub(Row, 0, w.ixStart) \o ReplaceStr \o Rest(Row, w.ixR + 1)

ReplaceCSVField_Copy(Row, cSep, FieldNr, ReplaceStr) ==
  LET w == Walk(Row, cSep, FieldNr) IN
    IF w.SepCount = 0 THEN IF FieldNr > 1 THEN <<>> ELSE ReplaceStr
    ELSE Sub(Row, 0, w.ixStart) \o ReplaceStr \o Rest(Row, w.ixR)

-----------------------------------------------------------------------------
(* What a row is taken to say: its fields between the separators.          *)
Split(Row, cSep) ==
  FoldLeft(LAMBDA fields, c :
             IF c = cSep THEN Append(fields, <<>>)
             ELSE [fields EXCEPT ![Len(fields)] = Append(@, c)],
           << <<>> >>, Row)

(* An empty field at the end is not a field.                               *)
Listed(fields) == IF Last(fields) = <<>> THEN Front(fields) ELSE fields

OfOneLine(Row) == \A i \in DOMAIN Row : Row[i] \notin LineEnds

Swap(Row, from, to) ==
  [i \in DOMAIN Row |-> IF Row[i] = from THEN to ELSE Row[i]]

CsvLaw(Row, sep, other, item) ==
  LET fields == Split(Row, sep) IN
    /\ OfOneLine(Row) => CsvToVector(Row, <<sep>>) = Listed(fields)
    /\ OfOneLine(Row) /\ Row # <<>> /\ Last(Row) # other =>
         CsvToVector(Row, <<sep, other>>) =
         Listed(Split(Swap(Row, other, sep), sep))
    /\ \A n \in DOMAIN fields :
         /\ ReadCSVField(Row, sep, n) = fields[n]
         /\ sep \notin ToSet(item) =>
              Split(ReplaceCSVField_Copy(Row, sep, n, item), sep) =
              [fields EXCEPT ![n] = item]
    /\ ReadCSVField(Row, sep, 0) = Last(fields)
=============================================================================
