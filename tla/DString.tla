------------------------------- MODULE DString -------------------------------
(***************************************************************************)
(* The functions of DString (lib/DString.cpp), on strings that are         *)
(* sequences of characters, and one string that a caller builds and edits  *)
(* in place with them.  A position is counted from 0, and npos is -1: the  *)
(* sizes of the code are unsigned, and -1 is the one that wraps to npos.   *)
(* Wide strings are left out.                                              *)
(***************************************************************************)
EXTENDS Integers, Sequences

LOCAL INSTANCE SequencesExt

CONSTANTS
  Chars,           \* the characters of the strings
  Lower,           \* tolower, a function on Chars
  MaxInt,          \* INT_MAX: what is above overflows
  MaxLength,       \* bound: how long the string grows
  MaxPattern       \* bound: how long the patterns are

VARIABLE str

Texts(n) == UNION {[1..k -> Chars] : k \in 0..n}
Patterns == Texts(MaxPattern)
Digits == {"0", "1", "2", "3", "4", "5", "6", "7", "8", "9"}
DigitValue == [c \in Digits |-> CHOOSE n \in 0..9 : ToString(n) = c]

npos == -1

(* std::string: substr throws for a position past the end, and takes what  *)
(* there is of a count that is too large or wraps around.                  *)
Sub(s, pos, count) ==
  SubSeq(s, pos + 1, IF count < 0 \/ pos + count > Len(s) THEN Len(s)
                                                          ELSE pos + count)
Erase(s, pos, count) == Sub(s, 0, pos) \o Sub(s, pos + count, -1)
Places(s, p) ==
  {i \in 0..Len(s) - Len(p) : Sub(s, i, Len(p)) = p}
Find(s, p) == IF Places(s, p) = {} THEN npos ELSE Min(Places(s, p))
RFind(s, p) == IF Places(s, p) = {} THEN npos ELSE Max(Places(s, p))

Outside(s, chars) == {i \in 0..Len(s) - 1 : s[i + 1] \notin chars}
FirstOf(places) == IF places = {} THEN npos ELSE Min(places)
LastOf(places) == IF places = {} THEN npos ELSE Max(places)

-----------------------------------------------------------------------------
(* erase(0, npos) empties a string that has only these characters.         *)
LTrim(s, chars) ==
  LET first == FirstOf(Outside(s, chars)) IN
    IF first = npos THEN <<>> ELSE Erase(s, 0, first)

RTrim(s, chars) ==
  Sub(s, 0, LastOf(Outside(s, chars)) + 1)

Trim(s, chars) == LTrim(RTrim(s, chars), chars)

RemoveChars(s, chars) == SelectSeq(s, LAMBDA c : c \notin chars)
RemoveNotDigit(s) == SelectSeq(s, LAMBDA c : c \in Digits)
RemoveCharsIfNot(s, allowed) == SelectSeq(s, LAMBDA c : c \in allowed)

Removed(s, pos, p) == IF pos = npos THEN s ELSE Erase(s, pos, Len(p))
RemoveLStr(s, p) == Removed(s, Find(s, p), p)
RemoveRStr(s, p) == Removed(s, RFind(s, p), p)

(* The search begins again after each removal; an empty p never ends.      *)
RemoveAllStr(s, p) == FoldLeft(LAMBDA t, c : RemoveLStr(t, p), s, s)

(* A count above the length wraps: CutR keeps all, CutL throws.            *)
CutR(s, count) == IF s = <<>> THEN s ELSE Sub(s, 0, Len(s) - count)
CutLThrows(s, count) == s # <<>> /\ count > Len(s)
CutL(s, count) == IF s = <<>> THEN s ELSE Sub(s, count, Len(s) - count)

-----------------------------------------------------------------------------
(* The regular expressions.                                                *)
AllDigits(s) == s # <<>> /\ ToSet(s) \subseteq Digits
Signed(s, signs) == IF s # <<>> /\ s[1] \in signs THEN Tail(s) ELSE s
TwoParts(s, point) ==
  \E i \in 1..Len(s) :
    /\ AllDigits(SubSeq(s, 1, i))
    /\ AllDigits(Signed(SubSeq(s, i + 1, Len(s)), point))

IsNumber(s) ==
  LET n == Signed(s, {"-"}) IN
    AllDigits(n) \/ (TwoParts(n, {"."}) /\ "." \in ToSet(n))
IsInteger(s) == AllDigits(Signed(s, {"+", "-"}))
IsUnsignedInteger(s) == AllDigits(Signed(s, {"+"}))
IsDouble(s) == TwoParts(Signed(s, {"+", "-"}), {"."})
IsUnsignedDouble(s) == TwoParts(Signed(s, {"+"}), {"."})

(* Both versions of ToInt read the digits at the beginning, which are none *)
(* when the number comes later in the text; MaxInt + 1 stands for the      *)
(* undefined value of an overflow.                                         *)
Leading(s) ==
  Sub(s, 0, LET ends == Outside(s, Digits) IN
              IF ends = {} THEN Len(s) ELSE Min(ends))
NumberOf(digits) ==
  FoldLeft(LAMBDA x, c : IF x > MaxInt \/ (x * 10) + DigitValue[c] > MaxInt
                           THEN MaxInt + 1 ELSE (x * 10) + DigitValue[c],
           0, digits)
ToInt(s) ==
  IF s # <<>> /\ s[1] = "-" THEN -NumberOf(Leading(Tail(s)))
                            ELSE NumberOf(Leading(s))
ToIntOr(s, defaultValue) ==
  IF Leading(Signed(s, {"-"})) = <<>> THEN defaultValue ELSE ToInt(s)

ToLower(s) == [i \in DOMAIN s |-> Lower[s[i]]]
UpperOf(c) ==
  IF \E u \in Chars : u # c /\ Lower[u] = c
    THEN CHOOSE u \in Chars : u # c /\ Lower[u] = c ELSE c
ToUpper(s) == [i \in DOMAIN s |-> UpperOf(s[i])]
Cased(s, CaseSensitive) == IF CaseSensitive THEN s ELSE ToLower(s)

CmpNoCase(s, t) == ToLower(s) = ToLower(t)
Contains_(s, p, CaseSensitive) ==
  Find(Cased(s, CaseSensitive), Cased(p, CaseSensitive)) # npos
StartsWith(s, p, CaseSensitive) ==
  Find(Cased(s, CaseSensitive), Cased(p, CaseSensitive)) = 0

(* Fault: the first place is taken for the last.                           *)
EndsWith_First(s, p, CaseSensitive) ==
  Find(Cased(s, CaseSensitive), Cased(p, CaseSensitive)) = Len(s) - Len(p)

(* A pattern one longer than the string gives npos = npos.                 *)
EndsWith(s, p, CaseSensitive) ==
  RFind(Cased(s, CaseSensitive), Cased(p, CaseSensitive)) = Len(s) - Len(p)

-----------------------------------------------------------------------------
Init == str = <<>>

Type(c) == Len(str) < MaxLength /\ str' = Append(str, c)

Edited(s, p) ==
  {Trim(s, ToSet(p)), LTrim(s, ToSet(p)), RTrim(s, ToSet(p)),
   RemoveChars(s, ToSet(p)), RemoveCharsIfNot(s, ToSet(p)),
   RemoveNotDigit(s), RemoveLStr(s, p), RemoveRStr(s, p),
   ToUpper(s), ToLower(s), CutR(s, Len(p))}
  \cup (IF p = <<>> THEN {} ELSE {RemoveAllStr(s, p)})
  \cup (IF CutLThrows(s, Len(p)) THEN {} ELSE {CutL(s, Len(p))})

Edit == \E p \in Patterns : str' \in Edited(str, p)

Next == Edit \/ \E c \in Chars : Type(c)

-----------------------------------------------------------------------------
(* What is trimmed is what a caller would cut off at the two ends.         *)
TrimLaw(s, chars) ==
  \E i, j \in 0..Len(s) :
    /\ i <= j /\ Trim(s, chars) = SubSeq(s, i + 1, j)
    /\ ToSet(SubSeq(s, 1, i) \o SubSeq(s, j + 1, Len(s))) \subseteq chars
    /\ i < j => s[i + 1] \notin chars /\ s[j] \notin chars

RemoveLaw(s, p) ==
  /\ p # <<>> => ~Contains_(RemoveAllStr(s, p), p, TRUE)
  /\ RemoveRStr(s, p) = Reverse(RemoveLStr(Reverse(s), Reverse(p)))

(* StartsWith and EndsWith are what their comments say, an empty pattern   *)
(* being found everywhere - but for one length: a pattern one longer than  *)
(* the string, where EndsWith says TRUE of every string and its comment    *)
(* ("true if str ends with pattern") is not what the code does.            *)
SearchLaw(s, p) ==
  /\ StartsWith(s, p, TRUE) <=> IsPrefix(p, s)
  /\ Len(p) # Len(s) + 1 => (EndsWith(s, p, TRUE) <=> IsSuffix(p, s))
  /\ \A b \in BOOLEAN : StartsWith(s, p, b) => Contains_(s, p, b)
  /\ StartsWith(s, p, FALSE) /\ Len(s) = Len(p) <=> CmpNoCase(s, p)
  /\ CmpNoCase(s, p) <=> ToUpper(s) = ToUpper(p)

(* The number that digits write: each digit by the power of ten of its     *)
(* place.                                                                  *)
Written(s) ==
  MapThenSumSet(LAMBDA i : DigitValue[s[i]] * 10^(Len(s) - i), DOMAIN s)

(* Digits are read as the number they write, when an int holds it, and     *)
(* with a minus as its opposite; a text without a digit is 0, or the       *)
(* default; and what one of the Is functions takes for a number so does    *)
(* each that promises more kinds of them.                                  *)
NumberLaw(s) ==
  /\ AllDigits(s) /\ Written(s) <= MaxInt =>
       /\ ToInt(s) = Written(s) /\ ToIntOr(s, 7) = Written(s)
       /\ ToInt(<<"-">> \o s) = -Written(s) /\ ToIntOr(<<"-">> \o s, 7) = -Written(s)
  /\ ToSet(s) \cap Digits = {} => ToInt(s) = 0 /\ ToIntOr(s, 7) = 7
  /\ IsUnsignedInteger(s) => IsInteger(s)
  /\ IsUnsignedDouble(s) => IsDouble(s)
  /\ IsInteger(s) /\ s[1] # "+" => IsNumber(s)
  /\ IsNumber(s) /\ Len(Signed(s, {"-"})) > 1 => IsDouble(s)

(* Whatever string a caller has built, its edits leave what their names    *)
(* say and its questions are answered for the whole of it.                 *)
StringsRight ==
  /\ NumberLaw(str)
  /\ \A p \in Patterns :
       TrimLaw(str, ToSet(p)) /\ RemoveLaw(str, p) /\ SearchLaw(str, p)
=============================================================================
