----------------------------- MODULE DUTF8String -----------------------------
(***************************************************************************)
(* A string of UTF-8 bytes that is read and edited by code point index     *)
(* (lib/DUTF8String.cpp).  A byte is its value, and byte positions count   *)
(* from 0, as in the code.  Nothing keeps data well formed: assign may cut *)
(* a code point, and what the operations do then is modelled too.          *)
(***************************************************************************)
EXTENDS Integers, Sequences, SequencesExt

CONSTANTS
  CodePoints,   \* what texts are made of: numbers that are is_unicode
  Words,        \* texts handed to the operations: sequences of CodePoints
  MaxBytes,     \* bound: bytes in a string
  MaxCut        \* bound: bytes in a string that is not well formed

is_unicode(cp) == cp \in 1..1114111 /\ cp \notin 55296..57343

VARIABLES
  data,                    \* the bytes
  cached_len, cache_valid, \* the length last counted
  bypassed,                \* history: data was changed and cache_valid kept
  hung                     \* length() was called and cannot return

cache == <<cached_len, cache_valid, bypassed>>
vars == <<data, cache, hung>>

(* A decoder's exception in place of a text; npos in place of an index.    *)
Throws == <<-1>>
SIZE_MAX == -1

-----------------------------------------------------------------------------
(* Bytes and code points.                                                  *)

utf8_char_length(c) ==
  CASE c \in 192..223 -> 2 [] c \in 224..239 -> 3 [] c \in 240..247 -> 4
    [] OTHER -> 1

Continues(c) == c \in 128..191

encode_utf8(cp) ==
  LET tail(n) == 128 + ((cp \div n) % 64) IN
  CASE cp <= 127   -> <<cp>>
    [] cp \in 128..2047 -> <<192 + (cp \div 64), tail(1)>>
    [] cp \in 2048..65535 -> <<224 + (cp \div 4096), tail(64), tail(1)>>
    [] OTHER -> <<240 + (cp \div 262144), tail(4096), tail(64), tail(1)>>

Decodes(s, p) ==
  /\ ~Continues(s[p + 1]) /\ s[p + 1] < 248
  /\ p + utf8_char_length(s[p + 1]) <= Len(s)

(* The bytes after the first are not looked at but for their last six bits.*)
decode_utf8_at(s, p) ==
  LET c == s[p + 1]
      tail(k) == s[p + 1 + k] % 64 IN
  CASE utf8_char_length(c) = 1 -> c
    [] utf8_char_length(c) = 2 -> (c % 32) * 64 + tail(1)
    [] utf8_char_length(c) = 3 -> (c % 16) * 4096 + tail(1) * 64 + tail(2)
    [] OTHER -> (c % 8) * 262144 + tail(1) * 4096 + tail(2) * 64 + tail(3)

utf32_to_utf8(t) == FlattenSeq([i \in DOMAIN t |-> encode_utf8(t[i])])

utf8_to_utf32(s) ==
  LET from[p \in 0..Len(s)] ==
        IF p = Len(s) THEN <<>>
        ELSE IF ~Decodes(s, p) \/ from[p + utf8_char_length(s[p + 1])] = Throws
        THEN Throws
        ELSE <<decode_utf8_at(s, p)>> \o from[p + utf8_char_length(s[p + 1])]
  IN from[0]

WellFormed(s) ==
  utf8_to_utf32(s) # Throws /\ utf32_to_utf8(utf8_to_utf32(s)) = s

(* An iterator at p moved n code points forward: past the end when the     *)
(* last code point is cut.  Moved back, it stops at the first byte.        *)
Forward(s, p, n) ==
  LET at[k \in 0..n] ==
        IF k = 0 THEN p
        ELSE IF at[k - 1] >= Len(s) THEN at[k - 1]
        ELSE at[k - 1] + utf8_char_length(s[at[k - 1] + 1])
  IN at[n]

Back(s, p) ==
  LET down[q \in 0..Len(s)] ==
        IF q > 0 /\ Continues(s[q + 1]) THEN down[q - 1] ELSE q
  IN IF p = 0 THEN 0 ELSE down[p - 1]

codepoint_index_to_byte_index(s, i) == Forward(s, 0, i)

(* Like std::string's, a range ends with the string.                       *)
Slice(s, from, to) == SubSeq(s, from + 1, IF to > Len(s) THEN Len(s) ELSE to)
CutOut(s, from, to) == Slice(s, 0, from) \o Slice(s, to, Len(s))

-----------------------------------------------------------------------------
(* The edits, on the bytes s.  Those given an index past the end of a cut  *)
(* string throw, and leave it as it is.                                    *)

(* Fault: the index is taken for the position of a byte.                   *)
insert_AtByte(s, i, w) ==
  IF i > Len(s) THEN s ELSE Slice(s, 0, i) \o w \o Slice(s, i, Len(s))

insert(s, i, w) ==
  LET p == codepoint_index_to_byte_index(s, i) IN
  IF p > Len(s) THEN s ELSE Slice(s, 0, p) \o w \o Slice(s, p, Len(s))

erase(s, i, n) ==
  LET p == codepoint_index_to_byte_index(s, i) IN
  IF p > Len(s) THEN s ELSE CutOut(s, p, Forward(s, p, n))

(* erase(begin() + i, begin() + j), in either order.                       *)
erase_between(s, i, j) ==
  LET p == codepoint_index_to_byte_index(s, IF i < j THEN i ELSE j)
      q == codepoint_index_to_byte_index(s, IF i < j THEN j ELSE i)
  IN IF q > Len(s) THEN s ELSE CutOut(s, p, q)

pop_back(s) == IF s = <<>> THEN s ELSE Slice(s, 0, Back(s, Len(s)))

replace_codepoint(s, target, replacement) ==
  LET from[p \in 0..Len(s)] ==
        IF p = Len(s) THEN <<>>
        ELSE LET next == p + utf8_char_length(s[p + 1])
             IN (IF decode_utf8_at(s, p) = target THEN encode_utf8(replacement)
                                                  ELSE Slice(s, p, next)) \o from[next]
  IN IF utf8_to_utf32(s) = Throws THEN s ELSE from[0]

replace(s, search, with) ==
  LET txt == utf8_to_utf32(s)
      from[i \in 0..Len(txt)] ==
        IF i = Len(txt) THEN <<>>
        ELSE IF Slice(txt, i, i + Len(search)) = search
        THEN with \o from[i + Len(search)]
        ELSE <<txt[i + 1]>> \o from[i + 1]
  IN IF search = <<>> \/ txt = Throws THEN s ELSE utf32_to_utf8(from[0])

(* lps[i]: the longest proper prefix of pat that ends at its i-th place.   *)
build_lps(pat) ==
  LET lps[i \in DOMAIN pat] ==
        LET fall[len \in 0..(i - 1)] ==
              IF pat[i] = pat[len + 1] THEN len + 1
              ELSE IF len = 0 THEN 0 ELSE fall[lps[len]]
        IN IF i = 1 THEN 0 ELSE fall[lps[i - 1]]
  IN lps

replace_kmp(s, search, with) ==
  LET txt == utf8_to_utf32(s)
      lps == build_lps(search)
      run[i \in 0..Len(txt), j \in 0..Len(search), last_copy \in 0..Len(txt)] ==
        IF i = Len(txt) THEN Slice(txt, last_copy, i)
        ELSE IF txt[i + 1] # search[j + 1]
        THEN IF j > 0 THEN run[i, lps[j], last_copy] ELSE run[i + 1, 0, last_copy]
        ELSE IF j + 1 < Len(search) THEN run[i + 1, j + 1, last_copy]
        ELSE Slice(txt, last_copy, i - j) \o with \o run[i + 1, lps[j + 1], i + 1]
  IN IF search = <<>> \/ txt = Throws THEN s ELSE utf32_to_utf8(run[0, 0, 0])

-----------------------------------------------------------------------------
(* The queries.                                                            *)

substr(s, i, n) ==
  LET p == codepoint_index_to_byte_index(s, i) IN Slice(s, p, Forward(s, p, n))

operator_at(s, i) ==
  IF Forward(s, 0, i) = Len(s) THEN Throws ELSE <<decode_utf8_at(s, Forward(s, 0, i))>>

(* *rbegin(), then *(rbegin() + 1) and so on.                              *)
reversed(s) ==
  LET from[p \in 0..Len(s)] ==
        IF p = 0 THEN <<>> ELSE <<decode_utf8_at(s, Back(s, p))>> \o from[Back(s, p)]
  IN from[Len(s)]

find(s, sub, start) ==
  LET txt == utf8_to_utf32(s)
      from[i \in Nat] ==
        IF i + Len(sub) > Len(txt) THEN SIZE_MAX
        ELSE IF Slice(txt, i, i + Len(sub)) = sub THEN i ELSE from[i + 1]
  IN IF sub = <<>> THEN 0 ELSE IF start >= Len(txt) THEN SIZE_MAX ELSE from[start]

find_kmp(s, sub, start) ==
  LET txt == utf8_to_utf32(s)
      lps == build_lps(sub)
      run[i \in 0..Len(txt), j \in 0..Len(sub)] ==
        IF i = Len(txt) THEN SIZE_MAX
        ELSE IF txt[i + 1] # sub[j + 1]
        THEN IF j > 0 THEN run[i, lps[j]] ELSE run[i + 1, 0]
        ELSE IF j + 1 = Len(sub) THEN i - j ELSE run[i + 1, j + 1]
  IN IF sub = <<>> THEN 0 ELSE IF start >= Len(txt) THEN SIZE_MAX ELSE run[start, 0]

(* The code points counted from begin() to end(): none if end() is passed. *)
Counted(s) == {n \in 0..Len(s) : Forward(s, 0, n) = Len(s) /\ n <= Len(s)}

-----------------------------------------------------------------------------
(* The object.                                                             *)

Init == data = <<>> /\ cached_len = 0 /\ cache_valid = FALSE /\ bypassed = FALSE /\ hung = FALSE

Put(s) ==
  /\ data' = s
  /\ Len(s) <= MaxBytes /\ (Len(s) > MaxCut => WellFormed(s))
  /\ UNCHANGED hung

(* Fault: an edit leaves the cached length as it is.                       *)
Edit_KeepsCache(s) == Put(s) /\ UNCHANGED cache

Edit(s) == Put(s) /\ cache_valid' = FALSE /\ bypassed' = FALSE /\ UNCHANGED cached_len

(* assign and pop_back do not invalidate the cache.                        *)
Bypass(s) == Put(s) /\ bypassed' = (bypassed \/ cache_valid) /\ UNCHANGED <<cached_len, cache_valid>>

Set == \E w \in Words : Edit(utf32_to_utf8(w))

Assign ==
  \E w \in Words : \E count \in 0..Len(utf32_to_utf8(w)) :
    Bypass(Slice(utf32_to_utf8(w), 0, count))

Append_ == \E w \in Words : Edit(data \o utf32_to_utf8(w))

Index == 0..(MaxBytes + 1)

Insert == \E i \in Index, w \in Words : Edit(insert(data, i, utf32_to_utf8(w)))

Erase ==
  \/ \E i \in Index, n \in Index : Edit(erase(data, i, n))
  \/ \E i \in Index, j \in Index : Edit(erase_between(data, i, j))

Replace ==
  \/ \E c \in CodePoints, d \in CodePoints : Edit(replace_codepoint(data, c, d))
  \/ \E w \in Words, v \in Words : Edit(replace(data, w, v)) \/ Edit(replace_kmp(data, w, v))

PopBack == Bypass(pop_back(data))

Length ==
  /\ ~cache_valid /\ UNCHANGED data
  /\ \/ /\ Counted(data) # {} /\ UNCHANGED hung
        /\ cached_len' = CHOOSE n \in Counted(data) : \A m \in Counted(data) : n <= m
        /\ cache_valid' = TRUE /\ bypassed' = FALSE
     \/ Counted(data) = {} /\ hung' = TRUE /\ UNCHANGED cache

Next ==
  ~hung /\ (Set \/ Assign \/ Append_ \/ Insert \/ Erase \/ Replace \/ PopBack \/ Length)

Spec == Init /\ [][Next]_vars

-----------------------------------------------------------------------------
(* What the same operations do to a sequence of code points.               *)

Take(t, i) == Slice(t, 0, i)
Drop(t, i) == Slice(t, i, Len(t))

OccursAt(t, w, i) == w # <<>> /\ Slice(t, i - 1, i - 1 + Len(w)) = w
Overlaps(w) == \E k \in 1..(Len(w) - 1) : Take(w, k) = Drop(w, Len(w) - k)

First(t, w, start) ==
  LET found == {i \in start..(Len(t) - 1) : OccursAt(t, w, i + 1)} IN
  IF w = <<>> THEN 0
  ELSE IF found = {} THEN SIZE_MAX ELSE CHOOSE i \in found : \A j \in found : i <= j

(* Occurrences are replaced from the left, those that begin in another are *)
(* passed over.                                                            *)
Replaced(t, w, v) ==
  LET taken[i \in 1..Len(t)] ==
        OccursAt(t, w, i) /\ \A j \in (i - Len(w) + 1)..(i - 1) : j < 1 \/ ~taken[j]
      Covered(i) == \E j \in (i - Len(w) + 1)..(i - 1) : j >= 1 /\ taken[j]
  IN FlattenSeq([i \in 1..Len(t) |-> IF taken[i] THEN v
                                     ELSE IF Covered(i) THEN <<>> ELSE <<t[i]>>])

(* A well formed string stays well formed, and each edit does by code      *)
(* points what std::string does by bytes: insert, erase, pop_back, replace *)
(* and replace_codepoint.  replace_kmp does what replace does when         *)
(* occurrences of the pattern cannot overlap.                              *)
EditsRight ==
  LET t == utf8_to_utf32(data)
      enc(u) == utf32_to_utf8(u) IN
  WellFormed(data) =>
    /\ \A i \in Index, n \in Index :
         /\ erase(data, i, n) = enc(Take(t, i) \o Drop(t, i + n))
         /\ erase_between(data, i, i + n) = erase_between(data, i + n, i)
         /\ erase_between(data, i, i + n) = erase(data, i, n)
    /\ \A i \in Index, w \in Words :
         insert(data, i, enc(w)) = enc(Take(t, i) \o w \o Drop(t, i))
    /\ pop_back(data) = enc(Take(t, Len(t) - 1))
    /\ \A c \in CodePoints, d \in CodePoints :
         replace_codepoint(data, c, d) = enc([i \in DOMAIN t |-> IF t[i] = c THEN d ELSE t[i]])
    /\ \A w \in Words, v \in Words :
         /\ replace(data, w, v) = enc(Replaced(t, w, v))
         /\ ~Overlaps(w) => replace_kmp(data, w, v) = enc(Replaced(t, w, v))

(* The queries by code point index answer as they would for a sequence of  *)
(* code points, find_kmp as find; length() is right unless assign or       *)
(* pop_back came after it, and returns unless a code point is cut.         *)
AnswersRight ==
  LET t == utf8_to_utf32(data) IN
  WellFormed(data) =>
    /\ \A i \in Index, n \in Index :
         substr(data, i, n) = utf32_to_utf8(Slice(t, i, i + n))
    /\ \A i \in Index :
         operator_at(data, i) = IF i < Len(t) THEN <<t[i + 1]>> ELSE Throws
    /\ reversed(data) = Reverse(t)
    /\ \A w \in Words, start \in Index :
         /\ find(data, w, start) = First(t, w, start)
         /\ find_kmp(data, w, start) = First(t, w, start)
    /\ cache_valid /\ ~bypassed => cached_len = Len(t)
    /\ ~hung
=============================================================================
