------------------------------ MODULE LogProofs ------------------------------
(***************************************************************************)
(* MessagesKept and StorageBounded of DLog, and ListRight of DFormLog, for *)
(* any sizes, limits, numbers of messages, failures and readings.          *)
(***************************************************************************)
EXTENDS DLog, DFormLog, TLAPS, SequenceTheorems, FiniteSetTheorems,
        WellFoundedInduction

(***************************************************************************)
(* DLog.                                                                   *)
(*                                                                         *)
(* The files are read as lists of lines, by their place: the second of a   *)
(* renamed file, and the second to come for the one that is written.  The  *)
(* storage loses only its oldest files, and a renamed file keeps its place *)
(* after all the others, so that the messages stay in order and none is    *)
(* missing up to the last one.                                             *)
(***************************************************************************)
Number == Nat \ {0}

LogTypeOK ==
  /\ now \in Number /\ count \in Nat
  /\ DOMAIN old \subseteq 1..now
  /\ \A s \in DOMAIN old : /\ old[s].time = s
                           /\ old[s].lines \in Seq(Number)
                           /\ Len(old[s].lines) <= count
  /\ LinesOf(current) \in Seq(Number)
  /\ Len(LinesOf(current)) <= count
  /\ hFile => current # Absent
  /\ StorageMode \in Modes /\ StorageFileSize \in Nat /\ StorageModeParam \in Nat

(* The files f, by their place, hold message k; they hold the last ones up *)
(* to number n, none missing and in order.                                 *)
Holds(f, k) == \E s \in DOMAIN f : \E i \in 1..Len(f[s]) : f[s][i] = k
NoneMissing(f, n) ==
  \A s \in DOMAIN f : \A i \in 1..Len(f[s]) :
    f[s][i] <= n /\ \A k \in f[s][i]..n : Holds(f, k)
InOrder(f) ==
  \A s, t \in DOMAIN f : \A i \in 1..Len(f[s]), j \in 1..Len(f[t]) :
    s < t \/ (s = t /\ i < j) => f[s][i] < f[t][j]
HoldsLast(f, n) == (n > 0 => Holds(f, n)) /\ NoneMissing(f, n) /\ InOrder(f)

(* The lines of the files o and of the one that is written, c, in second n.*)
ByPlace(o, n, c) == [s \in DOMAIN o \cup {n + 1} |->
                       IF s > n THEN LinesOf(c) ELSE o[s].lines]
LinesByPlace == ByPlace(old, now, current)

StorageInv == LogTypeOK /\ (~gap => HoldsLast(LinesByPlace, count))

-----------------------------------------------------------------------------
(* A set of numbers has a least one: the intervals up to them are finite,  *)
(* and finite sets are well-founded.                                       *)
LEMMA MinimumExists ==
  ASSUME NEW S \in SUBSET Nat, S # {}
  PROVE  \E m \in S : \A s \in S : m <= s
<1>1. IsWellFoundedOn(StrictSubsetOrdering(Nat), FiniteSubsetsOf(Nat))
  BY FS_StrictSubsetOrderingWellFounded
<1>2. PICK T : T = {0..s : s \in S} OBVIOUS
<1>3. T \subseteq FiniteSubsetsOf(Nat)
  <2>1. ASSUME NEW s \in S PROVE IsFiniteSet(0..s) /\ 0..s \subseteq Nat
    BY FS_Interval
  <2> QED BY <1>2, <2>1 DEF FiniteSubsetsOf
<1>4. T # {} BY <1>2
<1>5. \E x \in T : \A y \in T : ~ (<<y, x>> \in StrictSubsetOrdering(Nat))
  BY <1>1, <1>3, <1>4, WFMin
<1>6. PICK x \in T : \A y \in T : ~ (<<y, x>> \in StrictSubsetOrdering(Nat))
  BY <1>5
<1>7. PICK m \in S : x = 0..m BY <1>2, <1>6
<1>8. ASSUME NEW s \in S, s < m PROVE FALSE
  <2>1. 0..s \in T BY <1>2
  <2>2. 0..s \subseteq 0..m /\ 0..s # 0..m
    <3>1. m \in 0..m /\ m \notin 0..s BY <1>8
    <3> QED BY <3>1, <1>8
  <2>3. 0..s \in SUBSET Nat /\ 0..m \in SUBSET Nat OBVIOUS
  <2>4. <<0..s, 0..m>> \in StrictSubsetOrdering(Nat)
    BY <2>2, <2>3 DEF StrictSubsetOrdering
  <2> QED BY <1>6, <1>7, <2>1, <2>4
<1> QED BY <1>8

(* One message more, in the file that is the last.                         *)
LEMMA OneMoreMessage ==
  ASSUME NEW n \in Nat, NEW D \in SUBSET Nat, NEW f \in [D -> Seq(Number)],
         NEW g \in [D -> Seq(Number)], NEW top \in D,
         \A s \in D : s <= top, HoldsLast(f, n),
         g = [f EXCEPT ![top] = Append(f[top], n + 1)]
  PROVE  HoldsLast(g, n + 1)
<1>1. /\ Len(g[top]) = Len(f[top]) + 1 /\ g[top][Len(f[top]) + 1] = n + 1
      /\ \A i \in 1..Len(f[top]) : g[top][i] = f[top][i]
      /\ Len(f[top]) \in Nat
      /\ DOMAIN f = D /\ DOMAIN g = D
  OBVIOUS
<1>2. \A s \in D : s # top => g[s] = f[s] OBVIOUS
<1>3. ASSUME NEW s \in D, NEW i \in 1..Len(f[s])
      PROVE  i \in 1..Len(g[s]) /\ g[s][i] = f[s][i]
  BY <1>1, <1>2
<1>4. ASSUME NEW s \in D, NEW i \in 1..Len(g[s])
      PROVE  i \in 1..Len(f[s]) \/ (s = top /\ i = Len(f[top]) + 1)
  BY <1>1, <1>2
<1>5. \A s \in D : \A i \in 1..Len(f[s]) : f[s][i] \in Nat /\ f[s][i] <= n
  BY <1>1 DEF HoldsLast, NoneMissing, Number
<1>6. Holds(g, n + 1)
  <2>1. Len(f[top]) + 1 \in 1..Len(g[top]) BY <1>1
  <2> QED BY <1>1, <2>1 DEF Holds
<1>7. \A k : Holds(f, k) => Holds(g, k)
  BY <1>1, <1>3 DEF Holds
<1>8. NoneMissing(g, n + 1)
  <2> SUFFICES ASSUME NEW s \in D, NEW i \in 1..Len(g[s])
               PROVE  g[s][i] <= n + 1 /\ \A k \in g[s][i]..(n + 1) : Holds(g, k)
    BY <1>1 DEF NoneMissing
  <2>1. CASE i \in 1..Len(f[s])
    <3>1. g[s][i] = f[s][i] BY <1>3, <2>1
    <3>2. f[s][i] \in Nat /\ f[s][i] <= n BY <1>5, <2>1
    <3>3. \A k \in f[s][i]..n : Holds(f, k)
      BY <2>1, <1>1 DEF HoldsLast, NoneMissing
    <3>4. ASSUME NEW k \in g[s][i]..(n + 1) PROVE Holds(g, k)
      <4>1. k = n + 1 \/ k \in f[s][i]..n BY <3>1, <3>2
      <4> QED BY <4>1, <3>3, <1>6, <1>7
    <3>5. g[s][i] <= n + 1 BY <3>1, <3>2
    <3> QED BY <3>4, <3>5
  <2>2. CASE s = top /\ i = Len(f[top]) + 1
    <3>1. g[s][i] = n + 1 BY <2>2, <1>1
    <3> QED BY <3>1, <1>6
  <2> QED BY <2>1, <2>2, <1>4
<1>9. InOrder(g)
  <2> SUFFICES ASSUME NEW s \in D, NEW t \in D,
                      NEW i \in 1..Len(g[s]), NEW j \in 1..Len(g[t]),
                      s < t \/ (s = t /\ i < j)
               PROVE  g[s][i] < g[t][j]
    BY <1>1 DEF InOrder
  <2>1. i \in 1..Len(f[s])
    BY <1>1, <1>4
  <2>2. CASE j \in 1..Len(f[t])
    <3>1. f[s][i] < f[t][j] BY <2>1, <2>2, <1>1 DEF HoldsLast, InOrder
    <3> QED BY <3>1, <2>1, <2>2, <1>3
  <2>3. CASE t = top /\ j = Len(f[top]) + 1
    <3>1. g[s][i] = f[s][i] BY <2>1, <1>3
    <3>2. f[s][i] \in Nat /\ f[s][i] <= n BY <2>1, <1>5
    <3> QED BY <3>1, <3>2, <2>3, <1>1
  <2> QED BY <2>2, <2>3, <1>4
<1> QED BY <1>6, <1>8, <1>9 DEF HoldsLast

(* h names the last files of f, E, anew and in the same order; g has those *)
(* and empty ones.                                                         *)
Moved(f, D, g, C, E, h) ==
  /\ D \in SUBSET Nat /\ f \in [D -> Seq(Number)]
  /\ C \in SUBSET Nat /\ g \in [C -> Seq(Number)]
  /\ E \in SUBSET D /\ h \in [E -> C]
  /\ \A s \in D \ E : \A t \in E : s < t
  /\ \A s, t \in E : s < t => h[s] < h[t]
  /\ \A s \in E : g[h[s]] = f[s]
  /\ \A x \in C : (\E s \in E : x = h[s]) \/ g[x] = <<>>

(* The last files, so named, hold what they held, if it holds the last     *)
(* message.                                                                *)
LEMMA LastFilesMoved ==
  ASSUME NEW n \in Nat, NEW f, NEW D, NEW g, NEW C, NEW E, NEW h,
         Moved(f, D, g, C, E, h), HoldsLast(f, n),
         n > 0 => \E s \in E : \E i \in 1..Len(f[s]) : f[s][i] = n
  PROVE  HoldsLast(g, n)
<1> USE DEF Moved
<1>1. DOMAIN g = C /\ DOMAIN f = D OBVIOUS
<1>2. \A s \in D : \A i \in 1..Len(f[s]) : f[s][i] \in Nat /\ f[s][i] <= n
  BY <1>1 DEF HoldsLast, NoneMissing, Number
<1>3. ASSUME NEW s \in E, NEW i \in 1..Len(f[s])
      PROVE  Holds(g, f[s][i])
  <2>1. h[s] \in C /\ g[h[s]] = f[s] OBVIOUS
  <2> QED BY <1>1, <2>1 DEF Holds
<1>4. n > 0 => Holds(g, n) BY <1>3
<1>5. ASSUME NEW x \in C, NEW i \in 1..Len(g[x])
      PROVE  \E s \in E : x = h[s] /\ g[x] = f[s]
  <2>1. g[x] # <<>> OBVIOUS
  <2>2. PICK s \in E : x = h[s] BY <2>1
  <2> QED BY <2>2
<1>6. NoneMissing(g, n)
  <2> SUFFICES ASSUME NEW x \in C, NEW i \in 1..Len(g[x])
               PROVE  g[x][i] <= n /\ \A k \in g[x][i]..n : Holds(g, k)
    BY <1>1 DEF NoneMissing
  <2>1. PICK s \in E : x = h[s] /\ g[x] = f[s] BY <1>5
  <2>2. f[s][i] \in Nat /\ f[s][i] <= n BY <2>1, <1>2
  <2>3. ASSUME NEW k \in f[s][i]..n PROVE Holds(g, k)
    <3>1. Holds(f, k) BY <1>1, <2>1 DEF HoldsLast, NoneMissing
    <3>2. PICK t \in D : \E j \in 1..Len(f[t]) : f[t][j] = k
      BY <1>1, <3>1 DEF Holds
    <3>3. PICK j \in 1..Len(f[t]) : f[t][j] = k BY <3>2
    <3>4. ~ (t < s)
      <4>1. t < s => f[t][j] < f[s][i]
        BY <1>1, <2>1 DEF HoldsLast, InOrder
      <4> QED BY <3>3, <4>1, <2>2
    <3>5. t \in E BY <3>4
    <3> QED BY <1>3, <3>3, <3>5
  <2> QED BY <2>1, <2>2, <2>3
<1>7. InOrder(g)
  <2> SUFFICES ASSUME NEW x \in C, NEW y \in C,
                      NEW i \in 1..Len(g[x]), NEW j \in 1..Len(g[y]),
                      x < y \/ (x = y /\ i < j)
               PROVE  g[x][i] < g[y][j]
    BY <1>1 DEF InOrder
  <2>1. PICK s \in E : x = h[s] /\ g[x] = f[s] BY <1>5
  <2>2. PICK t \in E : y = h[t] /\ g[y] = f[t] BY <1>5
  <2>3. s < t \/ (s = t /\ i < j)
    <3>1. s \in Nat /\ t \in Nat OBVIOUS
    <3>2. t < s => y < x BY <2>1, <2>2
    <3>3. s = t => x = y BY <2>1, <2>2
    <3> QED BY <3>1, <3>2, <3>3
  <2>4. i \in 1..Len(f[s]) /\ j \in 1..Len(f[t]) BY <2>1, <2>2
  <2>5. f[s][i] < f[t][j] BY <1>1, <2>3, <2>4 DEF HoldsLast, InOrder
  <2> QED BY <2>1, <2>2, <2>5
<1> QED BY <1>4, <1>6, <1>7 DEF HoldsLast

-----------------------------------------------------------------------------
(* A file with lines, or an empty one, is there.                           *)
LEMMA LinesAreNotAbsent ==
  ASSUME NEW s \in Seq(Number)
  PROVE  s # Absent /\ LinesOf(s) = s
<1>1. s # Absent
  <2> SUFFICES ASSUME s = Absent PROVE FALSE OBVIOUS
  <2>1. Len(s) = 1 /\ s[1] = 0 BY DEF Absent
  <2>2. s[1] \in Number BY <2>1
  <2> QED BY <2>1, <2>2 DEF Number
<1> QED BY <1>1 DEF LinesOf

(* The files can be listed by their place; f lists them so.                *)
Listed(o, n, c) ==
  /\ n \in Number /\ DOMAIN o \subseteq 1..n
  /\ \A s \in DOMAIN o : o[s].lines \in Seq(Number)
  /\ LinesOf(c) \in Seq(Number)

ListedAs(f, o, n, c) ==
  /\ DOMAIN o \cup {n + 1} \in SUBSET Nat
  /\ \A s \in DOMAIN o : s \in Nat /\ 1 <= s /\ s <= n
  /\ f \in [DOMAIN o \cup {n + 1} -> Seq(Number)]
  /\ f[n + 1] = LinesOf(c)
  /\ \A s \in DOMAIN o : f[s] = o[s].lines

LEMMA ByPlaceType ==
  ASSUME NEW n, NEW o, NEW c, Listed(o, n, c)
  PROVE  ListedAs(ByPlace(o, n, c), o, n, c)
<1>1. \A s \in DOMAIN o : s \in Nat /\ 1 <= s /\ s <= n /\ ~ (s > n)
  BY DEF Listed, Number
<1>2. n \in Nat /\ n + 1 > n BY DEF Listed, Number
<1>3. ByPlace(o, n, c) \in [DOMAIN o \cup {n + 1} -> Seq(Number)]
  BY <1>1, <1>2 DEF ByPlace, Listed
<1>4. ByPlace(o, n, c)[n + 1] = LinesOf(c) BY <1>2 DEF ByPlace
<1>5. \A s \in DOMAIN o : ByPlace(o, n, c)[s] = o[s].lines
  BY <1>1 DEF ByPlace
<1> QED BY <1>1, <1>2, <1>3, <1>4, <1>5 DEF ListedAs

LEMMA LinesByPlaceType ==
  ASSUME LogTypeOK
  PROVE  ListedAs(LinesByPlace, old, now, current)
<1>1. Listed(old, now, current) BY DEF LogTypeOK, Listed
<1> QED BY <1>1, ByPlaceType DEF LinesByPlace

LEMMA PlaceOfLine ==
  ASSUME NEW files, NEW p
  PROVE  p \in Places(files) <=>
           \E s \in DOMAIN files : \E i \in DOMAIN files[s].lines : p = <<s, i>>
BY DEF Places

LEMMA InvariantIsEnough ==
  ASSUME StorageInv
  PROVE  MessagesKept
<1> SUFFICES ASSUME ~gap
             PROVE  LET held == {Message(p) : p \in Places(LogFiles)} IN
                    /\ count > 0 => count \in held
                    /\ \A m \in held : m \in 1..count /\ m..count \subseteq held
                    /\ \A p, q \in Places(LogFiles) :
                         Earlier(p, q) => Message(p) < Message(q)
  BY DEF MessagesKept
<1>1. PICK f : f = LinesByPlace OBVIOUS
<1>2. PICK D : D = DOMAIN old \cup {now + 1} OBVIOUS
<1>3. D \in SUBSET Nat /\ f \in [D -> Seq(Number)] /\ DOMAIN f = D
  BY <1>1, <1>2, LinesByPlaceType DEF StorageInv, ListedAs
<1>4. HoldsLast(f, count) /\ count \in Nat
  BY <1>1 DEF StorageInv, LogTypeOK
<1>5. DOMAIN LogFiles = D /\ \A s \in D : LogFiles[s].lines = f[s]
  BY <1>1, <1>2 DEF LogFiles, LinesByPlace, ByPlace
<1>6. \A s \in D : DOMAIN f[s] = 1..Len(f[s]) BY <1>3
<1>7. ASSUME NEW p
      PROVE  p \in Places(LogFiles) <=>
               \E s \in D : \E i \in 1..Len(f[s]) : p = <<s, i>>
  BY <1>5, <1>6, PlaceOfLine
<1>8. ASSUME NEW s \in D, NEW i \in 1..Len(f[s])
      PROVE  <<s, i>> \in Places(LogFiles) /\ Message(<<s, i>>) = f[s][i]
  BY <1>5, <1>7 DEF Message
<1>9. PICK held : held = {Message(p) : p \in Places(LogFiles)} OBVIOUS
<1>10. ASSUME NEW k PROVE k \in held <=> Holds(f, k)
  <2>1. ASSUME Holds(f, k) PROVE k \in held
    BY <2>1, <1>3, <1>8, <1>9 DEF Holds
  <2>2. ASSUME k \in held PROVE Holds(f, k)
    <3>1. PICK p \in Places(LogFiles) : k = Message(p) BY <2>2, <1>9
    <3>2. PICK s \in D : \E i \in 1..Len(f[s]) : p = <<s, i>> BY <1>7
    <3>3. PICK i \in 1..Len(f[s]) : p = <<s, i>> BY <3>2
    <3> QED BY <3>1, <3>3, <1>3, <1>8 DEF Holds
  <2> QED BY <2>1, <2>2
<1>11. count > 0 => count \in held BY <1>4, <1>10 DEF HoldsLast
<1>12. ASSUME NEW m \in held PROVE m \in 1..count /\ m..count \subseteq held
  <2>1. PICK s \in D : \E i \in 1..Len(f[s]) : f[s][i] = m
    BY <1>3, <1>10 DEF Holds
  <2>2. PICK i \in 1..Len(f[s]) : f[s][i] = m BY <2>1
  <2>3. m \in Number BY <2>2, <1>3
  <2>4. m <= count /\ \A k \in m..count : Holds(f, k)
    BY <2>2, <1>3, <1>4 DEF HoldsLast, NoneMissing
  <2>5. m..count \subseteq held BY <2>4, <1>10
  <2> QED BY <2>3, <2>4, <2>5, <1>4 DEF Number
<1>13. ASSUME NEW p \in Places(LogFiles), NEW q \in Places(LogFiles), Earlier(p, q)
       PROVE  Message(p) < Message(q)
  <2>1. PICK s \in D : \E i \in 1..Len(f[s]) : p = <<s, i>> BY <1>7
  <2>2. PICK i \in 1..Len(f[s]) : p = <<s, i>> BY <2>1
  <2>3. PICK t \in D : \E j \in 1..Len(f[t]) : q = <<t, j>> BY <1>7
  <2>4. PICK j \in 1..Len(f[t]) : q = <<t, j>> BY <2>3
  <2>5. s < t \/ (s = t /\ i < j) BY <1>13, <2>2, <2>4 DEF Earlier
  <2>6. f[s][i] < f[t][j] BY <2>5, <1>3, <1>4 DEF HoldsLast, InOrder
  <2> QED BY <2>2, <2>4, <2>6, <1>8
<1> QED BY <1>9, <1>11, <1>12, <1>13

-----------------------------------------------------------------------------
(* The sizes of files that are among others are not more.                  *)
LEMMA SizesOfSome ==
  ASSUME NEW k \in Nat, NEW n \in Nat, NEW a, NEW b,
         DOMAIN a \subseteq DOMAIN b, DOMAIN b \subseteq 1..k,
         \A s \in DOMAIN a : a[s].lines = b[s].lines,
         \A s \in DOMAIN b : b[s].lines \in Seq(Number) /\ Len(b[s].lines) <= n
  PROVE  Sizes(a) \in Nat /\ Sizes(b) \in Nat /\ Sizes(a) <= Sizes(b)
<1>1. ASSUME NEW p \in Places(a) PROVE p \in Places(b)
  BY PlaceOfLine
<1>2. ASSUME NEW p \in Places(b) PROVE p \in (1..k) \X (1..n)
  <2>1. PICK s \in DOMAIN b : \E i \in DOMAIN b[s].lines : p = <<s, i>>
    BY PlaceOfLine
  <2>2. PICK i \in DOMAIN b[s].lines : p = <<s, i>> BY <2>1
  <2>3. DOMAIN b[s].lines = 1..Len(b[s].lines) /\ Len(b[s].lines) <= n
        /\ Len(b[s].lines) \in Nat
    OBVIOUS
  <2>4. s \in 1..k /\ i \in 1..n BY <2>3
  <2> QED BY <2>2, <2>4
<1>3. IsFiniteSet((1..k) \X (1..n))
  <2>1. IsFiniteSet(1..k) /\ IsFiniteSet(1..n) BY FS_Interval
  <2> QED BY <2>1, FS_Product
<1>4. Places(b) \in SUBSET ((1..k) \X (1..n)) BY <1>2
<1>5. IsFiniteSet(Places(b)) BY <1>3, <1>4, FS_Subset
<1>6. Places(a) \in SUBSET Places(b) BY <1>1
<1>7. IsFiniteSet(Places(a)) /\ Cardinality(Places(a)) <= Cardinality(Places(b))
  BY <1>5, <1>6, FS_Subset
<1> QED BY <1>5, <1>7, FS_CardinalityType DEF Sizes

(* What is added up to a file is not less than what is to a newer one.     *)
LEMMA TotSizeFalls ==
  ASSUME LogTypeOK, NEW s \in DOMAIN old, NEW t \in DOMAIN old, t <= s
  PROVE  /\ TotSize(old, s) \in Nat /\ TotSize(old, t) \in Nat
         /\ TotSize(old, s) <= TotSize(old, t)
<1>1. PICK a : a = [x \in {x \in DOMAIN old : x >= s} |-> old[x]] OBVIOUS
<1>2. PICK b : b = [x \in {x \in DOMAIN old : x >= t} |-> old[x]] OBVIOUS
<1>3. DOMAIN old \subseteq 1..now /\ now \in Nat /\ count \in Nat
  BY DEF LogTypeOK, Number
<1>4. DOMAIN a \subseteq DOMAIN b /\ DOMAIN b \subseteq 1..now
  BY <1>1, <1>2, <1>3
<1>5. \A x \in DOMAIN a : a[x].lines = b[x].lines BY <1>1, <1>2, <1>4
<1>6. \A x \in DOMAIN b : b[x].lines \in Seq(Number) /\ Len(b[x].lines) <= count
  BY <1>2 DEF LogTypeOK
<1>7. Sizes(a) \in Nat /\ Sizes(b) \in Nat /\ Sizes(a) <= Sizes(b)
  BY <1>3, <1>4, <1>5, <1>6, SizesOfSome
<1> QED BY <1>1, <1>2, <1>7 DEF TotSize

(* The files that exceed the limit are the oldest ones.                    *)
LEMMA OldestExceed ==
  ASSUME LogTypeOK, NEW s \in Exceeding(old), NEW t \in DOMAIN old, t < s
  PROVE  t \in Exceeding(old)
<1>1. s \in DOMAIN old BY DEF Exceeding
<1>2. s \in Nat /\ t \in Nat /\ now \in Nat /\ StorageModeParam \in Nat
      /\ old[s].time = s /\ old[t].time = t
  BY <1>1 DEF LogTypeOK, Number
<1>3. CASE StorageMode = "size"
  <2>1. TotSize(old, s) > StorageModeParam BY <1>3 DEF Exceeding
  <2>2. /\ TotSize(old, s) \in Nat /\ TotSize(old, t) \in Nat
        /\ TotSize(old, s) <= TotSize(old, t)
    BY <1>1, <1>2, TotSizeFalls
  <2>3. TotSize(old, t) > StorageModeParam BY <1>2, <2>1, <2>2
  <2> QED BY <1>3, <2>3 DEF Exceeding
<1>4. CASE StorageMode # "size"
  <2>1. now - old[s].time > StorageModeParam BY <1>4 DEF Exceeding
  <2>2. now - old[t].time > StorageModeParam BY <1>2, <2>1
  <2> QED BY <1>4, <2>2 DEF Exceeding
<1> QED BY <1>3, <1>4

(* The files that do not exceed it are together within the limit.          *)
LEMMA OthersWithinLimit ==
  ASSUME LogTypeOK, NEW b, DOMAIN b \subseteq DOMAIN old \ Exceeding(old),
         \A s \in DOMAIN b : b[s] = old[s]
  PROVE  IF StorageMode = "size"
           THEN Sizes(b) <= StorageModeParam
           ELSE \A s \in DOMAIN b : now - b[s].time <= StorageModeParam
<1>1. /\ DOMAIN old \subseteq 1..now /\ now \in Nat /\ count \in Nat
      /\ StorageModeParam \in Nat
  BY DEF LogTypeOK, Number
<1>2. CASE StorageMode = "size"
  <2>1. CASE DOMAIN b = {}
    <3>1. Places(b) = {} BY <2>1, PlaceOfLine
    <3>2. Sizes(b) = 0 BY <3>1, FS_EmptySet DEF Sizes
    <3> QED BY <1>1, <1>2, <3>2
  <2>2. CASE DOMAIN b # {}
    <3>1. DOMAIN b \in SUBSET Nat BY <1>1
    <3>2. PICK m \in DOMAIN b : \A s \in DOMAIN b : m <= s
      BY <2>2, <3>1, MinimumExists
    <3>3. m \in DOMAIN old /\ m \notin Exceeding(old) OBVIOUS
    <3>4. ~ (TotSize(old, m) > StorageModeParam)
      BY <1>2, <3>3 DEF Exceeding
    <3>5. PICK c : c = [x \in {x \in DOMAIN old : x >= m} |-> old[x]] OBVIOUS
    <3>6. DOMAIN b \subseteq DOMAIN c /\ DOMAIN c \subseteq 1..now
      BY <1>1, <3>2, <3>5
    <3>7. \A x \in DOMAIN b : b[x].lines = c[x].lines BY <3>5, <3>6
    <3>8. \A x \in DOMAIN c : c[x].lines \in Seq(Number) /\ Len(c[x].lines) <= count
      BY <3>5 DEF LogTypeOK
    <3>9. Sizes(b) \in Nat /\ Sizes(c) \in Nat /\ Sizes(b) <= Sizes(c)
      BY <1>1, <3>6, <3>7, <3>8, SizesOfSome
    <3>10. Sizes(c) = TotSize(old, m) BY <3>5 DEF TotSize
    <3> QED BY <1>1, <1>2, <3>4, <3>9, <3>10
  <2> QED BY <2>1, <2>2
<1>3. CASE StorageMode # "size"
  <2>1. ASSUME NEW s \in DOMAIN b PROVE now - b[s].time <= StorageModeParam
    <3>1. s \in DOMAIN old /\ s \notin Exceeding(old) /\ b[s] = old[s] OBVIOUS
    <3>2. ~ (now - old[s].time > StorageModeParam) BY <1>3, <3>1 DEF Exceeding
    <3>3. old[s].time = s /\ s \in Nat BY <1>1, <3>1 DEF LogTypeOK
    <3> QED BY <1>1, <3>1, <3>2, <3>3
  <2> QED BY <1>3, <2>1
<1> QED BY <1>2, <1>3

-----------------------------------------------------------------------------
LEMMA LogInitInv == LogInit => StorageInv
<1> SUFFICES ASSUME LogInit PROVE StorageInv OBVIOUS
<1>1. LinesOf(current) = <<>> /\ DOMAIN old = {} /\ now = 1 /\ count = 0
  BY DEF LogInit, LinesOf
<1>2. LogTypeOK
  <2>1. <<>> \in Seq(Number) /\ Len(<<>>) = 0 OBVIOUS
  <2>2. StorageFileSize \in Nat /\ StorageModeParam \in Nat
    BY StorageAssumption DEF LogInit
  <2>3. StorageMode \in Modes /\ ~ hFile BY DEF LogInit, Modes
  <2> QED BY <1>1, <2>1, <2>2, <2>3 DEF LogTypeOK, Number
<1>3. LinesByPlace = [s \in {2} |-> <<>>]
  BY <1>1 DEF LinesByPlace, ByPlace
<1>4. HoldsLast([s \in {2} |-> <<>>], 0)
  BY DEF HoldsLast, NoneMissing, InOrder
<1> QED BY <1>1, <1>2, <1>3, <1>4 DEF StorageInv

(* A step that leaves the files and what was logged.                       *)
LEMMA SameFiles ==
  ASSUME StorageInv, UNCHANGED <<old, now, count, gap>>,
         LinesOf(current') = LinesOf(current), hFile' => current' # Absent,
         StorageMode' \in Modes, StorageFileSize' \in Nat, StorageModeParam' \in Nat
  PROVE  StorageInv'
<1>1. LogTypeOK' BY DEF StorageInv, LogTypeOK
<1>2. LinesByPlace' = LinesByPlace BY DEF LinesByPlace, ByPlace
<1> QED BY <1>1, <1>2 DEF StorageInv

LEMMA NoMessage ==
  ASSUME StorageInv, UNCHANGED <<current, old, now, count, gap>>,
         hFile' => hFile \/ current # Absent,
         StorageMode' \in Modes, StorageFileSize' \in Nat, StorageModeParam' \in Nat
  PROVE  StorageInv'
<1>1. LinesOf(current') = LinesOf(current) OBVIOUS
<1>2. hFile' => current' # Absent BY DEF StorageInv, LogTypeOK
<1> QED BY <1>1, <1>2, SameFiles

LEMMA ConstructInv == StorageInv /\ ConstructLog => StorageInv'
<1> SUFFICES ASSUME StorageInv, ConstructLog PROVE StorageInv' OBVIOUS
<1>1. /\ UNCHANGED <<old, now, count, gap>>
      /\ StorageMode' \in Modes /\ StorageFileSize' \in Nat
      /\ StorageModeParam' \in Nat
  BY StorageAssumption DEF ConstructLog, Modes
<1>2. LinesOf(current) \in Seq(Number) BY DEF StorageInv, LogTypeOK
<1>3. CASE Opened(current)
  <2>1. current' = LinesOf(current) BY <1>3 DEF Opened
  <2>2. current' # Absent /\ LinesOf(current') = LinesOf(current)
    BY <1>2, <2>1, LinesAreNotAbsent
  <2> QED BY <1>1, <2>2, SameFiles
<1>4. CASE ~ Opened(current)
  <2>1. current' = current /\ hFile' = FALSE
    BY <1>4 DEF ConstructLog, NotOpened
  <2> QED BY <1>1, <2>1, NoMessage
<1> QED BY <1>3, <1>4

LEMMA TickInv == StorageInv /\ Tick => StorageInv'
<1> SUFFICES ASSUME StorageInv, Tick PROVE StorageInv' OBVIOUS
<1>1. /\ now' = now + 1 /\ old' = old /\ current' = current /\ count' = count
      /\ gap' = gap /\ hFile' = hFile /\ StorageMode' = StorageMode
      /\ StorageFileSize' = StorageFileSize /\ StorageModeParam' = StorageModeParam
  BY DEF Tick, options, storage
<1>2. /\ LogTypeOK /\ now \in Nat /\ count \in Nat /\ now + 1 \in Number
      /\ DOMAIN old \subseteq 1..now + 1 /\ LinesOf(current) \in Seq(Number)
      /\ \A s \in DOMAIN old : old[s].lines \in Seq(Number)
  BY DEF StorageInv, LogTypeOK, Number
<1>3. LogTypeOK'
  BY <1>1, <1>2 DEF LogTypeOK
<1>4. SUFFICES ASSUME ~ gap PROVE HoldsLast(LinesByPlace', count)
  BY <1>1, <1>3 DEF StorageInv
<1>5. PICK f : f = LinesByPlace OBVIOUS
<1>6. PICK g : g = ByPlace(old, now + 1, current) OBVIOUS
<1>7. PICK D : D = DOMAIN old \cup {now + 1} OBVIOUS
<1>8. PICK C : C = DOMAIN old \cup {now + 2} OBVIOUS
<1>9. PICK h : h = [s \in D |-> IF s = now + 1 THEN now + 2 ELSE s] OBVIOUS
<1>10. ListedAs(f, old, now, current)
  BY <1>2, <1>5, LinesByPlaceType
<1>11. ListedAs(g, old, now + 1, current)
  <2>1. Listed(old, now + 1, current) BY <1>2 DEF Listed
  <2> QED BY <1>6, <2>1, ByPlaceType
<1>12. /\ D \in SUBSET Nat /\ f \in [D -> Seq(Number)]
       /\ \A s \in DOMAIN old : s \in Nat /\ s <= now /\ f[s] = old[s].lines
       /\ f[now + 1] = LinesOf(current)
  BY <1>7, <1>10 DEF ListedAs
<1>13. /\ C \in SUBSET Nat /\ g \in [C -> Seq(Number)]
       /\ \A s \in DOMAIN old : g[s] = old[s].lines
       /\ g[now + 2] = LinesOf(current)
  <2>1. (now + 1) + 1 = now + 2 BY <1>2
  <2> QED BY <1>8, <1>11, <2>1 DEF ListedAs
<1>14. HoldsLast(f, count) BY <1>4, <1>5 DEF StorageInv
<1>15. count > 0 => \E s \in D : \E i \in 1..Len(f[s]) : f[s][i] = count
  BY <1>12, <1>14 DEF HoldsLast, Holds
<1>16. Moved(f, D, g, C, D, h)
  <2>1. h \in [D -> C] BY <1>7, <1>8, <1>9
  <2>2. \A s, t \in D : s < t => h[s] < h[t] BY <1>2, <1>7, <1>9, <1>12
  <2>3. \A s \in D : g[h[s]] = f[s] BY <1>2, <1>7, <1>9, <1>12, <1>13
  <2>4. \A x \in C : \E s \in D : x = h[s] BY <1>2, <1>7, <1>8, <1>9, <1>12
  <2> QED BY <1>12, <1>13, <2>1, <2>2, <2>3, <2>4 DEF Moved
<1>17. HoldsLast(g, count)
  BY <1>2, <1>14, <1>15, <1>16, LastFilesMoved
<1> QED BY <1>1, <1>6, <1>17 DEF LinesByPlace

-----------------------------------------------------------------------------
(* What a message that is written makes of the file, before the rotation:  *)
(* lines, when the file has taken n messages.                              *)
Taken(lines, n) ==
  (lines = current /\ n = count) \/ (lines = Append(current, count + 1) /\ n = count + 1)

LEMMA TakenLines ==
  ASSUME StorageInv, hFile, NEW lines, lines = Append(current, count + 1)
  PROVE  /\ lines \in Seq(Number) /\ Len(lines) <= count + 1
         /\ Len(lines) = Len(current) + 1 /\ LinesOf(lines) = lines /\ lines # <<>>
         /\ lines # Absent /\ lines[Len(lines)] = count + 1
         /\ Listed(old, now, lines)
         /\ ~gap => HoldsLast(ByPlace(old, now, lines), count + 1)
<1>1. /\ current # Absent /\ LinesOf(current) \in Seq(Number)
      /\ Len(LinesOf(current)) <= count /\ count \in Nat /\ LogTypeOK
  BY DEF StorageInv, LogTypeOK
<1>2. LinesOf(current) = current BY <1>1 DEF LinesOf
<1>3. /\ lines \in Seq(Number) /\ Len(lines) <= count + 1
      /\ Len(lines) = Len(current) + 1 /\ lines[Len(lines)] = count + 1
  <2>1. current \in Seq(Number) /\ count + 1 \in Number /\ Len(current) <= count
    BY <1>1, <1>2 DEF Number
  <2> QED BY <1>1, <2>1
<1>4. lines # Absent /\ LinesOf(lines) = lines /\ lines # <<>>
  <2>1. current \in Seq(Number) /\ Len(current) \in Nat BY <1>1, <1>2, LenProperties
  <2>2. Len(lines) # 0 /\ Len(<<>>) = 0 BY <1>3, <2>1
  <2>3. lines # <<>> BY <2>2
  <2> QED BY <1>3, <2>3, LinesAreNotAbsent
<1>5. Listed(old, now, lines) BY <1>1, <1>3, <1>4 DEF Listed, LogTypeOK
<1>6. ASSUME ~gap PROVE HoldsLast(ByPlace(old, now, lines), count + 1)
  <2>1. PICK f : f = LinesByPlace OBVIOUS
  <2>2. PICK g : g = ByPlace(old, now, lines) OBVIOUS
  <2>3. PICK D : D = DOMAIN old \cup {now + 1} OBVIOUS
  <2>4. ListedAs(f, old, now, current) BY <1>1, <2>1, LinesByPlaceType
  <2>5. ListedAs(g, old, now, lines) BY <1>5, <2>2, ByPlaceType
  <2>6. /\ D \in SUBSET Nat /\ now + 1 \in D /\ now \in Nat
        /\ f \in [D -> Seq(Number)] /\ g \in [D -> Seq(Number)]
        /\ f[now + 1] = current /\ g[now + 1] = lines
    BY <1>1, <1>2, <1>4, <2>3, <2>4, <2>5 DEF ListedAs, LogTypeOK, Number
  <2>7. \A s \in D : s # now + 1 => g[s] = f[s]
    <3>1. \A s \in DOMAIN old : f[s] = old[s].lines BY <2>4 DEF ListedAs
    <3>2. \A s \in DOMAIN old : g[s] = old[s].lines BY <2>5 DEF ListedAs
    <3> QED BY <2>3, <3>1, <3>2
  <2>8. g = [f EXCEPT ![now + 1] = Append(f[now + 1], count + 1)]
    BY <2>6, <2>7
  <2>9. HoldsLast(f, count) BY <1>6, <2>1 DEF StorageInv
  <2>10. \A s \in D : s <= now + 1
    <3>1. \A s \in DOMAIN old : s \in Nat /\ s <= now BY <2>4 DEF ListedAs
    <3> QED BY <2>3, <2>6, <3>1
  <2>11. HoldsLast(g, count + 1)
    BY <1>1, <2>6, <2>8, <2>9, <2>10, OneMoreMessage
  <2> QED BY <2>2, <2>11
<1> QED BY <1>3, <1>4, <1>5, <1>6

(* Of a file that refuses a message: its last one is the last one taken.   *)
LEMMA RefusedLines ==
  ASSUME StorageInv, hFile
  PROVE  /\ current \in Seq(Number) /\ Len(current) <= count
         /\ LinesOf(current) = current /\ current # Absent
         /\ Listed(old, now, current)
         /\ ~gap => HoldsLast(ByPlace(old, now, current), count)
         /\ ~gap /\ current # <<>> => current[Len(current)] = count
<1>1. /\ current # Absent /\ LinesOf(current) \in Seq(Number)
      /\ Len(LinesOf(current)) <= count /\ count \in Nat /\ LogTypeOK
  BY DEF StorageInv, LogTypeOK
<1>2. LinesOf(current) = current BY <1>1 DEF LinesOf
<1>3. Listed(old, now, current) BY <1>1, <1>2 DEF Listed, LogTypeOK
<1>4. ~gap => HoldsLast(ByPlace(old, now, current), count) BY DEF StorageInv, LinesByPlace
<1>5. ASSUME ~gap, current # <<>> PROVE current[Len(current)] = count
  <2>1. PICK f, D : f = ByPlace(old, now, current) /\ D = DOMAIN old \cup {now + 1} OBVIOUS
  <2>2. ListedAs(f, old, now, current) BY <1>3, <2>1, ByPlaceType
  <2>3. /\ D \in SUBSET Nat /\ now + 1 \in D /\ now \in Nat
        /\ f \in [D -> Seq(Number)] /\ f[now + 1] = current
        /\ \A s \in D : s # now + 1 => s < now + 1
    BY <1>1, <1>2, <2>1, <2>2 DEF ListedAs, LogTypeOK, Number
  <2>4. PICK l : l = Len(current) OBVIOUS
  <2>5. l \in 1..Len(current) /\ l \in Nat /\ current[l] \in Number
    <3>1. Len(current) \in Nat \ {0} BY <1>1, <1>2, <1>5, EmptySeq
    <3> QED BY <1>1, <1>2, <2>4, <3>1
  <2>6. HoldsLast(f, count) BY <1>4, <1>5, <2>1
  <2>7. current[l] <= count BY <2>3, <2>5, <2>6 DEF HoldsLast, NoneMissing
  <2>8. PICK s, i : s \in D /\ i \in 1..Len(f[s]) /\ f[s][i] = count
    <3>1. count > 0 BY <1>1, <2>5, <2>7 DEF Number
    <3> QED BY <2>3, <2>6, <3>1 DEF HoldsLast, Holds
  <2>9. CASE s = now + 1 /\ i = l BY <2>3, <2>4, <2>8, <2>9
  <2>10. CASE ~(s = now + 1 /\ i = l)
    <3>1. s < now + 1 \/ (s = now + 1 /\ i < l) BY <2>3, <2>4, <2>8, <2>10
    <3>2. f[s][i] < f[now + 1][l] BY <2>3, <2>5, <2>6, <2>8, <3>1 DEF HoldsLast, InOrder
    <3> QED BY <1>1, <2>3, <2>5, <2>7, <2>8, <3>2 DEF Number
  <2> QED BY <2>9, <2>10
<1> QED BY <1>1, <1>2, <1>3, <1>4, <1>5

LEMMA WrittenLines ==
  ASSUME StorageInv, hFile, NEW lines, NEW n, Taken(lines, n)
  PROVE  /\ lines \in Seq(Number) /\ Len(lines) <= n /\ n \in Nat /\ count <= n
         /\ n # count => Len(lines) = Len(current) + 1
         /\ LinesOf(lines) = lines /\ lines # Absent
         /\ ~gap /\ lines # <<>> => lines[Len(lines)] = n
         /\ Listed(old, now, lines)
         /\ ~gap => HoldsLast(ByPlace(old, now, lines), n)
<1>1. count \in Nat BY DEF StorageInv, LogTypeOK
<1>2. CASE lines = current /\ n = count BY <1>1, <1>2, RefusedLines
<1>3. CASE lines = Append(current, count + 1) /\ n = count + 1
  <2>1. n \in Nat /\ count <= n /\ n # count BY <1>1, <1>3
  <2>2. /\ lines \in Seq(Number) /\ Len(lines) <= count + 1
        /\ Len(lines) = Len(current) + 1 /\ LinesOf(lines) = lines
        /\ lines # Absent /\ lines[Len(lines)] = count + 1
        /\ Listed(old, now, lines)
        /\ ~gap => HoldsLast(ByPlace(old, now, lines), count + 1)
    BY <1>3, TakenLines
  <2> QED BY <1>3, <2>1, <2>2
<1> QED BY <1>2, <1>3 DEF Taken

(* A storage without its oldest files.                                     *)
LEMMA RestType ==
  ASSUME LogTypeOK, NEW R \in SUBSET DOMAIN old, NEW o, o = Restrict(old, R)
  PROVE  DOMAIN o = R /\ \A s \in R : o[s] = old[s]
BY DEF Restrict

LEMMA RotationKeeps ==
  ASSUME StorageInv, ~gap, NEW n \in Nat, NEW lines, LinesOf(lines) = lines, lines # <<>>,
         lines \in Seq(Number), lines[Len(lines)] = n,
         Listed(old, now, lines), HoldsLast(ByPlace(old, now, lines), n),
         NEW R, R = DOMAIN old \ Exceeding(old), now \notin R,
         NEW o, o = Renamed(Restrict(old, R), lines),
         NEW c, LinesOf(c) = <<>>, Listed(o, now, c)
  PROVE  HoldsLast(ByPlace(o, now, c), n)
<1>1. LogTypeOK /\ now \in Nat /\ 1 <= now
  BY DEF StorageInv, LogTypeOK, Number
<1>2. PICK f : f = ByPlace(old, now, lines) OBVIOUS
<1>3. PICK g : g = ByPlace(o, now, c) OBVIOUS
<1>4. PICK D : D = DOMAIN old \cup {now + 1} OBVIOUS
<1>5. PICK C : C = DOMAIN o \cup {now + 1} OBVIOUS
<1>6. PICK E : E = R \cup {now + 1} OBVIOUS
<1>7. PICK h : h = [s \in E |-> IF s = now + 1 THEN now ELSE s] OBVIOUS
<1>8. ListedAs(f, old, now, lines) BY <1>2, ByPlaceType
<1>9. ListedAs(g, o, now, c) BY <1>3, ByPlaceType
<1>10. R \in SUBSET DOMAIN old OBVIOUS
<1>11. /\ DOMAIN o = R \cup {now} /\ o[now] = [lines |-> lines, time |-> now]
       /\ \A s \in R : s # now => o[s] = old[s]
  <2>1. PICK a : a = Restrict(old, R) OBVIOUS
  <2>2. DOMAIN a = R /\ \A s \in R : a[s] = old[s] BY <2>1 DEF Restrict
  <2>3. o = [s \in DOMAIN a \cup {now} |->
               IF s = now THEN [lines |-> lines, time |-> now] ELSE a[s]]
    BY <2>1 DEF Renamed
  <2> QED BY <2>2, <2>3
<1>12. /\ D \in SUBSET Nat /\ f \in [D -> Seq(Number)] /\ f[now + 1] = lines
       /\ \A s \in DOMAIN old : s \in Nat /\ s <= now /\ f[s] = old[s].lines
  BY <1>4, <1>8 DEF ListedAs
<1>13. /\ C \in SUBSET Nat /\ g \in [C -> Seq(Number)] /\ g[now + 1] = <<>>
       /\ g[now] = lines /\ \A s \in R : g[s] = old[s].lines
  <2>1. C \in SUBSET Nat /\ g \in [C -> Seq(Number)] /\ g[now + 1] = <<>>
    BY <1>5, <1>9 DEF ListedAs
  <2>2. \A s \in DOMAIN o : g[s] = o[s].lines BY <1>9 DEF ListedAs
  <2>3. g[now] = lines
    <3>1. now \in DOMAIN o /\ o[now].lines = lines BY <1>11
    <3> QED BY <2>2, <3>1
  <2>4. \A s \in R : g[s] = old[s].lines BY <1>11, <2>2
  <2> QED BY <2>1, <2>3, <2>4
<1>14. Moved(f, D, g, C, E, h)
  <2>1. E \in SUBSET D /\ h \in [E -> C] BY <1>4, <1>5, <1>6, <1>7, <1>10, <1>11
  <2>2. ASSUME NEW s \in D \ E, NEW t \in E PROVE s < t
    <3>1. s \in Exceeding(old) /\ s \in Nat /\ s <= now
      BY <1>4, <1>6, <1>12
    <3>2. CASE t = now + 1 BY <1>1, <3>1, <3>2
    <3>3. CASE t \in R
      <4>1. t \in DOMAIN old /\ t \notin Exceeding(old) /\ t \in Nat
        BY <3>3, <1>12
      <4>2. ~ (t < s) BY <1>1, <3>1, <4>1, OldestExceed
      <4> QED BY <3>1, <4>1, <4>2
    <3> QED BY <3>2, <3>3, <1>6
  <2>3. ASSUME NEW s \in E, NEW t \in E, s < t PROVE h[s] < h[t]
    <3>1. \A x \in R : x \in Nat /\ x < now BY <1>1, <1>10, <1>12
    <3>2. s \in R /\ s # now + 1 /\ h[s] = s
      BY <1>1, <1>6, <1>7, <2>3, <3>1
    <3>3. CASE t = now + 1
      <4>1. h[t] = now BY <3>3, <1>7
      <4> QED BY <3>1, <3>2, <4>1
    <3>4. CASE t # now + 1
      <4>1. h[t] = t BY <3>4, <1>7
      <4> QED BY <2>3, <3>2, <4>1
    <3> QED BY <3>3, <3>4
  <2>4. ASSUME NEW s \in E PROVE g[h[s]] = f[s]
    <3>1. \A x \in R : x # now + 1 /\ f[x] = old[x].lines
      BY <1>1, <1>10, <1>12
    <3> QED BY <1>6, <1>7, <1>12, <1>13, <3>1
  <2>5. ASSUME NEW x \in C PROVE (\E s \in E : x = h[s]) \/ g[x] = <<>>
    <3>1. CASE x = now + 1 BY <3>1, <1>13
    <3>2. CASE x = now
      <4>1. now + 1 \in E /\ h[now + 1] = now BY <1>6, <1>7
      <4> QED BY <3>2, <4>1
    <3>3. CASE x \in R
      <4>1. x \in E /\ x # now + 1 BY <3>3, <1>1, <1>6, <1>10, <1>12
      <4>2. h[x] = x BY <4>1, <1>7
      <4> QED BY <4>1, <4>2
    <3> QED BY <3>1, <3>2, <3>3, <1>5, <1>11
  <2> QED BY <1>12, <1>13, <2>1, <2>2, <2>3, <2>4, <2>5 DEF Moved
<1>15. n > 0 => \E s \in E : \E i \in 1..Len(f[s]) : f[s][i] = n
  <2>1. now + 1 \in E /\ Len(lines) \in 1..Len(lines) BY <1>6
  <2> QED BY <1>12, <2>1
<1>16. HoldsLast(g, n)
  <2>1. HoldsLast(f, n) BY <1>2
  <2> QED BY <1>1, <1>14, <1>15, <2>1, LastFilesMoved
<1> QED BY <1>3, <1>16

(* The oldest files are deleted, and the log file is not renamed.          *)
LEMMA DeletionKeeps ==
  ASSUME StorageInv, ~gap, NEW n \in Nat, NEW lines, LinesOf(lines) = lines, lines # <<>>,
         lines \in Seq(Number), lines[Len(lines)] = n,
         Listed(old, now, lines), HoldsLast(ByPlace(old, now, lines), n),
         NEW R, R = DOMAIN old \ Exceeding(old),
         NEW o, o = Restrict(old, R), Listed(o, now, lines)
  PROVE  HoldsLast(ByPlace(o, now, lines), n)
<1>1. LogTypeOK /\ now \in Nat /\ 1 <= now
  BY DEF StorageInv, LogTypeOK, Number
<1>2. PICK f : f = ByPlace(old, now, lines) OBVIOUS
<1>3. PICK g : g = ByPlace(o, now, lines) OBVIOUS
<1>4. PICK D : D = DOMAIN old \cup {now + 1} OBVIOUS
<1>5. PICK E : E = R \cup {now + 1} OBVIOUS
<1>6. PICK h : h = [s \in E |-> s] OBVIOUS
<1>7. ListedAs(f, old, now, lines) BY <1>2, ByPlaceType
<1>8. ListedAs(g, o, now, lines) BY <1>3, ByPlaceType
<1>9. R \in SUBSET DOMAIN old OBVIOUS
<1>10. DOMAIN o = R /\ \A s \in R : o[s] = old[s]
  BY <1>1, <1>9, RestType
<1>11. /\ D \in SUBSET Nat /\ f \in [D -> Seq(Number)] /\ f[now + 1] = lines
       /\ \A s \in DOMAIN old : s \in Nat /\ s <= now /\ f[s] = old[s].lines
  BY <1>4, <1>7 DEF ListedAs
<1>12. /\ E \in SUBSET Nat /\ g \in [E -> Seq(Number)] /\ g[now + 1] = lines
       /\ \A s \in R : g[s] = old[s].lines
  BY <1>5, <1>8, <1>10 DEF ListedAs
<1>13. Moved(f, D, g, E, E, h)
  <2>1. E \in SUBSET D /\ h \in [E -> E] BY <1>4, <1>5, <1>6, <1>9
  <2>2. ASSUME NEW s \in D \ E, NEW t \in E PROVE s < t
    <3>1. s \in Exceeding(old) /\ s \in Nat /\ s <= now
      BY <1>4, <1>5, <1>11
    <3>2. CASE t = now + 1 BY <1>1, <3>1, <3>2
    <3>3. CASE t \in R
      <4>1. t \in DOMAIN old /\ t \notin Exceeding(old) /\ t \in Nat
        BY <3>3, <1>11
      <4>2. ~ (t < s) BY <1>1, <3>1, <4>1, OldestExceed
      <4> QED BY <3>1, <4>1, <4>2
    <3> QED BY <3>2, <3>3, <1>5
  <2>3. \A s \in E : h[s] = s BY <1>6
  <2>4. \A s \in E : g[s] = f[s] BY <1>5, <1>9, <1>11, <1>12
  <2> QED BY <1>11, <1>12, <2>1, <2>2, <2>3, <2>4 DEF Moved
<1>14. n > 0 => \E s \in E : \E i \in 1..Len(f[s]) : f[s][i] = n
  <2>1. now + 1 \in E /\ Len(lines) \in 1..Len(lines) BY <1>5
  <2> QED BY <1>11, <2>1
<1>15. HoldsLast(g, n)
  <2>1. HoldsLast(f, n) BY <1>2
  <2> QED BY <1>1, <1>13, <1>14, <2>1, LastFilesMoved
<1> QED BY <1>3, <1>15

-----------------------------------------------------------------------------
StoredFiles(o, n, k) ==
  /\ DOMAIN o \subseteq 1..n
  /\ \A s \in DOMAIN o : /\ o[s].time = s
                         /\ o[s].lines \in Seq(Number)
                         /\ Len(o[s].lines) <= k

LEMMA DeletedType ==
  ASSUME LogTypeOK, NEW n \in Nat, count <= n,
         NEW R \in SUBSET DOMAIN old, NEW o, o = Restrict(old, R)
  PROVE  StoredFiles(o, now, n)
<1>1. DOMAIN o = R /\ \A s \in R : o[s] = old[s] BY RestType
<1>2. count \in Nat /\ DOMAIN old \subseteq 1..now BY DEF LogTypeOK
<1>3. ASSUME NEW s \in R
      PROVE  /\ o[s].time = s /\ o[s].lines \in Seq(Number)
             /\ Len(o[s].lines) <= n
  <2>1. s \in DOMAIN old /\ o[s] = old[s] BY <1>1
  <2>2. /\ old[s].time = s /\ old[s].lines \in Seq(Number)
        /\ Len(old[s].lines) <= count
    BY <2>1 DEF LogTypeOK
  <2>3. Len(old[s].lines) \in Nat BY <2>2
  <2> QED BY <1>2, <2>1, <2>2, <2>3
<1> QED BY <1>1, <1>2, <1>3 DEF StoredFiles

LEMMA RenamedType ==
  ASSUME LogTypeOK, NEW n \in Nat, count <= n,
         NEW R \in SUBSET DOMAIN old, NEW o, NEW lines \in Seq(Number),
         Len(lines) <= n, o = Renamed(Restrict(old, R), lines)
  PROVE  /\ StoredFiles(o, now, n) /\ DOMAIN o = R \cup {now}
         /\ \A s \in R : s # now => o[s] = old[s]
<1>1. PICK a : a = Restrict(old, R) OBVIOUS
<1>2. DOMAIN a = R /\ \A s \in R : a[s] = old[s] BY <1>1, RestType
<1>3. o = [s \in DOMAIN a \cup {now} |->
            IF s = now THEN [lines |-> lines, time |-> now] ELSE a[s]]
  BY <1>1 DEF Renamed
<1>4. /\ DOMAIN o = R \cup {now} /\ o[now] = [lines |-> lines, time |-> now]
      /\ \A s \in R : s # now => o[s] = a[s]
  BY <1>2, <1>3
<1>5. StoredFiles(a, now, n) BY <1>1, DeletedType
<1>6. now \in Nat /\ now \in 1..now BY DEF LogTypeOK, Number
<1>7. DOMAIN o \subseteq 1..now BY <1>2, <1>4, <1>5, <1>6 DEF StoredFiles
<1>8. ASSUME NEW s \in DOMAIN o
      PROVE  /\ o[s].time = s /\ o[s].lines \in Seq(Number)
             /\ Len(o[s].lines) <= n
  <2>1. CASE s = now
    <3>1. o[s].lines = lines /\ o[s].time = now BY <2>1, <1>4
    <3> QED BY <2>1, <3>1
  <2>2. CASE s # now
    <3>1. s \in DOMAIN a /\ o[s] = a[s] BY <2>2, <1>2, <1>4
    <3> QED BY <3>1, <1>5 DEF StoredFiles
  <2> QED BY <2>1, <2>2
<1> QED BY <1>2, <1>4, <1>7, <1>8 DEF StoredFiles

(* The type of the state after a message, whatever became of the files.    *)
LEMMA TypeAfterMessage ==
  ASSUME LogTypeOK, NEW n \in Nat, UNCHANGED <<now, options>>, count' = n,
         StoredFiles(old', now, n),
         LinesOf(current') \in Seq(Number), Len(LinesOf(current')) <= n,
         hFile' => current' # Absent
  PROVE  LogTypeOK'
<1>1. now' \in Number /\ count' \in Nat BY DEF LogTypeOK
<1>2. /\ StorageMode' \in Modes /\ StorageFileSize' \in Nat
      /\ StorageModeParam' \in Nat
  BY DEF LogTypeOK, options, storage
<1>3. DOMAIN old' \subseteq 1..now' BY DEF StoredFiles
<1>4. \A s \in DOMAIN old' : /\ old'[s].time = s
                            /\ old'[s].lines \in Seq(Number)
                            /\ Len(old'[s].lines) <= count'
  BY DEF StoredFiles
<1> QED BY <1>1, <1>2, <1>3, <1>4 DEF LogTypeOK

LEMMA NoRotationInv ==
  ASSUME StorageInv, hFile, UNCHANGED <<now, options>>, NEW n, count' = n,
         NEW lines, Taken(lines, n), NoRotation(lines)
  PROVE  StorageInv'
<1>1. /\ lines \in Seq(Number) /\ Len(lines) <= n /\ LinesOf(lines) = lines
      /\ lines # Absent /\ n \in Nat /\ count <= n
      /\ ~gap => HoldsLast(ByPlace(old, now, lines), n)
  BY WrittenLines
<1>2. current' = lines /\ old' = old /\ gap' = gap /\ LogTypeOK /\ count \in Nat
  BY DEF NoRotation, StorageInv, LogTypeOK
<1>3. StoredFiles(old, now, n)
  <2>1. \A s \in DOMAIN old : Len(old[s].lines) <= n
    <3> SUFFICES ASSUME NEW s \in DOMAIN old PROVE Len(old[s].lines) <= n
      OBVIOUS
    <3>1. old[s].lines \in Seq(Number) /\ Len(old[s].lines) <= count
      BY <1>2 DEF LogTypeOK
    <3>2. Len(old[s].lines) \in Nat BY <3>1
    <3> QED BY <1>1, <1>2, <3>1, <3>2
  <2> QED BY <1>2, <2>1 DEF LogTypeOK, StoredFiles
<1>4. LogTypeOK'
  <2>1. LinesOf(current') = lines /\ current' # Absent BY <1>1, <1>2
  <2> QED BY <1>1, <1>2, <1>3, <2>1, TypeAfterMessage
<1>5. LinesByPlace' = ByPlace(old, now, lines)
  BY <1>2 DEF LinesByPlace, ByPlace
<1> QED BY <1>1, <1>2, <1>4, <1>5 DEF StorageInv

LEMMA RotatedInv ==
  ASSUME StorageInv, hFile, UNCHANGED <<now, options>>, NEW n, count' = n,
         NEW lines, Taken(lines, n),
         Rotated(lines) \/ RotatedNotOpened(lines)
  PROVE  StorageInv'
<1>1. /\ lines \in Seq(Number) /\ Len(lines) <= n /\ LinesOf(lines) = lines
      /\ lines # <<>> /\ lines # Absent /\ Listed(old, now, lines)
      /\ n \in Nat /\ count <= n
      /\ ~gap => HoldsLast(ByPlace(old, now, lines), n) /\ lines[Len(lines)] = n
  <2>1. Len(lines) > StorageFileSize /\ StorageFileSize \in Nat /\ Len(<<>>) = 0
    BY DEF StorageInv, LogTypeOK, Rotated, RotatedNotOpened
  <2>2. lines # <<>> BY <2>1
  <2> QED BY <2>2, WrittenLines
<1>2. LogTypeOK /\ count \in Nat BY DEF StorageInv, LogTypeOK
<1>3. PICK left \in SUBSET Exceeding(old) :
        /\ old' = Renamed(Restrict(old, Remaining(left)), lines)
        /\ gap' = (gap \/ left # {} \/ now \in Remaining(left))
        /\ Opened(Absent) \/ NotOpened(Absent)
  BY DEF Rotated, RotatedNotOpened
<1>4. LinesOf(current') = <<>> /\ (hFile' => current' # Absent)
  <2>1. LinesOf(Absent) = <<>> BY DEF LinesOf
  <2>2. <<>> # Absent /\ LinesOf(<<>>) = <<>>
    <3>1. <<>> \in Seq(Number) OBVIOUS
    <3> QED BY <3>1, LinesAreNotAbsent
  <2>3. CASE Opened(Absent) BY <2>1, <2>2, <2>3 DEF Opened
  <2>4. CASE NotOpened(Absent) BY <2>1, <2>4 DEF NotOpened
  <2> QED BY <1>3, <2>3, <2>4
<1>5. PICK R : R = Remaining(left) OBVIOUS
<1>6. R \in SUBSET DOMAIN old BY <1>3, <1>5 DEF Remaining, Exceeding
<1>7. StoredFiles(old', now, n)
  BY <1>1, <1>2, <1>3, <1>5, <1>6, RenamedType
<1>8. LogTypeOK'
  <2>1. LinesOf(current') \in Seq(Number) /\ Len(LinesOf(current')) <= n
    BY <1>1, <1>4
  <2> QED BY <1>1, <1>2, <1>4, <1>7, <2>1, TypeAfterMessage
<1>9. ASSUME ~ gap' PROVE HoldsLast(LinesByPlace', n)
  <2>1. ~ gap /\ left = {} /\ now \notin R BY <1>3, <1>5, <1>9
  <2>2. R = DOMAIN old \ Exceeding(old) BY <1>5, <2>1 DEF Remaining
  <2>3. PICK o : o = old' OBVIOUS
  <2>4. PICK c : c = current' OBVIOUS
  <2>5. o = Renamed(Restrict(old, R), lines) BY <1>3, <1>5, <2>3
  <2>6. LinesOf(c) = <<>> BY <1>4, <2>4
  <2>7. Listed(o, now, c)
    BY <1>2, <1>7, <2>3, <2>6 DEF Listed, StoredFiles, LogTypeOK
  <2>8. HoldsLast(ByPlace(o, now, c), n)
    BY <1>1, <2>1, <2>2, <2>5, <2>6, <2>7, RotationKeeps
  <2> QED BY <2>3, <2>4, <2>8 DEF LinesByPlace
<1> QED BY <1>8, <1>9 DEF StorageInv

LEMMA NotRenamedInv ==
  ASSUME StorageInv, hFile, UNCHANGED <<now, options>>, NEW n, count' = n,
         NEW lines, Taken(lines, n), NotRenamed(lines) \/ Thrown(lines)
  PROVE  StorageInv'
<1>1. /\ lines \in Seq(Number) /\ Len(lines) <= n /\ LinesOf(lines) = lines
      /\ lines # <<>> /\ lines # Absent /\ Listed(old, now, lines)
      /\ n \in Nat /\ count <= n
      /\ ~gap => HoldsLast(ByPlace(old, now, lines), n) /\ lines[Len(lines)] = n
  <2>1. Len(lines) > StorageFileSize /\ StorageFileSize \in Nat /\ Len(<<>>) = 0
    BY DEF StorageInv, LogTypeOK, NotRenamed, Thrown
  <2>2. lines # <<>> BY <2>1
  <2> QED BY <2>2, WrittenLines
<1>2. LogTypeOK /\ count \in Nat BY DEF StorageInv, LogTypeOK
<1>3. PICK left \in SUBSET Exceeding(old) :
        /\ old' = Restrict(old, Remaining(left)) /\ gap' = (gap \/ left # {})
        /\ current' = lines
  BY DEF NotRenamed, Thrown
<1>4. PICK R : R = Remaining(left) OBVIOUS
<1>5. R \in SUBSET DOMAIN old BY <1>3, <1>4 DEF Remaining, Exceeding
<1>6. StoredFiles(old', now, n)
  BY <1>1, <1>2, <1>3, <1>4, <1>5, DeletedType
<1>7. LogTypeOK'
  BY <1>1, <1>2, <1>3, <1>6, TypeAfterMessage
<1>8. ASSUME ~ gap' PROVE HoldsLast(LinesByPlace', n)
  <2>1. ~ gap /\ left = {} BY <1>3, <1>8
  <2>2. R = DOMAIN old \ Exceeding(old) BY <1>4, <2>1 DEF Remaining
  <2>3. PICK o : o = old' OBVIOUS
  <2>4. o = Restrict(old, R) BY <1>3, <1>4, <2>3
  <2>5. Listed(o, now, lines)
    BY <1>1, <1>6, <2>3 DEF Listed, StoredFiles
  <2>6. HoldsLast(ByPlace(o, now, lines), n)
    BY <1>1, <2>1, <2>2, <2>4, <2>5, DeletionKeeps
  <2> QED BY <1>3, <2>3, <2>6 DEF LinesByPlace
<1> QED BY <1>7, <1>8 DEF StorageInv

LEMMA FileWrite ==
  ASSUME NEW type, WriteLog(type), LogToFile, hFile
  PROVE  \E n, lines :
           /\ Taken(lines, n) /\ count' = n
           /\ \/ NoRotation(lines) \/ Rotated(lines) \/ Thrown(lines)
              \/ RotatedNotOpened(lines) \/ NotRenamed(lines)
<1>1. PICK n \in {count, count + 1} :
        LET lines == IF n = count THEN current ELSE Append(current, n) IN
        /\ count' = n
        /\ \/ NoRotation(lines) \/ Rotated(lines) \/ Thrown(lines)
           \/ RotatedNotOpened(lines) \/ NotRenamed(lines)
  BY DEF WriteLog
<1>2. PICK lines : lines = IF n = count THEN current ELSE Append(current, n)
  OBVIOUS
<1>3. Taken(lines, n) BY <1>1, <1>2 DEF Taken
<1> QED BY <1>1, <1>2, <1>3

LEMMA WriteInv ==
  ASSUME StorageInv, NEW type, WriteLog(type)
  PROVE  StorageInv'
<1>1. UNCHANGED <<now, options>> BY DEF WriteLog
<1>2. CASE LogToFile /\ hFile
  <2>1. PICK n, lines :
          /\ Taken(lines, n) /\ count' = n
          /\ \/ NoRotation(lines) \/ Rotated(lines) \/ Thrown(lines)
             \/ RotatedNotOpened(lines) \/ NotRenamed(lines)
    BY <1>2, FileWrite
  <2> QED BY <1>1, <1>2, <2>1, NoRotationInv, RotatedInv, NotRenamedInv
<1>3. CASE ~ (LogToFile /\ hFile)
  <2>1. UNCHANGED <<current, old, hFile, count, gap>> BY <1>3 DEF WriteLog
  <2>2. /\ StorageMode' \in Modes /\ StorageFileSize' \in Nat
        /\ StorageModeParam' \in Nat
    BY <1>1 DEF options, storage, StorageInv, LogTypeOK
  <2> QED BY <1>1, <2>1, <2>2, NoMessage
<1> QED BY <1>2, <1>3

LEMMA LogStepInv == StorageInv /\ [LogNext]_logvars => StorageInv'
<1> SUFFICES ASSUME StorageInv, [LogNext]_logvars PROVE StorageInv' OBVIOUS
<1>1. /\ StorageMode \in Modes /\ StorageFileSize \in Nat
      /\ StorageModeParam \in Nat
  BY DEF StorageInv, LogTypeOK
<1>2. ASSUME UNCHANGED logvars PROVE StorageInv'
  <2>1. UNCHANGED <<current, old, now, count, gap, hFile, StorageMode,
                    StorageFileSize, StorageModeParam>>
    BY <1>2 DEF logvars, options, storage
  <2> QED BY <1>1, <2>1, NoMessage
<1>3. CASE ConstructLog BY <1>3, ConstructInv
<1>4. CASE ReadAll BY <1>2, <1>4, WriteInv DEF ReadAll
<1>5. CASE SetStorageMode
  <2>1. /\ UNCHANGED <<current, old, now, count, gap, hFile>>
        /\ StorageMode' \in Modes /\ StorageFileSize' \in Nat
        /\ StorageModeParam' \in Nat
    BY <1>5, StorageAssumption DEF SetStorageMode
  <2> QED BY <2>1, NoMessage
<1>6. CASE SetLogLevel \/ SetVerbose
  <2>1. UNCHANGED <<current, old, now, count, gap, hFile, StorageMode,
                    StorageFileSize, StorageModeParam>>
    BY <1>6 DEF SetLogLevel, SetVerbose, options, storage
  <2> QED BY <1>1, <2>1, NoMessage
<1>7. CASE LogEnd
  <2>1. /\ UNCHANGED <<current, old, now, count, gap, StorageMode,
                       StorageFileSize, StorageModeParam>>
        /\ hFile' = FALSE
    BY <1>7 DEF LogEnd, options, storage
  <2> QED BY <1>1, <2>1, NoMessage
<1>8. CASE Tick BY <1>8, TickInv
<1>9. CASE \E type \in Types : WriteLog(type) BY <1>9, WriteInv
<1> QED BY <1>2, <1>3, <1>4, <1>5, <1>6, <1>7, <1>8, <1>9 DEF LogNext

(* DLog: of the messages that the disk took, the storage and the log file  *)
(* hold the last ones, each once, in order and up to the last one, as long *)
(* as no file was overwritten and all that should be deleted were.         *)
THEOREM MessagesAreKept == LogSpec => []MessagesKept
<1>1. LogSpec => []StorageInv
  BY LogInitInv, LogStepInv, PTL DEF LogSpec
<1> QED BY <1>1, InvariantIsEnough, PTL

(* Only a message that is written makes the log file exceed its size.      *)
LEMMA ExceedingStep ==
  ASSUME StorageInv, [LogNext]_logvars, Exceeds, ~gap'
  PROVE  WithinLimit'
<1>1. LogTypeOK BY DEF StorageInv
<1>2. PICK type : WriteLog(type) /\ LogToFile /\ hFile
  <2>1. count' # count BY DEF Exceeds
  <2>2. PICK type : WriteLog(type)
    BY <2>1 DEF LogNext, logvars, ConstructLog, ReadAll, SetStorageMode, SetLogLevel,
                SetVerbose, LogEnd, Tick
  <2>3. LogToFile /\ hFile BY <2>1, <2>2 DEF WriteLog
  <2> QED BY <2>2, <2>3
<1>3. PICK n, lines :
        /\ Taken(lines, n) /\ count' = n
        /\ \/ NoRotation(lines) \/ Rotated(lines) \/ Thrown(lines)
           \/ RotatedNotOpened(lines) \/ NotRenamed(lines)
  BY <1>2, FileWrite
<1>4. UNCHANGED <<now, options>> BY <1>2 DEF WriteLog
<1>5. /\ lines \in Seq(Number) /\ Len(lines) <= n /\ n \in Nat /\ count <= n
      /\ Len(lines) = Len(current) + 1
  BY <1>2, <1>3, WrittenLines DEF Exceeds
<1>6. ~ NoRotation(lines)
  <2>1. Len(lines) > StorageFileSize BY <1>5 DEF Exceeds
  <2>2. Len(lines) \in Nat /\ StorageFileSize \in Nat BY <1>1, <1>5 DEF LogTypeOK
  <2> QED BY <2>1, <2>2 DEF NoRotation
<1>7. PICK R : R = DOMAIN old \ Exceeding(old) OBVIOUS
<1>8. R \in SUBSET DOMAIN old BY <1>7
<1>9. Remaining({}) = R BY <1>7 DEF Remaining
<1>10. PICK b : b = Restrict(old', DOMAIN old' \ {now}) OBVIOUS
<1>11. DOMAIN b = DOMAIN old' \ {now} /\ \A s \in DOMAIN b : b[s] = old'[s]
  BY <1>10 DEF Restrict
<1>12. DOMAIN b \subseteq R /\ \A s \in DOMAIN b : b[s] = old[s]
  <2>1. CASE Rotated(lines) \/ RotatedNotOpened(lines)
    <3>1. old' = Renamed(Restrict(old, R), lines)
      BY <2>1, <1>9 DEF Rotated, RotatedNotOpened
    <3>2. PICK a : a = Restrict(old, R) OBVIOUS
    <3>3. DOMAIN a = R /\ \A s \in R : a[s] = old[s] BY <1>1, <1>8, <3>2, RestType
    <3>4. old' = [s \in DOMAIN a \cup {now} |->
                    IF s = now THEN [lines |-> lines, time |-> now] ELSE a[s]]
      BY <3>1, <3>2 DEF Renamed
    <3>5. DOMAIN old' = R \cup {now} /\ \A s \in R : s # now => old'[s] = old[s]
      BY <3>3, <3>4
    <3> QED BY <1>11, <3>5
  <2>2. CASE NotRenamed(lines) \/ Thrown(lines)
    <3>1. old' = Restrict(old, R) BY <2>2, <1>9 DEF NotRenamed, Thrown
    <3>2. DOMAIN old' = R /\ \A s \in R : old'[s] = old[s]
      BY <1>1, <1>8, <3>1, RestType
    <3> QED BY <1>11, <3>2
  <2> QED BY <1>3, <1>6, <2>1, <2>2
<1>13. IF StorageMode = "size"
         THEN Sizes(b) <= StorageModeParam
         ELSE \A s \in DOMAIN b : now - b[s].time <= StorageModeParam
  BY <1>1, <1>7, <1>12, OthersWithinLimit
<1>14. Before' = b /\ StorageMode' = StorageMode
       /\ StorageModeParam' = StorageModeParam /\ now' = now
  BY <1>4, <1>10 DEF Before, options, storage
<1> QED BY <1>13, <1>14 DEF WithinLimit

(* DLog: when a message makes the log file exceed its size, what is left   *)
(* of the storage is within its limit, but for the file then renamed.      *)
THEOREM StorageIsBounded == LogSpec => StorageBounded
<1>1. LogSpec => []StorageInv
  BY LogInitInv, LogStepInv, PTL DEF LogSpec
<1>2. StorageInv /\ [LogNext]_logvars => [Exceeds /\ ~gap' => WithinLimit']_logvars
  BY ExceedingStep
<1> QED BY <1>1, <1>2, PTL DEF LogSpec, StorageBounded

(***************************************************************************)
(* DFormLog.                                                               *)
(*                                                                         *)
(* What the list shows and what waits in the queue are read as numbers: an *)
(* event of the queue leaves the window with the messages up to its own    *)
(* number, so that the events of a queue count on from what is shown, up   *)
(* to the last message that was told.                                      *)
(***************************************************************************)

Event == [do : {"Add", "setStringList"}, n : Nat]
Reading == [pc : {"none", "queued", "reading", "read", "done"}, lines : Nat]
Pending == {"queued", "reading", "read"}

(* An event tells one message more, or puts in the list all that were told.*)
More(e) == IF e.do = "Add" THEN 1 ELSE 0

(* The messages that were told before the first event of q, if n were told *)
(* before the next one.                                                    *)
ShownBefore(q, n) == IF q = <<>> THEN n ELSE q[1].n - More(q[1])
Added(q) == {q[i].n : i \in {i \in DOMAIN q : q[i].do = "Add"}}

Counts(q, n) ==
  /\ q \in Seq(Event)
  /\ \A i \in 1..Len(q) - 1 : q[i + 1].n = q[i].n + More(q[i + 1])
  /\ \A i, j \in 1..Len(q) : i < j =>
       q[i].n <= q[j].n /\ (q[j].do = "Add" => q[i].n < q[j].n)
  /\ q # <<>> => q[Len(q)].n = n
  /\ ShownBefore(q, n) \in 0..n
  /\ Added(q) = ShownBefore(q, n) + 1..n

(* The list ends with message n and misses none before it but the first.   *)
EndsWith(list, n) ==
  /\ list \in Seq(Nat) /\ Len(list) <= n
  /\ \A i \in 1..Len(list) : list[i] = n - Len(list) + i

Started(readings) == {l \in Loads : readings[l].pc # "none"}
Shown == ShownBefore(events, logged)

-----------------------------------------------------------------------------
(* The state while SetDLog was called once and nothing was excused.        *)

LogInv ==
  /\ onUI \in BOOLEAN /\ step \in {"idle", "told"}
  /\ logged \in Nat /\ written \in Nat /\ written <= logged
  /\ step = "idle" => written = logged

QueueInv ==
  /\ Counts(events, logged)
  /\ onUI => \A i \in 1..Len(events) : events[i].do = "setStringList"

(* What a reading has read is all that was told, and a list that is not    *)
(* whole, after the first reading was started, will be replaced.           *)
ReadingInv ==
  /\ loader \in [Loads -> Reading]
  /\ \A l \in Loads : loader[l].pc = "read" => loader[l].lines = logged
  /\ Started(loader) # {} =>
       \/ Len(view) = Shown
       \/ \E i \in 1..Len(events) : events[i].do = "setStringList"
       \/ \E l \in Loads : loader[l].pc \in Pending

(* Readings are started in order, and there is one for each LoadFile.      *)
CallsInv ==
  /\ depth \in Nat /\ emptied \in BOOLEAN /\ (emptied => depth > 0)
  /\ Loaded \in Nat /\ Started(loader) = 1..Loaded
  /\ depth + Loaded <= MaxLoads

SpinInv ==
  /\ waiting \in Nat
  /\ spinning => depth > 0 \/ timers # {} \/ waiting # 0

Kept == LogInv /\ QueueInv /\ EndsWith(view, Shown) /\ ReadingInv /\ CallsInv /\ SpinInv

IInv ==
  /\ links \in Nat \ {0} /\ excused \in BOOLEAN
  /\ links = 1 /\ ~excused => Kept

-----------------------------------------------------------------------------
(* Queues.                                                                 *)

LEMMA EventNumber ==
  ASSUME NEW e \in Event
  PROVE  e.n \in Nat /\ More(e) \in {0, 1} /\ (e.do # "Add" <=> e.do = "setStringList")
BY DEF Event, More

LEMMA EmptyCounts ==
  ASSUME NEW n \in Nat
  PROVE  Counts(<<>>, n) /\ ShownBefore(<<>>, n) = n
<1>1. ShownBefore(<<>>, n) = n BY DEF ShownBefore
<1>2. Added(<<>>) = {} BY DEF Added
<1>3. n + 1..n = {} /\ n \in 0..n OBVIOUS
<1>4. <<>> \in Seq(Event) /\ Len(<<>>) = 0 /\ 1..0 = {} /\ 1..0 - 1 = {} OBVIOUS
<1> QED BY <1>1, <1>2, <1>3, <1>4 DEF Counts

LEMMA AddedByAppend ==
  ASSUME NEW q \in Seq(Event), NEW e \in Event
  PROVE  Added(Append(q, e)) = Added(q) \cup (IF e.do = "Add" THEN {e.n} ELSE {})
<1> DEFINE r == Append(q, e)
<1>1. /\ Len(q) \in Nat /\ DOMAIN q = 1..Len(q) /\ DOMAIN r = 1..Len(q) + 1
      /\ \A i \in 1..Len(q) : r[i] = q[i]
      /\ r[Len(q) + 1] = e
  OBVIOUS
<1> HIDE DEF r
<1>2. ASSUME NEW x \in Added(r)
      PROVE  x \in Added(q) \cup (IF e.do = "Add" THEN {e.n} ELSE {})
  <2>1. PICK i \in 1..Len(q) + 1 : r[i].do = "Add" /\ x = r[i].n
    BY <1>1, <1>2 DEF Added
  <2>2. CASE i = Len(q) + 1 BY <1>1, <2>1, <2>2
  <2>3. CASE i \in 1..Len(q) BY <1>1, <2>1, <2>3 DEF Added
  <2> QED BY <1>1, <2>2, <2>3
<1>3. ASSUME NEW x \in Added(q) PROVE x \in Added(r)
  <2>1. PICK i \in 1..Len(q) : q[i].do = "Add" /\ x = q[i].n
    BY <1>1, <1>3 DEF Added
  <2>2. i \in 1..Len(q) + 1 /\ r[i] = q[i] BY <1>1
  <2> QED BY <1>1, <2>1, <2>2 DEF Added
<1>4. e.do = "Add" => e.n \in Added(r)
  <2>1. Len(q) + 1 \in 1..Len(q) + 1 BY <1>1
  <2> QED BY <1>1, <2>1 DEF Added
<1> QED BY <1>2, <1>3, <1>4 DEF r

(* What is posted counts on.                                               *)
LEMMA PostedCounts ==
  ASSUME NEW n \in Nat, NEW q, Counts(q, n), NEW e \in Event, e.n = n + More(e)
  PROVE  /\ Counts(Append(q, e), e.n)
         /\ ShownBefore(Append(q, e), e.n) = ShownBefore(q, n)
<1> DEFINE r == Append(q, e)
<1> DEFINE k == Len(q)
<1>0. q \in Seq(Event) BY DEF Counts
<1>1. /\ k \in Nat /\ r \in Seq(Event) /\ Len(r) = k + 1
      /\ \A i \in 1..k : r[i] = q[i] /\ q[i] \in Event
      /\ r[k + 1] = e /\ r # <<>>
  BY <1>0
<1>2. e.n \in Nat /\ More(e) \in {0, 1} /\ (e.do = "Add" <=> More(e) = 1)
  BY EventNumber DEF More
<1>3. /\ \A i \in 1..k - 1 : q[i + 1].n = q[i].n + More(q[i + 1])
      /\ \A i, j \in 1..k : i < j =>
           q[i].n <= q[j].n /\ (q[j].do = "Add" => q[i].n < q[j].n)
      /\ q # <<>> => q[k].n = n
      /\ ShownBefore(q, n) \in 0..n /\ Added(q) = ShownBefore(q, n) + 1..n
  BY DEF Counts
<1>4. Added(r) = Added(q) \cup (IF e.do = "Add" THEN {e.n} ELSE {})
  BY <1>0, AddedByAppend
<1>5. q # <<>> <=> k > 0 BY <1>0
<1> HIDE DEF r, k
<1>6. \A i \in 1..k : q[i].n \in Nat BY <1>1, EventNumber
<1>7. ShownBefore(r, e.n) = ShownBefore(q, n)
  <2>1. CASE q = <<>>
    <3>1. k = 0 BY <1>1, <1>5, <2>1
    <3>2. r[1] = e BY <1>1, <3>1
    <3> QED BY <1>1, <1>2, <2>1, <3>2 DEF ShownBefore
  <2>2. CASE q # <<>>
    <3>1. r[1] = q[1] BY <1>1, <1>5, <2>2
    <3> QED BY <1>1, <2>2, <3>1 DEF ShownBefore
  <2> QED BY <2>1, <2>2
<1>8. \A i \in 1..k : q[i].n <= n
  <2> TAKE i \in 1..k
  <2>1. k > 0 /\ k \in 1..k BY <1>1
  <2>2. q[k].n = n BY <1>3, <1>5, <2>1
  <2>3. CASE i = k BY <2>2, <2>3
  <2>4. CASE i < k BY <1>3, <2>1, <2>2, <2>4
  <2> QED BY <1>1, <2>3, <2>4
<1>9. \A i \in 1..Len(r) - 1 : r[i + 1].n = r[i].n + More(r[i + 1])
  <2> TAKE i \in 1..Len(r) - 1
  <2>1. CASE i = k
    <3>1. q[k].n = n BY <1>1, <1>3, <1>5, <2>1
    <3> QED BY <1>1, <1>2, <2>1, <3>1
  <2>2. CASE i \in 1..k - 1
    <3>1. r[i] = q[i] /\ r[i + 1] = q[i + 1] BY <1>1, <2>2
    <3> QED BY <1>3, <2>2, <3>1
  <2> QED BY <1>1, <2>1, <2>2
<1>10. \A i, j \in 1..Len(r) : i < j =>
         r[i].n <= r[j].n /\ (r[j].do = "Add" => r[i].n < r[j].n)
  <2> SUFFICES ASSUME NEW i \in 1..Len(r), NEW j \in 1..Len(r), i < j
               PROVE  r[i].n <= r[j].n /\ (r[j].do = "Add" => r[i].n < r[j].n)
    OBVIOUS
  <2>1. i \in 1..k /\ r[i] = q[i] BY <1>1
  <2>2. CASE j = k + 1
    <3>1. r[j] = e /\ q[i].n <= n /\ q[i].n \in Nat BY <1>1, <1>6, <1>8, <2>1, <2>2
    <3> QED BY <1>2, <2>1, <3>1
  <2>3. CASE j \in 1..k
    <3>1. r[j] = q[j] BY <1>1, <2>3
    <3> QED BY <1>3, <2>1, <2>3, <3>1
  <2> QED BY <1>1, <2>2, <2>3
<1>11. ShownBefore(r, e.n) \in 0..e.n BY <1>2, <1>3, <1>7
<1>12. Added(r) = ShownBefore(r, e.n) + 1..e.n
  BY <1>2, <1>3, <1>4, <1>7
<1> QED BY <1>1, <1>7, <1>9, <1>10, <1>11, <1>12 DEF Counts, r

(* Once its first event is handled, what it tells is shown.                *)
LEMMA HandledCounts ==
  ASSUME NEW n \in Nat, NEW q, Counts(q, n), q # <<>>
  PROVE  /\ Counts(Tail(q), n) /\ Head(q) \in Event
         /\ Head(q).n = ShownBefore(q, n) + More(Head(q))
         /\ ShownBefore(Tail(q), n) = Head(q).n
<1> DEFINE t == Tail(q)
<1> DEFINE k == Len(q)
<1>0. q \in Seq(Event) BY DEF Counts
<1>1. /\ k \in Nat /\ k > 0 /\ t \in Seq(Event) /\ Len(t) = k - 1
      /\ \A i \in 1..k - 1 : t[i] = q[i + 1]
      /\ \A i \in 1..k : q[i] \in Event
      /\ Head(q) = q[1] /\ DOMAIN t = 1..k - 1 /\ DOMAIN q = 1..k
  BY <1>0
<1>2. t = <<>> <=> k = 1
  <2>1. t = <<>> <=> Len(t) = 0 BY <1>1
  <2> QED BY <1>1, <2>1
<1>3. /\ \A i \in 1..k - 1 : q[i + 1].n = q[i].n + More(q[i + 1])
      /\ \A i, j \in 1..k : i < j =>
           q[i].n <= q[j].n /\ (q[j].do = "Add" => q[i].n < q[j].n)
      /\ q[k].n = n
      /\ ShownBefore(q, n) \in 0..n /\ Added(q) = ShownBefore(q, n) + 1..n
  BY DEF Counts
<1> HIDE DEF t, k
<1>4. \A i \in 1..k : q[i].n \in Nat /\ More(q[i]) \in {0, 1} BY <1>1, EventNumber
<1>5. ShownBefore(q, n) = q[1].n - More(q[1]) BY DEF ShownBefore
<1>6. 1 \in 1..k BY <1>1
<1>7. ShownBefore(t, n) = q[1].n
  <2>1. CASE k = 1 BY <1>2, <1>3, <2>1 DEF ShownBefore
  <2>2. CASE k > 1
    <3>1. 1 \in 1..k - 1 /\ 2 \in 1..k BY <1>1, <2>2
    <3>2. t[1] = q[2] /\ q[2].n = q[1].n + More(q[2]) BY <1>1, <1>3, <3>1
    <3>3. t # <<>> BY <1>2, <2>2
    <3> QED BY <1>4, <1>6, <3>1, <3>2, <3>3 DEF ShownBefore
  <2> QED BY <1>1, <2>1, <2>2
<1>8. q[1].n <= n
  <2>1. CASE k = 1 BY <1>3, <1>4, <1>6, <2>1
  <2>2. CASE k > 1 BY <1>1, <1>3, <2>2
  <2> QED BY <1>1, <2>1, <2>2
<1>9. Added(t) = q[1].n + 1..n
  <2>1. ASSUME NEW x \in Added(t) PROVE x \in q[1].n + 1..n
    <3>1. PICK i \in 1..k - 1 : t[i].do = "Add" /\ x = t[i].n
      BY <1>1, <2>1 DEF Added
    <3>2. i + 1 \in 1..k /\ 1 < i + 1 /\ t[i] = q[i + 1] BY <1>1
    <3>3. q[1].n < x BY <1>3, <1>6, <3>1, <3>2
    <3>4. x \in Added(q) BY <1>1, <3>1, <3>2 DEF Added
    <3> QED BY <1>3, <1>4, <1>6, <3>3, <3>4
  <2>2. ASSUME NEW x \in q[1].n + 1..n PROVE x \in Added(t)
    <3>1. x \in Added(q) BY <1>3, <1>4, <1>5, <1>6
    <3>2. PICK i \in 1..k : q[i].do = "Add" /\ x = q[i].n BY <1>1, <3>1 DEF Added
    <3>3. i # 1 BY <1>4, <1>6, <3>2
    <3>4. PICK j \in 1..k - 1 : i = j + 1
      <4>1. k \in Nat /\ i \in Nat /\ 2 <= i /\ i <= k BY <1>1, <3>3
      <4>2. i - 1 \in 1..k - 1 /\ i = (i - 1) + 1 BY <4>1
      <4> QED BY <4>2
    <3> QED BY <1>1, <3>2, <3>4 DEF Added
  <2> QED BY <2>1, <2>2
<1>10. \A i \in 1..Len(t) - 1 : t[i + 1].n = t[i].n + More(t[i + 1])
  <2> TAKE i \in 1..Len(t) - 1
  <2>1. i \in 1..k - 1 /\ i + 1 \in 1..k - 1 BY <1>1
  <2> QED BY <1>1, <1>3, <2>1
<1>11. \A i, j \in 1..Len(t) : i < j =>
         t[i].n <= t[j].n /\ (t[j].do = "Add" => t[i].n < t[j].n)
  <2> SUFFICES ASSUME NEW i \in 1..Len(t), NEW j \in 1..Len(t), i < j
               PROVE  t[i].n <= t[j].n /\ (t[j].do = "Add" => t[i].n < t[j].n)
    OBVIOUS
  <2>1. i + 1 \in 1..k /\ j + 1 \in 1..k /\ i + 1 < j + 1 BY <1>1
  <2>2. t[i] = q[i + 1] /\ t[j] = q[j + 1] BY <1>1
  <2> QED BY <1>3, <2>1, <2>2
<1>12. t # <<>> => t[Len(t)].n = n
  <2> SUFFICES ASSUME t # <<>> PROVE t[Len(t)].n = n OBVIOUS
  <2>1. Len(t) \in 1..k - 1 /\ Len(t) + 1 = k BY <1>1, <1>2
  <2> QED BY <1>1, <1>3, <2>1
<1>13. ShownBefore(t, n) \in 0..n BY <1>4, <1>6, <1>7, <1>8
<1>14. Counts(t, n) BY <1>1, <1>7, <1>9, <1>10, <1>11, <1>12, <1>13 DEF Counts
<1> QED BY <1>1, <1>4, <1>5, <1>6, <1>7, <1>14 DEF t

-----------------------------------------------------------------------------
(* Lists.                                                                  *)

LEMMA ListShowsNext ==
  ASSUME NEW n \in Nat, NEW list, EndsWith(list, n)
  PROVE  /\ EndsWith(Append(list, n + 1), n + 1)
         /\ Len(Append(list, n + 1)) = Len(list) + 1
<1> DEFINE r == Append(list, n + 1)
<1>1. list \in Seq(Nat) /\ Len(list) \in Nat BY DEF EndsWith
<1>2. /\ r \in Seq(Nat) /\ Len(r) = Len(list) + 1
      /\ \A i \in 1..Len(list) : r[i] = list[i]
      /\ r[Len(list) + 1] = n + 1
  BY <1>1
<1> HIDE DEF r
<1>3. \A i \in 1..Len(r) : r[i] = n + 1 - Len(r) + i
  <2> TAKE i \in 1..Len(r)
  <2>1. CASE i = Len(list) + 1 BY <1>1, <1>2, <2>1
  <2>2. CASE i \in 1..Len(list) BY <1>1, <1>2, <2>2 DEF EndsWith
  <2> QED BY <1>1, <1>2, <2>1, <2>2
<1> QED BY <1>1, <1>2, <1>3 DEF EndsWith, r

LEMMA LinesEnd ==
  ASSUME NEW n \in Nat
  PROVE  EndsWith(Lines(n), n) /\ Len(Lines(n)) = n
<1>1. Lines(n) \in Seq(Nat) /\ Len(Lines(n)) = n /\ \A i \in 1..n : Lines(n)[i] = i
  BY DEF Lines
<1> QED BY <1>1 DEF EndsWith

LEMMA EmptyEnds ==
  ASSUME NEW n \in Nat
  PROVE  EndsWith(<<>>, n)
<1>1. <<>> \in Seq(Nat) /\ Len(<<>>) = 0 /\ 1..0 = {} OBVIOUS
<1> QED BY <1>1 DEF EndsWith

LEMMA WholeList ==
  ASSUME NEW n \in Nat, NEW list, EndsWith(list, n), Len(list) = n
  PROVE  list = Lines(n)
<1>1. /\ list \in Seq(Nat) /\ Lines(n) \in Seq(Nat) /\ Len(Lines(n)) = n
      /\ \A i \in 1..n : Lines(n)[i] = i /\ list[i] = i
  BY DEF EndsWith, Lines
<1> QED BY <1>1

(* One connection adds one line, or posts one event.                       *)
LEMMA OneLink ==
  ASSUME NEW S, NEW s \in Seq(S), NEW x \in S
  PROVE  s \o [i \in 1..1 |-> x] = Append(s, x)
<1>1. [i \in 1..1 |-> x] = <<x>> OBVIOUS
<1> QED BY <1>1

(* Readings.                                                               *)

LEMMA StartedCount ==
  ASSUME NEW k \in Nat, NEW readings, Started(readings) = 1..k
  PROVE  Cardinality(Started(readings)) = k
BY FS_Interval

LEMMA StartedNext ==
  ASSUME NEW readings \in [Loads -> Reading], NEW k \in Nat,
         Started(readings) = 1..k, k < MaxLoads
  PROVE  LET new == [readings EXCEPT ![k + 1].pc = "queued"] IN
           /\ new \in [Loads -> Reading] /\ Started(new) = 1..k + 1
           /\ k + 1 \in Loads /\ new[k + 1].pc = "queued"
           /\ \A m \in Loads : m # k + 1 => new[m] = readings[m]
<1> DEFINE new == [readings EXCEPT ![k + 1].pc = "queued"]
<1>1. k + 1 \in Loads BY LoadsAssumption DEF Loads
<1>2. readings[k + 1] \in Reading BY <1>1
<1>3. [readings[k + 1] EXCEPT !.pc = "queued"] \in Reading BY <1>2 DEF Reading
<1>4. /\ new \in [Loads -> Reading] /\ new[k + 1].pc = "queued"
      /\ \A m \in Loads : m # k + 1 => new[m] = readings[m]
  BY <1>1, <1>2, <1>3 DEF Reading
<1> HIDE DEF new
<1>5. \A m \in Loads : m \in Started(new) <=> m = k + 1 \/ m \in Started(readings)
  BY <1>1, <1>4 DEF Started
<1>6. Started(new) \subseteq Loads /\ Started(readings) \subseteq Loads
  BY DEF Started
<1>7. \A m \in Started(new) : m \in 1..k + 1 BY <1>5, <1>6
<1>8. \A m \in 1..k + 1 : m \in Started(new)
  <2> TAKE m \in 1..k + 1
  <2>1. CASE m = k + 1 BY <1>1, <1>5, <2>1
  <2>2. CASE m \in 1..k BY <1>5, <1>6, <2>2
  <2> QED BY <2>1, <2>2
<1>9. Started(new) = 1..k + 1 BY <1>7, <1>8
<1> QED BY <1>1, <1>4, <1>9 DEF new

-----------------------------------------------------------------------------
(* The steps.  Calm is what a step that keeps Kept may count on.           *)

Calm == Kept /\ links = 1 /\ ~excused /\ ~excused'

LEMMA ShownType == Kept => /\ Shown \in Nat /\ Shown <= logged /\ logged \in Nat
                           /\ events \in Seq(Event)
<1> SUFFICES ASSUME Kept PROVE /\ Shown \in Nat /\ Shown <= logged
                              /\ logged \in Nat /\ events \in Seq(Event)
  OBVIOUS
<1>1. logged \in Nat /\ Shown \in 0..logged /\ events \in Seq(Event)
  BY DEF Kept, LogInv, QueueInv, Counts, Shown
<1> QED BY <1>1

LEMMA LoadedIs == Loaded = Cardinality(Started(loader))
BY DEF Loaded, Started

LEMMA FormInitHolds == FormInit => IInv
<1> SUFFICES ASSUME FormInit PROVE IInv OBVIOUS
<1>1. /\ logged \in Nat /\ written = logged /\ events = <<>> /\ view = <<>>
      /\ depth = 0 /\ waiting = 0 /\ links = 1 /\ excused = FALSE
      /\ emptied = FALSE /\ spinning = FALSE /\ step = "idle" /\ onUI \in BOOLEAN
      /\ loader = [l \in Loads |-> [pc |-> "none", lines |-> 0]]
  BY DEF FormInit
<1>2. LogInv BY <1>1 DEF LogInv
<1>3. QueueInv BY <1>1, EmptyCounts DEF QueueInv
<1>4. EndsWith(view, Shown) BY <1>1, EmptyCounts, EmptyEnds DEF Shown
<1>5. loader \in [Loads -> Reading] BY <1>1 DEF Reading
<1>6. Started(loader) = {} /\ \A l \in Loads : loader[l].pc = "none"
  BY <1>1 DEF Started
<1>7. ReadingInv BY <1>5, <1>6 DEF ReadingInv
<1>8. Loaded = 0 /\ Started(loader) = 1..0
  BY <1>6, LoadedIs, FS_EmptySet
<1>9. CallsInv
  <2>1. depth \in Nat /\ Loaded \in Nat /\ depth + Loaded <= MaxLoads
    BY <1>1, <1>8, LoadsAssumption
  <2> QED BY <1>1, <1>8, <2>1 DEF CallsInv
<1>10. SpinInv BY <1>1 DEF SpinInv
<1>11. Kept BY <1>2, <1>3, <1>4, <1>7, <1>9, <1>10 DEF Kept
<1>12. links \in Nat \ {0} BY <1>1
<1>13. excused \in BOOLEAN BY <1>1
<1> QED BY <1>11, <1>12, <1>13 DEF IInv

(* A message is told: shown at once by the window's own thread, whose      *)
(* queue is then empty, and posted by another.                             *)
LEMMA TellKeeps == Calm /\ Tell => Kept'
<1> SUFFICES ASSUME Calm, Tell PROVE Kept' OBVIOUS
<1>0. Kept /\ LogInv /\ QueueInv /\ EndsWith(view, Shown) /\ ReadingInv /\ CallsInv
      /\ SpinInv /\ links = 1
  BY DEF Calm, Kept
<1>1. /\ step = "idle" /\ step' = "told" /\ logged' = logged + 1
      /\ UNCHANGED <<onUI, written, links, depth, emptied, timers, waiting,
                     spinning, loader>>
  BY DEF Tell
<1>2. ~TooLate BY DEF Calm, Tell
<1>t. Shown \in Nat /\ logged \in Nat /\ events \in Seq(Event) BY <1>0, ShownType
<1>3. LogInv' BY <1>0, <1>1 DEF LogInv
<1>4. CallsInv' BY <1>0, <1>1 DEF CallsInv, Loaded, Started
<1>5. SpinInv' BY <1>0, <1>1 DEF SpinInv
<1>6. \A l \in Loads : loader[l].pc # "read" BY <1>2 DEF TooLate
<1>7. CASE onUI
  <2>1. events = <<>>
    <3>1. \A i \in 1..Len(events) : events[i].do = "setStringList"
      BY <1>0, <1>7 DEF QueueInv
    <3>2. \A i \in DOMAIN events : events[i].do # "setStringList"
      BY <1>2, <1>7 DEF TooLate
    <3>3. DOMAIN events = 1..Len(events) /\ Len(events) \in Nat BY <1>t
    <3>4. Len(events) = 0 BY <3>1, <3>2, <3>3
    <3> QED BY <1>t, <3>4
  <2>2. events' = <<>> /\ view' = view \o [i \in 1..1 |-> logged + 1]
    BY <1>0, <1>1, <1>7, <2>1 DEF Tell, Add
  <2>3. Shown = logged /\ Shown' = logged + 1
    BY <1>1, <2>1, <2>2 DEF Shown, ShownBefore
  <2>4. view \in Seq(Nat) /\ logged + 1 \in Nat BY <1>0, <1>t DEF EndsWith
  <2>5. view' = Append(view, logged + 1) BY <2>2, <2>4, OneLink
  <2>6. EndsWith(view', Shown') /\ Len(view') = Len(view) + 1
    BY <1>0, <1>t, <2>3, <2>5, ListShowsNext
  <2>7. QueueInv'
    <3>1. Counts(events', logged') BY <1>1, <2>2, <2>4, EmptyCounts
    <3>2. Len(events') = 0 BY <2>2
    <3> QED BY <3>1, <3>2 DEF QueueInv
  <2>8. ReadingInv'
    <3>1. Started(loader) # {} =>
            Len(view) = Shown \/ \E l \in Loads : loader[l].pc \in Pending
      <4>1. Len(events) = 0 BY <2>1
      <4> QED BY <1>0, <4>1 DEF ReadingInv
    <3>2. Len(view) = Shown => Len(view') = Shown' BY <2>3, <2>6
    <3> QED BY <1>0, <1>1, <1>6, <3>1, <3>2 DEF ReadingInv
  <2> QED BY <1>3, <1>4, <1>5, <2>6, <2>7, <2>8 DEF Kept
<1>8. CASE ~onUI
  <2> DEFINE e == [do |-> "Add", n |-> logged + 1]
  <2>1. e \in Event /\ e.n = logged + More(e) /\ e.n = logged' BY <1>1, <1>t DEF Event, More
  <2>2. view' = view /\ events' = events \o [i \in 1..1 |-> e]
    BY <1>0, <1>1, <1>8 DEF Tell
  <2> HIDE DEF e
  <2>3. events' = Append(events, e) BY <1>t, <2>1, <2>2, OneLink
  <2>4. Counts(events, logged) BY <1>0 DEF QueueInv
  <2>5. Counts(events', logged') /\ Shown' = Shown
    BY <1>t, <2>1, <2>3, <2>4, PostedCounts DEF Shown
  <2>6. QueueInv' BY <1>1, <1>8, <2>5 DEF QueueInv
  <2>7. EndsWith(view', Shown') BY <1>0, <2>2, <2>5
  <2>8. \A i \in 1..Len(events) : i \in 1..Len(events') /\ events'[i] = events[i]
    BY <1>t, <2>1, <2>3
  <2>9. ReadingInv' BY <1>0, <1>1, <1>6, <2>2, <2>5, <2>8 DEF ReadingInv
  <2> QED BY <1>3, <1>4, <1>5, <2>6, <2>7, <2>9 DEF Kept
<1> QED BY <1>7, <1>8

LEMMA WriteFileKeeps == Calm /\ WriteFile => Kept'
<1> SUFFICES ASSUME Calm, WriteFile PROVE Kept' OBVIOUS
<1>0. Kept /\ LogInv BY DEF Calm, Kept
<1>1. /\ step' = "idle" /\ written' = logged
      /\ UNCHANGED <<onUI, logged, links, window, loader, view, excused>>
  BY DEF WriteFile
<1>2. logged' \in Nat /\ written' <= logged' BY <1>0, <1>1 DEF LogInv
<1>3. LogInv' BY <1>0, <1>1, <1>2 DEF LogInv
<1> QED BY <1>0, <1>1, <1>3 DEF Kept, QueueInv, ReadingInv, CallsInv, SpinInv, Shown,
       Loaded, window

LEMMA LoadFileKeeps == Calm /\ (LoadFile \/ ProcessEvents) => Kept'
<1> SUFFICES ASSUME Calm, LoadFile \/ ProcessEvents PROVE Kept' OBVIOUS
<1>0. Kept /\ CallsInv /\ SpinInv BY DEF Calm, Kept
<1>1. UNCHANGED <<log, links, events, timers, waiting, loader, view>>
  BY DEF LoadFile, ProcessEvents
<1>2. CallsInv' /\ SpinInv'
  <2>1. CASE LoadFile
    <3>1. /\ depth + Loaded < MaxLoads /\ depth' = depth + 1 /\ emptied' = emptied
          /\ Loaded' = Loaded /\ Started(loader)' = Started(loader)
      BY <1>1, <2>1 DEF LoadFile, Loaded
    <3>2. depth \in Nat /\ Loaded \in Nat BY <1>0 DEF CallsInv
    <3>3. depth' \in Nat /\ depth' > 0 /\ depth' + Loaded' <= MaxLoads
      BY <3>1, <3>2, LoadsAssumption
    <3> QED BY <1>0, <1>1, <3>1, <3>3 DEF CallsInv, SpinInv
  <2>2. CASE ProcessEvents
    <3>1. /\ depth > 0 /\ depth' = depth /\ emptied' = TRUE /\ spinning' = spinning
          /\ Loaded' = Loaded /\ Started(loader)' = Started(loader)
      BY <1>1, <2>2 DEF ProcessEvents, Loaded
    <3> QED BY <1>0, <1>1, <3>1 DEF CallsInv, SpinInv
  <2> QED BY <2>1, <2>2
<1> QED BY <1>0, <1>1, <1>2 DEF Kept, LogInv, QueueInv, ReadingInv, Shown, log

(* The list is emptied, and one reading more is queued.                    *)
LEMMA StartLoadKeeps == Calm /\ StartLoad => Kept'
<1> SUFFICES ASSUME Calm, StartLoad PROVE Kept' OBVIOUS
<1>0. Kept /\ CallsInv /\ ReadingInv BY DEF Calm, Kept
<1>1. /\ emptied /\ emptied' = FALSE /\ depth' = depth - 1
      /\ loader' = [loader EXCEPT ![Loaded + 1].pc = "queued"]
      /\ view' = <<>> /\ timers' = timers \cup {Loaded + 1}
      /\ UNCHANGED <<log, links, events, waiting, spinning>>
  BY DEF StartLoad
<1>2. PICK k \in Nat : /\ k = Loaded /\ Started(loader) = 1..k /\ depth \in Nat
                        /\ depth > 0 /\ depth + k <= MaxLoads
  BY <1>0, <1>1 DEF CallsInv
<1>3. k < MaxLoads BY <1>2, LoadsAssumption
<1>4. /\ loader' \in [Loads -> Reading] /\ Started(loader') = 1..k + 1
      /\ k + 1 \in Loads /\ loader'[k + 1].pc = "queued"
      /\ \A l \in Loads : l # k + 1 => loader'[l] = loader[l]
  BY <1>0, <1>1, <1>2, <1>3, StartedNext, ZenonT(60) DEF ReadingInv
<1>5. Loaded' = k + 1
  <2>1. Cardinality(Started(loader')) = k + 1 BY <1>2, <1>4, StartedCount
  <2> QED BY <2>1 DEF Loaded, Started
<1>6. CallsInv'
  <2>1. depth' \in Nat /\ Loaded' \in Nat /\ depth' + Loaded' <= MaxLoads
    BY <1>1, <1>2, <1>5
  <2> QED BY <1>1, <1>4, <1>5, <2>1 DEF CallsInv
<1>7. Shown' = Shown /\ logged' = logged BY <1>1 DEF Shown, log
<1>8. EndsWith(view', Shown') BY <1>0, <1>1, <1>7, ShownType, EmptyEnds
<1>9. ReadingInv'
  <2>1. \E l \in Loads : loader'[l].pc \in Pending BY <1>4 DEF Pending
  <2>2. ASSUME NEW l \in Loads, loader'[l].pc = "read"
        PROVE  loader'[l].lines = logged'
    <3>1. loader'[l] = loader[l] BY <1>4, <2>2
    <3> QED BY <1>0, <1>7, <2>2, <3>1 DEF ReadingInv
  <2> QED BY <1>4, <2>1, <2>2 DEF ReadingInv
<1>10. SpinInv' BY <1>0, <1>1 DEF SpinInv, Kept
<1> QED BY <1>0, <1>1, <1>6, <1>8, <1>9, <1>10 DEF Kept, LogInv, QueueInv, log

(* A reading goes on; once it has begun, something will replace the list.  *)
LEMMA ReadingGoesOn ==
  ASSUME Kept, NEW l \in Loads, loader[l].pc \in {"queued", "reading"},
         NEW r \in Reading, r.pc \in {"reading", "read"},
         loader' = [loader EXCEPT ![l] = r], r.pc = "read" => r.lines = logged,
         UNCHANGED <<log, links, window, view>>
  PROVE  Kept'
<1>0. ReadingInv /\ CallsInv BY DEF Kept
<1>1. /\ loader' \in [Loads -> Reading] /\ Started(loader') = Started(loader)
      /\ loader'[l] = r /\ \A m \in Loads : m # l => loader'[m] = loader[m]
  <2>1. loader \in [Loads -> Reading] BY <1>0 DEF ReadingInv
  <2>2. loader[l].pc # "none" /\ r.pc # "none" OBVIOUS
  <2> QED BY <2>1, <2>2 DEF Started
<1>2. /\ logged' = logged /\ events' = events /\ Shown' = Shown
      /\ Loaded' = Loaded
  BY <1>1, LoadedIs DEF log, window, Shown, Loaded, Started
<1>3. ReadingInv'
  <2>1. loader'[l].pc \in Pending BY <1>1 DEF Pending
  <2>2. \A m \in Loads : loader'[m].pc = "read" => loader'[m].lines = logged'
    BY <1>0, <1>1, <1>2 DEF ReadingInv
  <2> QED BY <1>1, <2>1, <2>2 DEF ReadingInv
<1>4. CallsInv' BY <1>0, <1>1, <1>2 DEF CallsInv, window
<1> QED BY <1>2, <1>3, <1>4 DEF Kept, LogInv, QueueInv, SpinInv, log, window

LEMMA OpenFileKeeps ==
  ASSUME Calm, NEW l \in Loads, OpenFile(l)
  PROVE  Kept'
<1> DEFINE r == [loader[l] EXCEPT !.pc = "reading"]
<1>1. /\ loader[l].pc = "queued" /\ loader' = [loader EXCEPT ![l].pc = "reading"]
      /\ UNCHANGED <<log, links, window, view>>
  BY DEF Calm, OpenFile
<1>2. loader[l] \in Reading BY DEF Calm, Kept, ReadingInv
<1>3. r \in Reading /\ r.pc = "reading" /\ loader' = [loader EXCEPT ![l] = r]
  BY <1>1, <1>2 DEF Reading
<1> HIDE DEF r
<1> QED BY <1>1, <1>3, ReadingGoesOn DEF Calm

LEMMA AtEndKeeps ==
  ASSUME Calm, NEW l \in Loads, AtEnd(l)
  PROVE  Kept'
<1> DEFINE r == [pc |-> "read", lines |-> written]
<1>1. /\ loader[l].pc = "reading" /\ loader' = [loader EXCEPT ![l] = r]
      /\ step # "told" /\ UNCHANGED <<log, links, window, view>>
  BY DEF Calm, AtEnd
<1>2. written = logged /\ written \in Nat BY <1>1 DEF Calm, Kept, LogInv
<1>3. r \in Reading /\ r.pc = "read" /\ r.lines = logged BY <1>2 DEF Reading
<1> HIDE DEF r
<1> QED BY <1>1, <1>3, ReadingGoesOn DEF Calm

(* The result is posted behind every message that was told.                *)
LEMMA EmitStringListKeeps ==
  ASSUME Calm, NEW l \in Loads, EmitStringList(l)
  PROVE  Kept'
<1> DEFINE e == [do |-> "setStringList", n |-> loader[l].lines]
<1> DEFINE r == [loader[l] EXCEPT !.pc = "done"]
<1>0. Kept /\ LogInv /\ QueueInv /\ ReadingInv /\ CallsInv BY DEF Calm, Kept
<1>1. /\ loader[l].pc = "read" /\ events' = Append(events, e)
      /\ loader' = [loader EXCEPT ![l].pc = "done"]
      /\ UNCHANGED <<log, links, depth, emptied, timers, waiting, spinning, view>>
  BY DEF EmitStringList
<1>2. loader[l] \in Reading /\ loader[l].lines = logged BY <1>0, <1>1 DEF ReadingInv
<1>3. r \in Reading /\ r.pc = "done" /\ loader' = [loader EXCEPT ![l] = r]
  BY <1>1, <1>2 DEF Reading
<1>4. logged \in Nat /\ events \in Seq(Event) BY <1>0, ShownType
<1>5. e \in Event /\ e.do = "setStringList" /\ e.n = logged /\ More(e) = 0
  BY <1>2, <1>4 DEF Event, More
<1> HIDE DEF r, e
<1>6. Counts(events', logged) /\ Shown' = Shown /\ logged' = logged
  <2>1. e.n = logged + More(e) BY <1>4, <1>5
  <2>2. logged' = logged BY <1>1 DEF log
  <2>3. Counts(events, logged) BY <1>0 DEF QueueInv
  <2> QED BY <1>1, <1>4, <1>5, <2>1, <2>2, <2>3, PostedCounts DEF Shown
<1>7. /\ Len(events') = Len(events) + 1 /\ Len(events) \in Nat
      /\ events'[Len(events) + 1] = e
      /\ \A i \in 1..Len(events) : events'[i] = events[i]
  BY <1>1, <1>4, <1>5
<1>8. QueueInv'
  <2>1. ASSUME onUI' PROVE \A i \in 1..Len(events') : events'[i].do = "setStringList"
    <3>1. \A i \in 1..Len(events) : events[i].do = "setStringList"
      BY <1>0, <1>1, <2>1 DEF QueueInv, log
    <3> TAKE i \in 1..Len(events')
    <3>2. CASE i = Len(events) + 1 BY <1>5, <1>7, <3>2
    <3>3. CASE i \in 1..Len(events) BY <1>7, <3>1, <3>3
    <3> QED BY <1>7, <3>2, <3>3
  <2> QED BY <1>6, <2>1 DEF QueueInv
<1>9. /\ loader' \in [Loads -> Reading] /\ Started(loader') = Started(loader)
      /\ loader'[l] = r /\ \A m \in Loads : m # l => loader'[m] = loader[m]
  <2>1. loader \in [Loads -> Reading] BY <1>0 DEF ReadingInv
  <2>2. loader[l].pc # "none" /\ r.pc # "none" BY <1>1, <1>3
  <2> QED BY <1>3, <2>1, <2>2 DEF Started
<1>10. ReadingInv'
  <2>1. Len(events) + 1 \in 1..Len(events') BY <1>7
  <2>2. \E i \in 1..Len(events') : events'[i].do = "setStringList"
    BY <1>5, <1>7, <2>1
  <2>3. \A m \in Loads : loader'[m].pc = "read" => loader'[m].lines = logged'
    BY <1>0, <1>3, <1>6, <1>9 DEF ReadingInv
  <2> QED BY <1>9, <2>2, <2>3 DEF ReadingInv
<1>11. CallsInv'
  <2>1. Loaded' = Loaded BY <1>9 DEF Loaded, Started
  <2> QED BY <1>0, <1>1, <1>9, <2>1 DEF CallsInv
<1> QED BY <1>0, <1>1, <1>6, <1>8, <1>10, <1>11 DEF Kept, LogInv, SpinInv, log

(* An event is handled: a line more, or all that were told before.         *)
LEMMA DeliverKeeps == Calm /\ Deliver => Kept'
<1> SUFFICES ASSUME Calm, Deliver PROVE Kept' OBVIOUS
<1> DEFINE e == Head(events)
<1>0. Kept /\ LogInv /\ QueueInv /\ ReadingInv /\ CallsInv /\ EndsWith(view, Shown)
  BY DEF Calm, Kept
<1>1. /\ events # <<>> /\ events' = Tail(events)
      /\ view' = IF e.do = "Add" THEN Append(view, e.n) ELSE Lines(e.n)
      /\ UNCHANGED <<log, links, depth, emptied, timers, waiting, spinning, loader>>
  BY DEF Deliver
<1>2. logged \in Nat /\ Shown \in Nat /\ events \in Seq(Event) /\ logged' = logged
  BY <1>0, <1>1, ShownType DEF log
<1>3. /\ Counts(events', logged') /\ e \in Event /\ e.n = Shown + More(e)
      /\ Shown' = e.n
  BY <1>0, <1>1, <1>2, HandledCounts DEF QueueInv, Shown
<1>4. /\ Len(events) \in Nat /\ Len(events') = Len(events) - 1 /\ e = events[1]
      /\ \A i \in 1..Len(events') : events'[i] = events[i + 1]
  BY <1>1, <1>2
<1> HIDE DEF e
<1>5. QueueInv'
  <2>1. ASSUME onUI' PROVE \A i \in 1..Len(events') : events'[i].do = "setStringList"
    <3>1. \A i \in 1..Len(events) : events[i].do = "setStringList"
      BY <1>0, <1>1, <2>1 DEF QueueInv, log
    <3> TAKE i \in 1..Len(events')
    <3>2. i + 1 \in 1..Len(events) BY <1>4
    <3> QED BY <1>4, <3>1, <3>2
  <2> QED BY <1>3, <2>1 DEF QueueInv
<1>6. /\ EndsWith(view', Shown')
      /\ e.do # "Add" \/ Len(view) = Shown => Len(view') = Shown'
  <2>1. CASE e.do = "Add"
    <3>1. e.n = Shown + 1 BY <1>3, <2>1 DEF More
    <3>2. view' = Append(view, Shown + 1) BY <1>1, <2>1, <3>1
    <3> QED BY <1>0, <1>2, <1>3, <2>1, <3>1, <3>2, ListShowsNext
  <2>2. CASE e.do # "Add"
    <3>1. e.n = Shown BY <1>2, <1>3, <2>2 DEF More
    <3>2. view' = Lines(Shown) /\ Shown' = Shown BY <1>1, <1>3, <2>2, <3>1
    <3> QED BY <1>2, <3>2, LinesEnd
  <2> QED BY <2>1, <2>2
<1>7. ReadingInv'
  <2>1. ASSUME Started(loader) # {}, Len(view') # Shown',
               \A m \in Loads : loader[m].pc \notin Pending
        PROVE  \E i \in 1..Len(events') : events'[i].do = "setStringList"
    <3>1. PICK i \in 1..Len(events) : events[i].do = "setStringList"
      BY <1>0, <1>6, <2>1 DEF ReadingInv
    <3>2. i # 1 BY <1>4, <1>6, <2>1, <3>1
    <3>3. i - 1 \in 1..Len(events') /\ events'[i - 1] = events[i]
      BY <1>4, <3>2
    <3> QED BY <3>1, <3>3
  <2> QED BY <1>0, <1>1, <1>2, <2>1 DEF ReadingInv
<1>8. CallsInv' BY <1>0, <1>1 DEF CallsInv, Loaded
<1> QED BY <1>0, <1>1, <1>5, <1>6, <1>7, <1>8 DEF Kept, LogInv, SpinInv, log

LEMMA TimeoutKeeps ==
  ASSUME Calm, NEW l \in Loads, Timeout(l)
  PROVE  Kept'
<1>0. Kept /\ SpinInv /\ CallsInv BY DEF Calm, Kept
<1>1. /\ waiting' = l
      /\ UNCHANGED <<log, links, events, depth, emptied, spinning, loader, view>>
  BY DEF Timeout
<1>2. l \in Nat /\ l # 0 BY LoadsAssumption DEF Loads
<1>3. SpinInv' BY <1>1, <1>2 DEF SpinInv
<1> QED BY <1>0, <1>1, <1>3 DEF Kept, LogInv, QueueInv, ReadingInv, CallsInv, Shown,
       Loaded, log

LEMMA ResultKeeps ==
  ASSUME Calm, NEW l \in Loads, Result(l)
  PROVE  Kept'
<1>0. Kept /\ CallsInv BY DEF Calm, Kept
<1>1. /\ waiting' = 0 /\ spinning' = FALSE
      /\ UNCHANGED <<log, links, events, depth, emptied, timers, loader, view>>
  BY DEF Result
<1>2. SpinInv' BY <1>1 DEF SpinInv
<1> QED BY <1>0, <1>1, <1>2 DEF Kept, LogInv, QueueInv, ReadingInv, CallsInv, Shown,
       Loaded, log

(* The window's thread reads the file itself and sets the list at once,    *)
(* before the events that wait.  Not excused, they tell what the file      *)
(* lacks, so that the file has what is shown.                              *)
LEMMA RunHereKeeps ==
  ASSUME Calm, NEW l \in Loads, RunHere(l)
  PROVE  Kept'
<1> DEFINE r == [pc |-> "done", lines |-> written]
<1>0. Kept /\ LogInv /\ QueueInv /\ ReadingInv /\ CallsInv BY DEF Calm, Kept
<1>1. /\ loader[l].pc = "queued" /\ loader' = [loader EXCEPT ![l] = r]
      /\ view' = Lines(written) /\ Waiting = written + 1..logged
      /\ UNCHANGED <<log, links, window>>
  BY DEF Calm, RunHere
<1>2. /\ logged \in Nat /\ written \in Nat /\ written <= logged
      /\ Shown \in Nat /\ Shown <= logged
  BY <1>0, ShownType DEF LogInv
<1>3. Waiting = Shown + 1..logged
  BY <1>0 DEF QueueInv, Counts, Waiting, Added, Shown
<1>4. written = Shown
  <2>1. ASSUME written < Shown PROVE FALSE
    <3>1. Shown \in written + 1..logged BY <1>2, <2>1
    <3>2. Shown \notin Shown + 1..logged BY <1>2
    <3> QED BY <1>1, <1>3, <3>1, <3>2
  <2>2. ASSUME Shown < written PROVE FALSE
    <3>1. written \in Shown + 1..logged BY <1>2, <2>2
    <3>2. written \notin written + 1..logged BY <1>2
    <3> QED BY <1>1, <1>3, <3>1, <3>2
  <2> QED BY <1>2, <2>1, <2>2
<1>5. r \in Reading /\ r.pc = "done" BY <1>2 DEF Reading
<1> HIDE DEF r
<1>6. /\ loader' \in [Loads -> Reading] /\ Started(loader') = Started(loader)
      /\ loader'[l] = r /\ \A m \in Loads : m # l => loader'[m] = loader[m]
  <2>1. loader \in [Loads -> Reading] BY <1>0 DEF ReadingInv
  <2>2. loader[l].pc # "none" /\ r.pc # "none" BY <1>1, <1>5
  <2> QED BY <1>1, <1>5, <2>1, <2>2 DEF Started
<1>7. logged' = logged /\ events' = events /\ Shown' = Shown /\ Loaded' = Loaded
  BY <1>1, <1>6 DEF log, window, Shown, Loaded, Started
<1>8. EndsWith(view', Shown') /\ Len(view') = Shown'
  BY <1>1, <1>2, <1>4, <1>7, LinesEnd
<1>9. ReadingInv'
  <2>1. \A m \in Loads : loader'[m].pc = "read" => loader'[m].lines = logged'
    BY <1>0, <1>5, <1>6, <1>7 DEF ReadingInv
  <2> QED BY <1>6, <1>8, <2>1 DEF ReadingInv
<1>10. CallsInv' BY <1>0, <1>1, <1>6, <1>7 DEF CallsInv, window
<1> QED BY <1>0, <1>1, <1>7, <1>8, <1>9, <1>10 DEF Kept, LogInv, QueueInv, SpinInv,
       log, window

-----------------------------------------------------------------------------
LEMMA HistoryGrows ==
  ASSUME IInv, FormNext
  PROVE  /\ links' \in Nat \ {0} /\ (links' = 1 => links = 1 /\ ~SetDLog)
         /\ excused' \in BOOLEAN /\ (excused => excused')
<1>1. links \in Nat \ {0} /\ excused \in BOOLEAN BY DEF IInv
<1>2. SetDLog \/ links' = links
  BY DEF FormNext, LogSteps, Tell, WriteFile, LoadFile, ProcessEvents, StartLoad,
     Deliver, OpenFile, AtEnd, EmitStringList, Timeout, RunHere, Result, window, log
<1>3. SetDLog => links' = links + 1 BY DEF SetDLog
<1>4. links' \in Nat \ {0} /\ (links' = 1 => links = 1 /\ ~SetDLog)
  BY <1>1, <1>2, <1>3
<1>5. \/ excused' = excused \/ excused' = TRUE
      \/ \E b \in BOOLEAN : excused' = (excused \/ b)
  <2>1. SetDLog \/ LoadFile \/ ProcessEvents \/ StartLoad \/ Deliver => excused' = excused
    BY DEF SetDLog, LoadFile, ProcessEvents, StartLoad, Deliver
  <2>2. LogSteps => excused' = excused \/ excused' = (excused \/ TooLate)
    BY DEF LogSteps, Tell, WriteFile
  <2>3. ASSUME NEW l \in Loads,
               EmitStringList(l) \/ Timeout(l) \/ Result(l)
        PROVE  excused' = excused
    BY <2>3 DEF EmitStringList, Timeout, Result
  <2>4. ASSUME NEW l \in Loads, OpenFile(l)
        PROVE  excused' = excused \/ excused' = TRUE
    BY <2>4 DEF OpenFile
  <2>5. ASSUME NEW l \in Loads, AtEnd(l)
        PROVE  excused' = (excused \/ step = "told")
    BY <2>5 DEF AtEnd
  <2>6. ASSUME NEW l \in Loads, RunHere(l)
        PROVE  excused' = (excused \/ Waiting # written + 1..logged)
    BY <2>6 DEF RunHere
  <2>7. (TooLate \in BOOLEAN) /\ ((step = "told") \in BOOLEAN)
        /\ ((Waiting # written + 1..logged) \in BOOLEAN)
    BY DEF TooLate
  <2> QED BY <2>1, <2>2, <2>3, <2>4, <2>5, <2>6, <2>7 DEF FormNext
<1>6. excused' \in BOOLEAN /\ (excused => excused') BY <1>1, <1>5
<1> QED BY <1>4, <1>6

LEMMA FormStepKeeps == IInv /\ [FormNext]_fvars => IInv'
<1> SUFFICES ASSUME IInv, [FormNext]_fvars PROVE IInv' OBVIOUS
<1>1. CASE UNCHANGED fvars
  BY <1>1 DEF fvars, log, window, IInv, Kept, LogInv, QueueInv, ReadingInv, CallsInv,
     SpinInv, Shown, Loaded
<1>2. CASE FormNext
  <2>1. /\ links' \in Nat \ {0} /\ (links' = 1 => links = 1 /\ ~SetDLog)
        /\ excused' \in BOOLEAN /\ (excused => excused')
    BY <1>2, HistoryGrows
  <2>2. ASSUME links' = 1, ~excused' PROVE Kept'
    <3>1. Calm BY <2>1, <2>2 DEF Calm, IInv
    <3>2. CASE LogSteps BY <3>1, <3>2, TellKeeps, WriteFileKeeps DEF LogSteps
    <3>3. CASE LoadFile \/ ProcessEvents BY <3>1, <3>3, LoadFileKeeps
    <3>4. CASE StartLoad BY <3>1, <3>4, StartLoadKeeps
    <3>5. CASE Deliver BY <3>1, <3>5, DeliverKeeps
    <3>6. ASSUME NEW l \in Loads,
                 OpenFile(l) \/ AtEnd(l) \/ EmitStringList(l) \/ Timeout(l)
                   \/ RunHere(l) \/ Result(l)
          PROVE  Kept'
      BY <3>1, <3>6, OpenFileKeeps, AtEndKeeps, EmitStringListKeeps, TimeoutKeeps,
         RunHereKeeps, ResultKeeps
    <3> QED BY <1>2, <2>1, <2>2, <3>2, <3>3, <3>4, <3>5, <3>6 DEF FormNext
  <2> QED BY <2>1, <2>2 DEF IInv
<1> QED BY <1>1, <1>2

LEMMA ShowsTheLog == IInv => ListRight
<1> SUFFICES ASSUME Kept
             PROVE  /\ \A i \in 1..Len(view) - 1 : view[i] < view[i + 1]
                    /\ Quiet => /\ (\E l \in Loads : loader[l].pc = "done") =>
                                     view = Lines(written)
                                /\ ~spinning
  BY DEF IInv, ListRight
<1>0. Shown \in Nat /\ EndsWith(view, Shown) BY ShownType DEF Kept
<1>1. ASSUME NEW i \in 1..Len(view) - 1 PROVE view[i] < view[i + 1]
  <2>1. Len(view) \in Nat BY <1>0 DEF EndsWith
  <2>2. i \in 1..Len(view) /\ i + 1 \in 1..Len(view) BY <2>1
  <2>3. view[i] = Shown - Len(view) + i /\ view[i + 1] = Shown - Len(view) + (i + 1)
    BY <1>0, <2>2 DEF EndsWith
  <2> QED BY <1>0, <2>1, <2>3
<1>2. ASSUME Quiet, NEW l \in Loads, loader[l].pc = "done"
      PROVE  view = Lines(written)
  <2>1. Started(loader) # {} BY <1>2 DEF Started
  <2>2. Len(events) = 0 /\ \A m \in Loads : loader[m].pc \notin Pending
    BY <1>2 DEF Quiet, Pending
  <2>3. Len(view) = Shown BY <2>1, <2>2 DEF Kept, ReadingInv
  <2>4. Shown = written
    BY <1>2 DEF Quiet, Kept, LogInv, Shown, ShownBefore
  <2> QED BY <1>0, <2>3, <2>4, WholeList
<1>3. Quiet => ~spinning BY DEF Quiet, Kept, SpinInv
<1> QED BY <1>1, <1>2, <1>3

(* However many messages and readings there are and in whatever order the  *)
(* events, the readers and the timers run: the list shows no message twice *)
(* and none out of order, and ends up as the file, the spinner stopped.    *)
THEOREM ListIsRight == FormSpec => []ListRight
BY FormInitHolds, FormStepKeeps, ShowsTheLog, PTL DEF FormSpec
===============================================================================
