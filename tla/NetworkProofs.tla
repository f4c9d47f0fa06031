---------------------------- MODULE NetworkProofs ----------------------------
(***************************************************************************)
(* What the network classes promise, for every value of the constants: the *)
(* order of what DTcpServer sends, the datagrams and answers of DUdpServer,*)
(* and the answers a careful client of DRESTClient gets.  Each part has an *)
(* inductive invariant of its own.                                         *)
(***************************************************************************)
EXTENDS DTcpServer, DUdpServer, DRESTClient, TLAPS, FiniteSetTheorems

-----------------------------------------------------------------------------
(* DTcpServer.  SentInOrder says nothing of a connection that has failed or*)
(* is dead, and both could come back to life in a next step if nothing else*)
(* were known: one that failed is closed, and no write of it succeeds; one *)
(* that is dead, or not accepted yet, writes nothing and is held by no one.*)

Idle == {"new", "accepting", "dead"}
Timers == {"off", "armed", "due"}

Connection ==
  [stage : Idle \cup {"open"}, held : BOOLEAN, reading : BOOLEAN, gone : BOOLEAN,
   data : Nat, waiting : Seq(Nat), buffer_seq_ : Seq(Nat), wire : Seq(Nat),
   given : Nat, failed : BOOLEAN, closing_ : BOOLEAN, closed_ : BOOLEAN,
   read_timer : Timers, write_timer : Timers, leaked : BOOLEAN]

(* The numbers of s follow m.                                              *)
Follows(s, m) == \A i \in 1..Len(s) : s[i] = m + i

Whole(k) ==
  /\ Follows(k.buffer_seq_, Len(k.wire))
  /\ Follows(k.waiting, Len(k.wire) + Len(k.buffer_seq_))
  /\ k.given = Len(k.wire) + Len(k.buffer_seq_) + Len(k.waiting)

Sound(k) ==
  /\ k \in Connection
  /\ Follows(k.wire, 0) /\ Len(k.wire) <= k.given
  /\ ~k.failed /\ k.stage # "dead" => Whole(k)
  /\ k.failed => k.closed_
  /\ k.stage \in Idle => ~k.held /\ k.buffer_seq_ = <<>>

(* A connection that is made later is still as Init left it.               *)
TcpInv ==
  /\ conn \in [IDs -> Connection]
  /\ \A c \in IDs : Sound(conn[c])
  /\ LastConnectionID \in Nat
  /\ \A c \in IDs : c > LastConnectionID => conn[c].stage = "new"

-----------------------------------------------------------------------------
(* Numbers in sequences.                                                   *)

LEMMA LenType ==
  ASSUME NEW s \in Seq(Nat)
  PROVE  Len(s) \in Nat
OBVIOUS

LEMMA SumType ==
  ASSUME NEW s \in Seq(Nat), NEW t \in Seq(Nat)
  PROVE  Len(s) + Len(t) \in Nat
<1> QED BY LenType

LEMMA LensAdd ==
  ASSUME NEW a \in Nat, NEW b \in Nat, NEW x \in Nat, NEW n, NEW p \in 0..b,
         n = a + b + x
  PROVE  a + p <= n
OBVIOUS

LEMMA JoinedFollow ==
  ASSUME NEW s \in Seq(Nat), NEW t \in Seq(Nat), NEW m \in Nat,
         Follows(s, m), Follows(t, m + Len(s))
  PROVE  /\ s \o t \in Seq(Nat) /\ Len(s \o t) = Len(s) + Len(t)
         /\ Follows(s \o t, m)
<1>1. s \o t \in Seq(Nat) /\ Len(s \o t) = Len(s) + Len(t)
    OBVIOUS
<1>2. ASSUME NEW i \in 1..Len(s \o t) PROVE (s \o t)[i] = m + i
    <2>1. CASE i <= Len(s) BY <1>1, <2>1 DEF Follows
    <2>2. CASE i > Len(s)
        <3>1. (s \o t)[i] = t[i - Len(s)] /\ i - Len(s) \in 1..Len(t)
            BY <1>1, <2>2
        <3> QED BY <2>2, <3>1 DEF Follows
    <2> QED BY <1>1, <2>1, <2>2
<1> QED BY <1>1, <1>2 DEF Follows

LEMMA NextFollows ==
  ASSUME NEW s \in Seq(Nat), NEW m \in Nat, Follows(s, m)
  PROVE  /\ Append(s, m + Len(s) + 1) \in Seq(Nat)
         /\ Len(Append(s, m + Len(s) + 1)) = Len(s) + 1
         /\ Follows(Append(s, m + Len(s) + 1), m)
BY DEF Follows

LEMMA PartFollows ==
  ASSUME NEW s \in Seq(Nat), NEW m \in Nat, Follows(s, m), NEW p \in 0..Len(s)
  PROVE  /\ SubSeq(s, 1, p) \in Seq(Nat) /\ Len(SubSeq(s, 1, p)) = p
         /\ Follows(SubSeq(s, 1, p), m)
BY DEF Follows

LEMMA AllNumbers ==
  ASSUME NEW s \in Seq(Nat), NEW n \in Nat, Follows(s, 0), Len(s) <= n
  PROVE  /\ IsPrefix(s, Numbers(n))
         /\ Len(s) = n => s = Numbers(n)
<1>1. Numbers(n) \in Seq(Nat) /\ Len(Numbers(n)) = n
    BY DEF Numbers
<1>2. \A i \in 1..Len(s) : s[i] = Numbers(n)[i]
    BY DEF Numbers, Follows
<1>3. SubSeq(s, 1, Len(s)) = SubSeq(Numbers(n), 1, Len(s))
    BY <1>1, <1>2
<1> QED BY <1>1, <1>2, <1>3 DEF IsPrefix

-----------------------------------------------------------------------------
(* What the parts of a handler leave of a connection.                      *)

(* Changes that the property does not see.                                 *)
Alike(k, n) ==
  /\ n \in Connection
  /\ n.waiting = k.waiting /\ n.buffer_seq_ = k.buffer_seq_ /\ n.wire = k.wire
  /\ n.given = k.given /\ n.failed = k.failed

LEMMA AlikeSound ==
  ASSUME NEW k, NEW n, Sound(k), Alike(k, n),
         n.stage = k.stage, n.held => k.held, k.closed_ => n.closed_
  PROVE  Sound(n)
BY DEF Sound, Alike, Whole

LEMMA LiveSound ==
  ASSUME NEW c, NEW k, NEW active, Sound(k)
  PROVE  /\ Sound(Live(c, k, active))
         /\ Live(c, k, active).stage = k.stage \/ k.stage # "new"
<1>1. CASE k.stage = "new" \/ Referred(c, k, active)
    BY <1>1 DEF Live
<1>2. CASE ~(k.stage = "new" \/ Referred(c, k, active))
    <2>1. PICK n : n = [k EXCEPT !.stage = "dead",
                 !.read_timer = IF @ = "due" THEN "due" ELSE "off",
                 !.write_timer = IF @ = "due" THEN "due" ELSE "off"]
        OBVIOUS
    <2>2. Live(c, k, active) = n
        BY <1>2, <2>1, Zenon DEF Live
    <2>3. k \in Connection BY DEF Sound
    <2>4. n \in Connection BY <2>1, <2>3 DEF Connection, Idle, Timers
    <2>5. /\ n.stage = "dead" /\ n.wire = k.wire /\ n.given = k.given
          /\ n.failed = k.failed /\ n.closed_ = k.closed_ /\ n.held = k.held
          /\ n.buffer_seq_ = k.buffer_seq_
        BY <2>1, <2>3 DEF Connection
    <2>6. ~k.held /\ k.buffer_seq_ = <<>> BY <1>2 DEF Referred, IsWriting
    <2> QED BY <1>2, <2>2, <2>4, <2>5, <2>6 DEF Sound
<1> QED BY <1>1, <1>2

LEMMA ArmedType ==
  ASSUME NEW t \in Timers, NEW sec
  PROVE  Armed(t, sec) \in Timers
BY DEF Armed, Timers

LEMMA DoReadSound ==
  ASSUME NEW k, Sound(k)
  PROVE  Sound(DoRead(k)) /\ DoRead(k).stage = k.stage
<1>1. PICK t : t = Armed(k.read_timer, ReadTimeoutSec) /\ t \in Timers
    BY ArmedType DEF Sound, Connection
<1>2. PICK n : n = [k EXCEPT !.reading = TRUE, !.read_timer = t]
    OBVIOUS
<1>3. DoRead(k) = n BY <1>1, <1>2, Zenon DEF DoRead
<1>4. /\ Alike(k, n) /\ n.stage = k.stage /\ n.held = k.held
      /\ n.closed_ = k.closed_
    BY <1>1, <1>2 DEF Alike, Sound, Connection
<1> QED BY <1>3, <1>4, AlikeSound

LEMMA DoWriteSound ==
  ASSUME NEW k, Sound(k), k.stage = "open", ~IsWriting(k)
  PROVE  Sound(DoWrite(k)) /\ DoWrite(k).stage = "open"
<1>1. PICK t : t = Armed(k.write_timer, WriteTimeoutSec) /\ t \in Timers
    BY ArmedType DEF Sound, Connection
<1>2. PICK n : n = [k EXCEPT !.buffer_seq_ = k.waiting, !.waiting = <<>>,
                             !.write_timer = t]
    OBVIOUS
<1>3. DoWrite(k) = n BY <1>1, <1>2, Zenon DEF DoWrite
<1>4. k \in Connection /\ k.buffer_seq_ = <<>> BY DEF Sound, IsWriting
<1>5. n \in Connection BY <1>1, <1>2, <1>4 DEF Connection
<1>6. /\ n.stage = k.stage /\ n.held = k.held /\ n.closed_ = k.closed_
      /\ n.wire = k.wire /\ n.given = k.given /\ n.failed = k.failed
      /\ n.buffer_seq_ = k.waiting /\ n.waiting = <<>>
    BY <1>2, <1>4 DEF Connection
<1>7. Whole(k) => Whole(n)
    BY <1>4, <1>5, <1>6 DEF Whole, Follows, Connection
<1> QED BY <1>3, <1>5, <1>6, <1>7 DEF Sound, Idle

LEMMA WrittenAlike ==
  ASSUME NEW q, q \in Connection
  PROVE  \E p \in Connection :
           /\ p = Written(q) /\ p.stage = q.stage /\ p.held = q.held
           /\ p.closed_ = q.closed_ /\ p.failed = q.failed /\ p.wire = q.wire
           /\ p.buffer_seq_ = <<>> /\ p.waiting = q.waiting /\ p.given = q.given
<1>1. PICK t : t = IF q.write_timer = "due" THEN "due" ELSE "off"
    OBVIOUS
<1>2. PICK e : e = <<>> /\ e \in Seq(Nat)
    <2>1. <<>> \in Seq(Nat) OBVIOUS
    <2> QED BY <2>1
<1>3. PICK p : p = [q EXCEPT !.buffer_seq_ = e, !.write_timer = t]
    OBVIOUS
<1>4. p = Written(q) BY <1>1, <1>2, <1>3, Zenon DEF Written
<1>5. t \in Timers BY <1>1 DEF Timers
<1>6. /\ p \in Connection /\ p.stage = q.stage /\ p.held = q.held
      /\ p.closed_ = q.closed_ /\ p.failed = q.failed /\ p.wire = q.wire
      /\ p.buffer_seq_ = e /\ p.waiting = q.waiting /\ p.given = q.given
    <2>1. e \in Seq(Nat) BY <1>2
    <2> QED BY <1>3, <1>5, <2>1 DEF Connection
<1> QED BY <1>2, <1>4, <1>6

LEMMA ShutdownSound ==
  ASSUME NEW c, NEW k, Sound(k)
  PROVE  /\ Sound(Shutdown(c, k)[1]) /\ Shutdown(c, k)[1].stage = k.stage
         /\ Shutdown(c, k)[1].closed_
<1>1. CASE k.closed_ BY <1>1 DEF Shutdown
<1>2. CASE ~k.closed_
    <2>1. PICK n : n = [k EXCEPT !.closing_ = TRUE, !.closed_ = TRUE]
        OBVIOUS
    <2>2. Shutdown(c, k)[1] = n BY <1>2, <2>1 DEF Shutdown
    <2>3. /\ Alike(k, n) /\ n.stage = k.stage /\ n.held = k.held /\ n.closed_
        BY <2>1 DEF Alike, Sound, Connection
    <2> QED BY <2>2, <2>3, AlikeSound
<1> QED BY <1>1, <1>2

(* One whose write failed and is being closed.                             *)
LEMMA FailedSound ==
  ASSUME NEW c, NEW k, k \in Connection, k.stage = "open", k.failed,
         k.buffer_seq_ = <<>>, Follows(k.wire, 0), Len(k.wire) <= k.given
  PROVE  Sound(Close(c, k)[1]) /\ Close(c, k)[1].stage = k.stage
<1>1. PICK n : n = [k EXCEPT !.closing_ = TRUE]
    OBVIOUS
<1>2. Close(c, k)[1] = Shutdown(c, n)[1]
    BY <1>1 DEF Close, IsWriting
<1>3. PICK m : m = Shutdown(c, n)[1]
    OBVIOUS
<1>4. n \in Connection BY <1>1 DEF Connection
<1>5. \/ m = n /\ n.closed_
      \/ m = [n EXCEPT !.closing_ = TRUE, !.closed_ = TRUE]
    BY <1>3 DEF Shutdown
<1>6. /\ m \in Connection /\ m.closed_ /\ m.failed /\ m.stage = "open"
      /\ m.wire = k.wire /\ m.given = k.given
    <2>1. /\ n.failed /\ n.stage = "open" /\ n.wire = k.wire /\ n.given = k.given
        BY <1>1 DEF Connection
    <2>2. CASE m = n /\ n.closed_ BY <1>4, <2>1, <2>2
    <2>3. CASE m = [n EXCEPT !.closing_ = TRUE, !.closed_ = TRUE]
        BY <1>4, <2>1, <2>3 DEF Connection
    <2> QED BY <1>5, <2>2, <2>3
<1> QED BY <1>2, <1>3, <1>6 DEF Sound, Idle

LEMMA CloseSound ==
  ASSUME NEW c, NEW k, Sound(k)
  PROVE  /\ Sound(Close(c, k)[1]) /\ Close(c, k)[1].stage = k.stage
         /\ ~IsWriting(k) => Close(c, k)[1].closed_
<1>1. CASE ~IsWriting(k)
    <2>1. PICK n : n = [k EXCEPT !.closing_ = TRUE]
        OBVIOUS
    <2>2. Close(c, k)[1] = Shutdown(c, n)[1] BY <1>1, <2>1 DEF Close
    <2>3. /\ Alike(k, n) /\ n.stage = k.stage /\ n.held = k.held
          /\ n.closed_ = k.closed_
        BY <2>1 DEF Alike, Sound, Connection
    <2> QED BY <2>2, <2>3, AlikeSound, ShutdownSound
<1>2. CASE IsWriting(k)
    <2>1. PICK n : n = [k EXCEPT !.closing_ = TRUE, !.leaked = k.read_timer = "off"]
        OBVIOUS
    <2>2. Close(c, k)[1] = n BY <1>2, <2>1 DEF Close
    <2>3. /\ Alike(k, n) /\ n.stage = k.stage /\ n.held = k.held
          /\ n.closed_ = k.closed_
        BY <2>1 DEF Alike, Sound, Connection
    <2> QED BY <1>2, <2>2, <2>3, AlikeSound
<1> QED BY <1>1, <1>2

-----------------------------------------------------------------------------
(* The first states have the invariant.                                    *)
LEMMA TcpInitHolds == TcpInit => TcpInv
<1> SUFFICES ASSUME TcpInit PROVE TcpInv
    OBVIOUS
<1>1. NewConnection \in Connection
    BY DEF NewConnection, Connection, Idle, Timers
<1>2. Sound(NewConnection)
    BY <1>1 DEF Sound, NewConnection, Whole, Follows, Idle
<1> QED BY <1>1, <1>2 DEF TcpInit, TcpInv, NewConnection

(* A handler leaves its connection as k.                                   *)
LEMMA BecomesKeeps ==
  ASSUME TcpInv, NEW c \in IDs, NEW k, NEW active, Sound(k),
         k.stage = conn[c].stage, Becomes(c, k, active), UNCHANGED server
  PROVE  TcpInv'
<1>1. PICK n : n = Live(c, k, active)
    OBVIOUS
<1>2. Sound(n) /\ n \in Connection /\ (n.stage = k.stage \/ k.stage # "new")
    BY <1>1, LiveSound DEF Sound
<1>3. conn' = [conn EXCEPT ![c] = n] BY <1>1 DEF Becomes
<1>4. conn' \in [IDs -> Connection] /\ conn'[c] = n
      /\ \A d \in IDs : d # c => conn'[d] = conn[d]
    BY <1>2, <1>3 DEF TcpInv
<1> QED BY <1>2, <1>4 DEF TcpInv, server

LEMMA ReadDataKeeps ==
  ASSUME TcpInv, NEW c \in IDs, ReadData(c) PROVE TcpInv'
<1>a. PICK d : d = conn[c].data + 1
    OBVIOUS
<1>1. PICK k : k = [conn[c] EXCEPT !.data = d]
    OBVIOUS
<1>2. Sound(conn[c]) BY DEF TcpInv
<1>b. d \in Nat BY <1>2, <1>a DEF Sound, Connection
<1>3. Alike(conn[c], k) /\ k.stage = conn[c].stage /\ k.held = conn[c].held
      /\ k.closed_ = conn[c].closed_
    BY <1>1, <1>2, <1>b DEF Alike, Sound, Connection
<1>4. Sound(k) BY <1>2, <1>3, AlikeSound
<1>5. Becomes(c, DoRead(k), active_connections_) /\ UNCHANGED server
    BY <1>1, <1>a DEF ReadData
<1> QED BY <1>3, <1>4, <1>5, DoReadSound, BecomesKeeps

LEMMA ReadErrorKeeps ==
  ASSUME TcpInv, NEW c \in IDs, ReadError(c) PROVE TcpInv'
<1>1. PICK k : k = [conn[c] EXCEPT !.reading = FALSE]
    OBVIOUS
<1>2. Sound(conn[c]) BY DEF TcpInv
<1>3. Alike(conn[c], k) /\ k.stage = conn[c].stage /\ k.held = conn[c].held
      /\ k.closed_ = conn[c].closed_
    BY <1>1, <1>2 DEF Alike, Sound, Connection
<1>4. Sound(k) BY <1>2, <1>3, AlikeSound
<1>5. Becomes(c, Close(c, k)[1], Close(c, k)[2]) /\ UNCHANGED server
    BY <1>1 DEF ReadError
<1> QED BY <1>3, <1>4, <1>5, CloseSound, BecomesKeeps

(* The message takes its place behind what waits.                          *)
LEMMA WriteKeeps ==
  ASSUME TcpInv, NEW c \in IDs, Write(c) PROVE TcpInv'
<1>q. PICK q : q = conn[c]
    OBVIOUS
<1>1. Sound(q) /\ q.held /\ q.stage = "open" /\ q \in Connection
    BY <1>q DEF TcpInv, Write, Sound, Idle, Connection
<1>a. /\ q.waiting \in Seq(Nat) /\ q.wire \in Seq(Nat)
      /\ q.buffer_seq_ \in Seq(Nat) /\ q.given \in Nat
    BY <1>1 DEF Connection
<1>b. PICK g, w : g = q.given + 1 /\ w = Append(q.waiting, q.given + 1)
    OBVIOUS
<1>2. PICK k : k = [q EXCEPT !.given = g, !.waiting = w]
    OBVIOUS
<1>c. g \in Nat /\ w \in Seq(Nat) /\ Len(w) = Len(q.waiting) + 1
    BY <1>a, <1>b
<1>3. /\ k \in Connection /\ k.stage = q.stage /\ k.held = q.held
      /\ k.closed_ = q.closed_ /\ k.failed = q.failed /\ k.wire = q.wire
      /\ k.buffer_seq_ = q.buffer_seq_ /\ k.given = g /\ k.waiting = w
    BY <1>1, <1>2, <1>c DEF Connection
<1>4. Whole(q) => Whole(k)
    <2>1. SUFFICES ASSUME Whole(q) PROVE Whole(k)
        OBVIOUS
    <2>2. PICK m : m = Len(q.wire) + Len(q.buffer_seq_)
        OBVIOUS
    <2>3. m \in Nat /\ Len(q.waiting) \in Nat
        BY <1>a, <2>2, LenType, SumType
    <2>4. Follows(q.waiting, m) /\ q.given + 1 = m + Len(q.waiting) + 1
        BY <1>a, <2>1, <2>2, <2>3 DEF Whole
    <2>5. Follows(w, m) BY <1>a, <1>b, <2>3, <2>4, NextFollows
    <2>6. g = m + Len(w) BY <1>b, <1>c, <2>3, <2>4
    <2>7. Follows(k.buffer_seq_, Len(k.wire)) BY <1>3, <2>1 DEF Whole
    <2> QED BY <1>3, <2>2, <2>5, <2>6, <2>7 DEF Whole
<1>5. Sound(k)
    <2>1. Len(k.wire) <= k.given BY <1>1, <1>3, <1>a, <1>b DEF Sound
    <2> QED BY <1>1, <1>3, <1>4, <2>1 DEF Sound, Idle
<1>6. Becomes(c, IF IsWriting(k) THEN k ELSE DoWrite(k), active_connections_)
      /\ UNCHANGED server
    BY <1>2, <1>b, <1>q DEF Write
<1>7. CASE IsWriting(k) BY <1>3, <1>5, <1>6, <1>7, <1>q, BecomesKeeps
<1>8. CASE ~IsWriting(k)
    BY <1>1, <1>3, <1>5, <1>6, <1>8, <1>q, DoWriteSound, BecomesKeeps
<1> QED BY <1>7, <1>8

(* What has been written is behind what the client has, and before what    *)
(* waits.                                                                  *)
LEMMA WriteDoneKeeps ==
  ASSUME TcpInv, NEW c \in IDs, WriteDone(c) PROVE TcpInv'
<1>q. PICK q : q = conn[c]
    OBVIOUS
<1>1. /\ Sound(q) /\ q.stage = "open" /\ q \in Connection /\ ~q.failed
      /\ q.buffer_seq_ # <<>>
    BY <1>q DEF TcpInv, WriteDone, IsWriting, Sound, Idle, Connection
<1>3. PICK w : w = q.wire \o q.buffer_seq_
    OBVIOUS
<1>4. PICK p \in Connection :
           /\ p = Written(q) /\ p.stage = q.stage /\ p.held = q.held
           /\ p.closed_ = q.closed_ /\ p.failed = q.failed /\ p.wire = q.wire
           /\ p.buffer_seq_ = <<>> /\ p.waiting = q.waiting /\ p.given = q.given
    BY <1>1, WrittenAlike
<1>2. PICK k : k = [p EXCEPT !.wire = w]
    OBVIOUS
<1>5. /\ q.waiting \in Seq(Nat) /\ q.wire \in Seq(Nat)
      /\ q.buffer_seq_ \in Seq(Nat) /\ q.given \in Nat
    BY <1>1 DEF Connection
<1>6. Whole(q) BY <1>1 DEF Sound
<1>7. w \in Seq(Nat) /\ Len(w) = Len(q.wire) + Len(q.buffer_seq_) /\ Follows(w, 0)
    <2>1. Len(q.wire) \in Nat /\ 0 + Len(q.wire) = Len(q.wire) BY <1>5
    <2>2. Follows(q.wire, 0) /\ Follows(q.buffer_seq_, 0 + Len(q.wire))
        BY <1>1, <1>6, <2>1 DEF Sound, Whole
    <2> QED BY <1>3, <1>5, <2>2, JoinedFollow
<1>8. /\ k \in Connection /\ k.stage = q.stage /\ k.held = q.held
      /\ k.closed_ = q.closed_ /\ k.failed = q.failed
      /\ k.wire = w /\ k.buffer_seq_ = <<>>
      /\ k.waiting = q.waiting /\ k.given = q.given
    BY <1>2, <1>4, <1>7 DEF Connection
<1>9. Sound(k)
    <2>1. Len(w) + 0 = Len(w) /\ Len(w) \in Nat /\ Len(q.waiting) \in Nat
        <3>1. Len(w) \in Nat /\ Len(q.waiting) \in Nat BY <1>5, <1>7, LenType
        <3> QED BY <3>1
    <2>2. Follows(q.waiting, Len(w)) /\ q.given = Len(w) + Len(q.waiting)
        BY <1>6, <1>7 DEF Whole
    <2>3. Follows(<<>>, Len(w)) /\ Len(<<>>) = 0
        BY DEF Follows
    <2>4. Whole(k)
        BY <1>8, <2>1, <2>2, <2>3 DEF Whole
    <2>5. Len(w) <= q.given BY <1>5, <2>1, <2>2
    <2> QED BY <1>1, <1>7, <1>8, <2>4, <2>5 DEF Sound, Idle
<1>10. Becomes(c, IF k.waiting = <<>> THEN k ELSE DoWrite(k), active_connections_)
       /\ UNCHANGED server
    BY <1>q, <1>2, <1>3, <1>4 DEF WriteDone
<1>11. CASE k.waiting = <<>> BY <1>8, <1>9, <1>10, <1>11, <1>q, BecomesKeeps
<1>12. CASE k.waiting # <<>>
    BY <1>1, <1>8, <1>9, <1>10, <1>12, <1>q, DoWriteSound, BecomesKeeps DEF IsWriting
<1> QED BY <1>11, <1>12

(* A write that fails has sent a part; the connection is closed.           *)
LEMMA WriteErrorKeeps ==
  ASSUME TcpInv, NEW c \in IDs, WriteError(c) PROVE TcpInv'
<1>q. PICK q : q = conn[c]
    OBVIOUS
<1>1. /\ Sound(q) /\ q.stage = "open" /\ q \in Connection
      /\ q.buffer_seq_ # <<>>
    BY <1>q DEF TcpInv, WriteError, IsWriting, Sound, Idle, Connection
<1>5. PICK p \in Connection :
           /\ p = Written(q) /\ p.stage = q.stage /\ p.held = q.held
           /\ p.closed_ = q.closed_ /\ p.failed = q.failed /\ p.wire = q.wire
           /\ p.buffer_seq_ = <<>> /\ p.waiting = q.waiting /\ p.given = q.given
    BY <1>1, WrittenAlike
<1>6. PICK part \in 0..Len(q.buffer_seq_) :
        LET k == [p EXCEPT !.failed = TRUE,
                           !.wire = IF q.failed THEN @
                                    ELSE @ \o SubSeq(q.buffer_seq_, 1, part)]
        IN  Becomes(c, Close(c, k)[1], Close(c, k)[2]) /\ UNCHANGED server
    BY <1>q, <1>5 DEF WriteError
<1>7. PICK w : w = IF q.failed THEN q.wire
                   ELSE q.wire \o SubSeq(q.buffer_seq_, 1, part)
    OBVIOUS
<1>8. PICK k : k = [p EXCEPT !.failed = TRUE, !.wire = w]
    OBVIOUS
<1>9. Becomes(c, Close(c, k)[1], Close(c, k)[2]) /\ UNCHANGED server
    BY <1>5, <1>6, <1>7, <1>8
<1>10. /\ q.waiting \in Seq(Nat) /\ q.wire \in Seq(Nat)
       /\ q.buffer_seq_ \in Seq(Nat) /\ q.given \in Nat
    BY <1>1 DEF Connection
<1>11. w \in Seq(Nat) /\ Follows(w, 0) /\ Len(w) <= q.given
    <2>1. CASE q.failed BY <1>1, <1>7, <1>10, <2>1 DEF Sound
    <2>2. CASE ~q.failed
        <3>1. PICK x : x = SubSeq(q.buffer_seq_, 1, part)
            OBVIOUS
        <3>2. /\ Len(q.wire) \in Nat /\ Len(q.buffer_seq_) \in Nat
              /\ Len(q.waiting) \in Nat /\ 0 + Len(q.wire) = Len(q.wire)
            BY <1>10, LenType
        <3>3. /\ Follows(q.wire, 0) /\ Follows(q.buffer_seq_, 0 + Len(q.wire))
              /\ q.given = Len(q.wire) + Len(q.buffer_seq_) + Len(q.waiting)
            BY <1>1, <2>2, <3>2 DEF Sound, Whole
        <3>4. x \in Seq(Nat) /\ Len(x) = part /\ Follows(x, 0 + Len(q.wire))
            BY <1>10, <3>1, <3>2, <3>3, PartFollows
        <3>5. /\ w = q.wire \o x /\ w \in Seq(Nat) /\ Len(w) = Len(q.wire) + Len(x)
              /\ Follows(w, 0)
            BY <1>7, <1>10, <2>2, <3>1, <3>3, <3>4, JoinedFollow
        <3>6. Len(q.wire) + part <= q.given
            BY <3>2, <3>3, LensAdd
        <3> QED BY <3>4, <3>5, <3>6
    <2> QED BY <2>1, <2>2
<1>12. /\ k \in Connection /\ k.stage = q.stage /\ k.held = q.held
       /\ k.closed_ = q.closed_ /\ k.failed /\ k.wire = w
       /\ k.buffer_seq_ = <<>> /\ k.waiting = q.waiting /\ k.given = q.given
    BY <1>5, <1>8, <1>11 DEF Connection
<1> QED BY <1>1, <1>9, <1>11, <1>12, <1>q, FailedSound, BecomesKeeps

LEMMA ExpiresKeeps ==
  ASSUME TcpInv, NEW c \in IDs, Expires(c) PROVE TcpInv'
<1>1. Sound(conn[c]) BY DEF TcpInv
<1>2. PICK k : /\ k = [conn[c] EXCEPT !.read_timer = "due"]
                  \/ k = [conn[c] EXCEPT !.write_timer = "due"]
               /\ Becomes(c, k, active_connections_) /\ UNCHANGED server
    BY DEF Expires
<1>3. Alike(conn[c], k) /\ k.stage = conn[c].stage /\ k.held = conn[c].held
      /\ k.closed_ = conn[c].closed_
    BY <1>1, <1>2 DEF Alike, Sound, Connection, Timers
<1> QED BY <1>1, <1>2, <1>3, AlikeSound, BecomesKeeps

LEMMA TimerFiresKeeps ==
  ASSUME TcpInv, NEW c \in IDs, TimerFires(c) PROVE TcpInv'
<1>1. Sound(conn[c]) BY DEF TcpInv
<1>2. PICK k : /\ k = [conn[c] EXCEPT !.read_timer = "off"]
                  \/ k = [conn[c] EXCEPT !.write_timer = "off"]
               /\ Becomes(c, Shutdown(c, k)[1], Shutdown(c, k)[2])
               /\ UNCHANGED server
    BY DEF TimerFires
<1>3. Alike(conn[c], k) /\ k.stage = conn[c].stage /\ k.held = conn[c].held
      /\ k.closed_ = conn[c].closed_
    BY <1>1, <1>2 DEF Alike, Sound, Connection, Timers
<1> QED BY <1>1, <1>2, <1>3, AlikeSound, ShutdownSound, BecomesKeeps

LEMMA ReleaseKeeps ==
  ASSUME TcpInv, NEW c \in IDs, Release(c) PROVE TcpInv'
<1>1. Sound(conn[c]) BY DEF TcpInv
<1>2. PICK k : k = [conn[c] EXCEPT !.held = FALSE]
    OBVIOUS
<1>3. Alike(conn[c], k) /\ k.stage = conn[c].stage /\ ~k.held
      /\ k.closed_ = conn[c].closed_
    BY <1>1, <1>2 DEF Alike, Sound, Connection
<1>4. Becomes(c, k, active_connections_) /\ UNCHANGED server
    BY <1>2 DEF Release
<1> QED BY <1>1, <1>3, <1>4, AlikeSound, BecomesKeeps

LEMMA LeavesKeeps ==
  ASSUME TcpInv, NEW c \in IDs, Leaves(c) PROVE TcpInv'
<1>1. Sound(conn[c]) BY DEF TcpInv
<1>2. PICK k : k = [conn[c] EXCEPT !.gone = TRUE]
    OBVIOUS
<1>3. Alike(conn[c], k) /\ k.stage = conn[c].stage /\ k.held = conn[c].held
      /\ k.closed_ = conn[c].closed_
    BY <1>1, <1>2 DEF Alike, Sound, Connection
<1>4. Sound(k) /\ k \in Connection BY <1>1, <1>3, AlikeSound DEF Sound
<1>5. conn' = [conn EXCEPT ![c] = k] BY <1>2 DEF Leaves
<1> QED BY <1>3, <1>4, <1>5 DEF TcpInv, Leaves, server

(* The next connection waits for its client.                               *)
LEMMA DoAcceptKeeps ==
  ASSUME TcpInv, NEW conns, conns \in [IDs -> Connection],
         \A c \in IDs : Sound(conns[c]),
         \A c \in IDs : c > LastConnectionID => conns[c].stage = "new",
         DoAccept(conns)
  PROVE  TcpInv'
<1>1. LastConnectionID \in Nat BY DEF TcpInv
<1>2. CASE conn' = conns /\ UNCHANGED LastConnectionID
    BY <1>1, <1>2 DEF TcpInv
<1>3. CASE /\ LastConnectionID' = LastConnectionID + 1
           /\ conn' = [conns EXCEPT ![LastConnectionID'].stage = "accepting"]
    <2>1. PICK n : n = LastConnectionID + 1 /\ n \in Nat
        BY <1>1
    <2>2. conn' = [conns EXCEPT ![n].stage = "accepting"] BY <1>3, <2>1
    <2>3. ASSUME n \in IDs
          PROVE  /\ conn'[n] \in Connection /\ Sound(conn'[n])
                 /\ conn' = [conns EXCEPT ![n] = conn'[n]]
        <3>1. PICK k : k = conns[n]
            OBVIOUS
        <3>2. Sound(k) /\ k \in Connection /\ k.stage = "new"
            BY <1>1, <2>1, <2>3, <3>1 DEF Sound
        <3>3. PICK m : m = [k EXCEPT !.stage = "accepting"]
            OBVIOUS
        <3>4. /\ Alike(k, m) /\ m.stage = "accepting" /\ m.held = k.held
              /\ m.closed_ = k.closed_ /\ m \in Connection
            BY <3>2, <3>3 DEF Alike, Connection, Idle
        <3>5. Sound(m)
            BY <3>2, <3>4 DEF Sound, Alike, Whole, Idle
        <3>6. conn' = [conns EXCEPT ![n] = m] BY <2>2, <3>1, <3>3
        <3>7. conn'[n] = m BY <2>3, <3>6
        <3> QED BY <3>4, <3>5, <3>6, <3>7
    <2>4. ASSUME n \notin IDs PROVE conn' = conns
        BY <2>2, <2>4
    <2>5. /\ conn' \in [IDs -> Connection]
          /\ \A c \in IDs : c # n => conn'[c] = conns[c]
        <3>1. CASE n \in IDs BY <2>3, <3>1
        <3>2. CASE n \notin IDs BY <2>4, <3>2
        <3> QED BY <3>1, <3>2
    <2>6. \A c \in IDs : c > n => conn'[c].stage = "new"
        <3>1. \A c \in IDs : c > n => c # n /\ c > LastConnectionID
            BY <1>1, <2>1 DEF IDs
        <3> QED BY <2>5, <3>1
    <2>7. \A c \in IDs : Sound(conn'[c]) BY <2>3, <2>5
    <2> QED BY <1>3, <2>1, <2>5, <2>6, <2>7 DEF TcpInv
<1> QED BY <1>2, <1>3 DEF DoAccept

LEMMA AcceptedKeeps ==
  ASSUME TcpInv, NEW c \in IDs, Accepted(c) PROVE TcpInv'
<1>1. PICK k : k = [conn[c] EXCEPT !.stage = "open", !.held = TRUE]
    OBVIOUS
<1>2. PICK q : q = conn[c] /\ Sound(q) /\ q \in Connection /\ q.stage = "accepting"
    BY DEF TcpInv, Accepted
<1>3. /\ k \in Connection /\ k.stage = "open" /\ k.waiting = q.waiting
      /\ k.buffer_seq_ = q.buffer_seq_ /\ k.wire = q.wire /\ k.given = q.given
      /\ k.failed = q.failed /\ k.closed_ = q.closed_
    BY <1>1, <1>2 DEF Connection
<1>4. Sound(k) BY <1>2, <1>3 DEF Sound, Whole, Idle
<1>5. PICK n : n = DoRead(k) /\ Sound(n) /\ n \in Connection /\ n.stage = "open"
    BY <1>3, <1>4, DoReadSound DEF Sound
<1>6. PICK conns : conns = [conn EXCEPT ![c] = n]
    OBVIOUS
<1>7. DoAccept(conns) BY <1>1, <1>5, <1>6 DEF Accepted
<1>8. /\ conns \in [IDs -> Connection]
      /\ \A d \in IDs : Sound(conns[d])
      /\ \A d \in IDs : d > LastConnectionID => conns[d].stage = "new"
    BY <1>2, <1>5, <1>6 DEF TcpInv
<1> QED BY <1>7, <1>8, DoAcceptKeeps

LEMMA AcceptFailsKeeps ==
  ASSUME TcpInv, NEW c \in IDs, AcceptFails(c) PROVE TcpInv'
<1>1. PICK n : n = [conn[c] EXCEPT !.stage = "dead"]
    OBVIOUS
<1>2. PICK q : q = conn[c] /\ Sound(q) /\ q \in Connection /\ q.stage = "accepting"
    BY DEF TcpInv, AcceptFails
<1>3. /\ n \in Connection /\ n.stage = "dead" /\ n.held = q.held
      /\ n.buffer_seq_ = q.buffer_seq_ /\ n.wire = q.wire /\ n.given = q.given
      /\ n.failed = q.failed /\ n.closed_ = q.closed_
    BY <1>1, <1>2 DEF Connection, Idle
<1>4. Sound(n) BY <1>2, <1>3 DEF Sound, Idle
<1>6. PICK conns : conns = [conn EXCEPT ![c] = n]
    OBVIOUS
<1>7. DoAccept(conns) BY <1>1, <1>6 DEF AcceptFails
<1>8. /\ conns \in [IDs -> Connection]
      /\ \A d \in IDs : Sound(conns[d])
      /\ \A d \in IDs : d > LastConnectionID => conns[d].stage = "new"
    BY <1>2, <1>3, <1>4, <1>6 DEF TcpInv
<1> QED BY <1>7, <1>8, DoAcceptKeeps

(* Stop shuts down what is active, and the end of the server what is left. *)
LEMMA StopKeeps == TcpInv /\ Stop => TcpInv'
<1> SUFFICES ASSUME TcpInv, Stop PROVE TcpInv'
    OBVIOUS
<1>1. ASSUME NEW c \in IDs
      PROVE  Sound(conn'[c]) /\ (conn[c].stage = "new" => conn'[c].stage = "new")
    <2>1. Sound(conn[c]) BY DEF TcpInv
    <2>2. CASE c \in active_connections_
        <3>1. PICK k : k = [conn[c] EXCEPT !.closing_ = TRUE, !.closed_ = TRUE]
            OBVIOUS
        <3>2. conn'[c] = Live(c, k, {}) BY <2>2, <3>1 DEF Stop
        <3>3. /\ Alike(conn[c], k) /\ k.stage = conn[c].stage
              /\ k.held = conn[c].held /\ k.closed_
            BY <2>1, <3>1 DEF Alike, Sound, Connection
        <3> QED BY <2>1, <3>2, <3>3, AlikeSound, LiveSound DEF Live
    <2>3. CASE c \notin active_connections_
        BY <2>1, <2>3 DEF Stop
    <2> QED BY <2>2, <2>3
<1>2. conn' \in [IDs -> Connection]
    <2>1. \A c \in IDs : conn'[c] \in Connection BY <1>1 DEF Sound
    <2>2. conn' = [c \in IDs |-> conn'[c]] BY DEF Stop
    <2> QED BY <2>1, <2>2
<1>3. LastConnectionID' = LastConnectionID BY DEF Stop
<1> QED BY <1>1, <1>2, <1>3 DEF TcpInv

LEMMA DestroyKeeps == TcpInv /\ Destroy => TcpInv'
<1> SUFFICES ASSUME TcpInv, Destroy PROVE TcpInv'
    OBVIOUS
<1>1. ASSUME NEW c \in IDs
      PROVE  Sound(conn'[c]) /\ (conn[c].stage = "new" => conn'[c].stage = "new")
    <2>1. PICK q : q = conn[c] /\ Sound(q) /\ q \in Connection
        BY DEF TcpInv
    <2>2. CASE q.stage = "new" \/ q.held
        BY <2>1, <2>2 DEF Destroy
    <2>3. CASE ~(q.stage = "new" \/ q.held)
        <3>1. PICK e : e = <<>> /\ e \in Seq(Nat)
            <4>1. <<>> \in Seq(Nat) OBVIOUS
            <4> QED BY <4>1
        <3>2. PICK n : n = [q EXCEPT !.stage = "dead", !.reading = FALSE,
                                     !.buffer_seq_ = e]
            OBVIOUS
        <3>3. conn'[c] = n BY <2>1, <2>3, <3>1, <3>2 DEF Destroy
        <3>4. /\ n \in Connection /\ n.stage = "dead" /\ n.held = q.held
              /\ n.buffer_seq_ = e /\ n.wire = q.wire /\ n.given = q.given
              /\ n.failed = q.failed /\ n.closed_ = q.closed_
            BY <2>1, <3>1, <3>2 DEF Connection, Idle
        <3>5. Sound(n) BY <2>1, <2>3, <3>1, <3>4 DEF Sound
        <3> QED BY <2>1, <2>3, <3>3, <3>5
    <2> QED BY <2>2, <2>3
<1>2. conn' \in [IDs -> Connection]
    <2>1. \A c \in IDs : conn'[c] \in Connection BY <1>1 DEF Sound
    <2>2. conn' = [c \in IDs |-> conn'[c]] BY DEF Destroy
    <2> QED BY <2>1, <2>2
<1>3. LastConnectionID' = LastConnectionID BY DEF Destroy
<1> QED BY <1>1, <1>2, <1>3 DEF TcpInv

-----------------------------------------------------------------------------
LEMMA TcpStepKeeps == TcpInv /\ [TcpNext]_tvars => TcpInv'
<1> SUFFICES ASSUME TcpInv, [TcpNext]_tvars PROVE TcpInv'
    OBVIOUS
<1>1. CASE TcpRun
    <2>1. /\ DoAccept(conn) /\ conn \in [IDs -> Connection]
          /\ \A c \in IDs : Sound(conn[c])
          /\ \A c \in IDs : c > LastConnectionID => conn[c].stage = "new"
        BY <1>1 DEF TcpRun, TcpInv
    <2> QED BY <2>1, DoAcceptKeeps
<1>2. CASE Stop BY <1>2, StopKeeps
<1>3. CASE Destroy BY <1>3, DestroyKeeps
<1>4. ASSUME NEW c \in IDs, Handlers(c) PROVE TcpInv'
    BY <1>4, ReadErrorKeeps, WriteDoneKeeps, WriteErrorKeeps, TimerFiresKeeps
    DEF Handlers
<1>5. ASSUME NEW c \in IDs,
             ReadData(c) \/ Write(c) \/ Expires(c) \/ Leaves(c) \/ Release(c)
      PROVE  TcpInv'
    BY <1>5, ReadDataKeeps, WriteKeeps, ExpiresKeeps, LeavesKeeps, ReleaseKeeps
<1>6. ASSUME NEW c \in IDs, Accepted(c) \/ AcceptFails(c) PROVE TcpInv'
    BY <1>6, AcceptedKeeps, AcceptFailsKeeps
<1>7. CASE UNCHANGED tvars BY <1>7 DEF tvars, TcpInv
<1> QED BY <1>1, <1>2, <1>3, <1>4, <1>5, <1>6, <1>7 DEF TcpNext

(* What follows itself from one on is the numbers.                         *)
LEMMA TcpConclusion == TcpInv => SentInOrder
<1> SUFFICES ASSUME TcpInv, NEW c \in IDs, NEW k, k = conn[c]
             PROVE  /\ IsPrefix(k.wire, Numbers(k.given))
                    /\ ~k.failed /\ k.stage # "dead" =>
                         k.wire \o k.buffer_seq_ \o k.waiting = Numbers(k.given)
    BY DEF SentInOrder
<1>1. /\ Sound(k) /\ k.waiting \in Seq(Nat) /\ k.wire \in Seq(Nat)
      /\ k.buffer_seq_ \in Seq(Nat) /\ k.given \in Nat
    BY DEF TcpInv, Sound, Connection
<1>2. IsPrefix(k.wire, Numbers(k.given))
    BY <1>1, AllNumbers DEF Sound
<1>3. ASSUME ~k.failed, k.stage # "dead"
      PROVE  k.wire \o k.buffer_seq_ \o k.waiting = Numbers(k.given)
    <2>1. Whole(k) /\ Follows(k.wire, 0) BY <1>1, <1>3 DEF Sound
    <2>2. PICK a, b : a = Len(k.wire) /\ b = Len(k.buffer_seq_) /\ a \in Nat /\ b \in Nat
        BY <1>1, LenType
    <2>3. PICK w : w = k.wire \o k.buffer_seq_
        OBVIOUS
    <2>4. Follows(k.buffer_seq_, 0 + Len(k.wire))
        BY <2>1, <2>2 DEF Whole
    <2>5. w \in Seq(Nat) /\ Len(w) = a + b /\ Follows(w, 0)
        BY <1>1, <2>1, <2>2, <2>3, <2>4, JoinedFollow
    <2>6. Follows(k.waiting, 0 + Len(w)) /\ k.given = Len(w) + Len(k.waiting)
        <3>1. Follows(k.waiting, a + b) /\ k.given = a + b + Len(k.waiting)
            BY <2>1, <2>2 DEF Whole
        <3>2. Len(w) = a + b /\ 0 + Len(w) = a + b BY <2>2, <2>5
        <3> QED BY <3>1, <3>2, Zenon
    <2>7. /\ w \o k.waiting \in Seq(Nat) /\ Len(w \o k.waiting) = k.given
          /\ Follows(w \o k.waiting, 0)
        BY <1>1, <2>5, <2>6, JoinedFollow
    <2>8. w \o k.waiting = Numbers(k.given)
        <3>1. PICK v : v = w \o k.waiting
            OBVIOUS
        <3>2. v \in Seq(Nat) /\ Len(v) = k.given /\ Follows(v, 0)
            BY <2>7, <3>1, Zenon
        <3>3. Len(v) <= k.given BY <1>1, <3>2
        <3>4. v = Numbers(k.given) BY <1>1, <3>2, <3>3, AllNumbers
        <3> QED BY <3>1, <3>4
    <2> QED BY <2>3, <2>8
<1> QED BY <1>2, <1>3

(* Whatever clients, timers and the application do, and however many       *)
(* messages there are: what a client is sent is what was written, in order,*)
(* once, and nothing is missing before something has failed.               *)
THEOREM MessagesInOrder == TcpSpec => []SentInOrder
BY TcpInitHolds, TcpStepKeeps, TcpConclusion, PTL DEF TcpSpec

-----------------------------------------------------------------------------
(* DUdpServer.  What has to be known of a datagram is where it is between  *)
(* its arrival and the application (in one handler, and in the buffer of the*)
(* handler's session, which no longer receives); of an answer, that the    *)
(* session's endpoint no longer changes and its buffer only goes to later  *)
(* answers.                                                                *)

Endpoint == Clients \union {"none"}
Code == {"none", "error"} \union ReceiveErrors
Session == [RecvBuffer : Nat, SendBuffer : Nat, RemoteEndpoint : Endpoint,
            receiving : BOOLEAN]
Notice == [session : Nat, from : Endpoint, data : Nat]
Call == [session : Nat, over : SUBSET Nat]
Answer == [session : Nat, data : Nat, len : Nat, to : Endpoint]
Packet == [to : Endpoint, data : Nat, len : Nat]
Report == [data : Nat, len : Nat, ec : Code]
Handler(kinds) == [do : kinds, session : Nat, ec : Code, data : Nat]
Completions == {"handle_receive", "handle_response"}
Calls == {"handle_request", "handle_sent"}

UdpTypes ==
  /\ runs \in Nat
  /\ sessions \in Seq(Session)
  /\ strand \in Seq(Handler(Completions))
  /\ posted \in SUBSET Handler(Calls)
  /\ posting \in SUBSET Nat
  /\ sending \in SUBSET Answer
  /\ arrivals \in Seq(Clients \X Code)
  /\ told \in Seq(Notice)
  /\ sends \in Seq(Call)
  /\ wire \in Seq(Packet)
  /\ reported \in Seq(Report)

(* The session of a datagram no longer receives.                           *)
Busy(s) == s \in DOMAIN sessions /\ ~sessions[s].receiving

(* A datagram that has arrived and not been told is in its session.        *)
Pending(h) ==
  /\ Busy(h.session) /\ h.data \in DOMAIN arrivals
  /\ arrivals[h.data] = <<sessions[h.session].RemoteEndpoint, h.ec>>
  /\ h.ec # "error" => sessions[h.session].RecvBuffer = h.data

Received(i) == i \in DOMAIN strand /\ strand[i].do = "handle_receive"
Requested(h) == h \in posted /\ h.do = "handle_request"

PendingInv ==
  /\ \A i : Received(i) => Pending(strand[i])
  /\ \A h : Requested(h) => Pending(h)

ToldInv ==
  \A i \in DOMAIN told :
    /\ Busy(told[i].session)
    /\ told[i].data # 0 =>
         /\ told[i].data \in DOMAIN arrivals
         /\ told[i].from = arrivals[told[i].data][1]

(* It is in one place only.                                                *)
OnceInv ==
  /\ \A i, j : Received(i) /\ Received(j) /\ strand[i].data = strand[j].data
       => i = j
  /\ \A g, h : Requested(g) /\ Requested(h) /\ g.data = h.data => g = h
  /\ \A i, h : Received(i) /\ Requested(h) => strand[i].data # h.data
  /\ \A k \in DOMAIN told : told[k].data # 0 =>
       /\ \A i : Received(i) => strand[i].data # told[k].data
       /\ \A h : Requested(h) => h.data # told[k].data
       /\ \A l \in DOMAIN told : told[l].data = told[k].data => l = k

NoneLost ==
  \A n \in DOMAIN arrivals :
    \/ arrivals[n][2] = "error"
    \/ \E i \in DOMAIN told : told[i].data = n
    \/ \E i : Received(i) /\ strand[i].data = n
    \/ \E h : Requested(h) /\ h.data = n

(* A call of Send is of a session that has its client, and what is in the  *)
(* session's buffer is that call's or a later one's: for a call that has   *)
(* still to post it, one that stored over it.                              *)
SendsInv ==
  /\ \A n \in DOMAIN sends :
       Busy(sends[n].session) /\ n <= sessions[sends[n].session].SendBuffer
  /\ \A s \in DOMAIN sessions : sessions[s].SendBuffer # 0 =>
       /\ sessions[s].SendBuffer \in DOMAIN sends
       /\ sends[sessions[s].SendBuffer].session = s
  /\ posting \subseteq DOMAIN sends
  /\ \A n \in posting :
       sessions[sends[n].session].SendBuffer # n =>
         n \in sends[sessions[sends[n].session].SendBuffer].over

OfSend(x) == x.data \in DOMAIN sends /\ sends[x.data].session = x.session

(* What is sent or has been sent, as SentOnce has it.                      *)
Matched(d) ==
  /\ d.len \in DOMAIN sends /\ d.data \in DOMAIN sends
  /\ sends[d.data].session = sends[d.len].session
  /\ d.data # d.len => d.len \in sends[d.data].over

AnswersInv ==
  /\ \A w \in sending :
       /\ Matched(w) /\ w.session = sends[w.len].session
       /\ w.to = sessions[w.session].RemoteEndpoint
       /\ w.len \notin posting
       /\ \A v \in sending : v.len = w.len => v = w
  /\ \A i \in DOMAIN wire :
       wire[i].len \notin posting /\ \A w \in sending : w.len # wire[i].len
  /\ \A i \in DOMAIN strand : strand[i].do = "handle_response" => OfSend(strand[i])
  /\ \A h \in posted : h.do = "handle_sent" => OfSend(h)

AnswersRight == SentOnce /\ ReportedRight

Listening(ss) == {s \in DOMAIN ss : ss[s].receiving}
Receives(q) == {i \in DOMAIN q : q[i].do = "handle_receive"}

UdpInv ==
  /\ UdpTypes /\ PendingInv /\ ToldInv /\ OnceInv /\ NoneLost
  /\ SendsInv /\ AnswersInv /\ AnswersRight /\ AlwaysListening

-----------------------------------------------------------------------------
(* Sequences and how many of their places there are.                       *)

(* Sets of places are finite.                                              *)
LEMMA PlacesFinite ==
  ASSUME NEW T, NEW q \in Seq(T), NEW S \in SUBSET DOMAIN q
  PROVE  IsFiniteSet(S) /\ Cardinality(S) \in Nat
<1>1. IsFiniteSet(1..Len(q)) BY FS_Interval
<1> QED BY <1>1, FS_Subset, FS_CardinalityType

(* What Append and Tail do to the places.                                  *)
LEMMA Extended ==
  ASSUME NEW T, NEW q \in Seq(T), NEW x \in T
  PROVE  /\ DOMAIN Append(q, x) = DOMAIN q \union {Len(q) + 1}
         /\ Len(q) + 1 \notin DOMAIN q
         /\ Append(q, x)[Len(q) + 1] = x
         /\ \A i \in DOMAIN q : Append(q, x)[i] = q[i]
OBVIOUS

LEMMA Shifted ==
  ASSUME NEW T, NEW q \in Seq(T), q # <<>>
  PROVE  /\ 1 \in DOMAIN q /\ q[1] = Head(q)
         /\ \A i \in DOMAIN Tail(q) :
              i + 1 \in DOMAIN q /\ Tail(q)[i] = q[i + 1] /\ i + 1 # 1
         /\ \A j \in DOMAIN q : j # 1 =>
              j - 1 \in DOMAIN Tail(q) /\ Tail(q)[j - 1] = q[j]
<1>1. Len(q) \in Nat \ {0} /\ Len(Tail(q)) = Len(q) - 1
      /\ DOMAIN q = 1..Len(q) /\ DOMAIN Tail(q) = 1..Len(q) - 1
    OBVIOUS
<1>2. \A i \in 1..Len(q) - 1 : Tail(q)[i] = q[i + 1]
    BY <1>1
<1>3. \A j \in DOMAIN q : j # 1 =>
        j - 1 \in 1..Len(q) - 1 /\ Tail(q)[j - 1] = q[(j - 1) + 1] /\ (j - 1) + 1 = j
    BY <1>1, <1>2
<1> QED BY <1>1, <1>2, <1>3

(* A handler that is not of a receive changes no count of receives.        *)
LEMMA AppendOther ==
  ASSUME NEW T, NEW q \in Seq(T), NEW x \in T, x.do # "handle_receive"
  PROVE  Receives(Append(q, x)) = Receives(q)
BY DEF Receives

LEMMA AppendReceive ==
  ASSUME NEW T, NEW q \in Seq(T), NEW x \in T, x.do = "handle_receive"
  PROVE  Cardinality(Receives(Append(q, x))) = Cardinality(Receives(q)) + 1
<1>1. Receives(Append(q, x)) = Receives(q) \cup {Len(q) + 1}
    BY DEF Receives
<1>2. Len(q) + 1 \notin Receives(q)
    BY DEF Receives
<1>3. IsFiniteSet(Receives(q))
    BY PlacesFinite DEF Receives
<1> QED BY <1>1, <1>2, <1>3, FS_AddElement

LEMMA TailReceives ==
  ASSUME NEW T, NEW q \in Seq(T), q # <<>>
  PROVE  Cardinality(Receives(Tail(q))) =
           Cardinality(Receives(q))
             - (IF Head(q).do = "handle_receive" THEN 1 ELSE 0)
<1> DEFINE R == Receives(Tail(q))
           S == Receives(q) \ {1}
           f == [i \in R |-> i + 1]
<1>1. Tail(q) \in Seq(T) /\ Len(Tail(q)) = Len(q) - 1 /\ Len(q) \in Nat \ {0}
      /\ \A i \in 1..Len(Tail(q)) : Tail(q)[i] = q[i + 1]
    OBVIOUS
<1>2. IsFiniteSet(R) /\ IsFiniteSet(Receives(q))
    BY <1>1, PlacesFinite DEF Receives
<1>3. f \in Injection(R, S)
    <2>1. f \in [R -> S] BY <1>1 DEF Receives
    <2> QED BY <2>1 DEF Injection, IsInjective, Receives
<1>4. f \in Surjection(R, S)
    <2>1. ASSUME NEW j \in S PROVE \E i \in R : f[i] = j
        <3>1. j - 1 \in R /\ (j - 1) + 1 = j BY <1>1 DEF Receives
        <3> QED BY <3>1
    <2> QED BY <1>3, <2>1 DEF Injection, Surjection
<1>5. Cardinality(S) = Cardinality(R)
    BY <1>2, <1>3, <1>4, FS_Surjection
<1>6. 1 \in Receives(q) <=> Head(q).do = "handle_receive"
    BY <1>1 DEF Receives
<1>7. Cardinality(Receives(q)) \in Nat
    BY <1>2, FS_CardinalityType
<1> HIDE DEF R, S
<1>8. Cardinality(Receives(q) \ {1}) =
        IF 1 \in Receives(q) THEN Cardinality(Receives(q)) - 1
        ELSE Cardinality(Receives(q))
    BY <1>2, FS_RemoveElement
<1> QED BY <1>5, <1>6, <1>7, <1>8 DEF R, S

(* A new session listens, and one that has received does no longer.        *)
LEMMA NewListens ==
  ASSUME NEW q \in Seq(Session)
  PROVE  Cardinality(Listening(Append(q, NewSession))) =
           Cardinality(Listening(q)) + 1
<1>1. NewSession.receiving = TRUE BY DEF NewSession
<1>2. Listening(Append(q, NewSession)) = Listening(q) \cup {Len(q) + 1}
    BY <1>1 DEF Listening
<1>3. Len(q) + 1 \notin Listening(q)
    BY DEF Listening
<1>4. IsFiniteSet(Listening(q))
    BY PlacesFinite DEF Listening
<1> QED BY <1>2, <1>3, <1>4, FS_AddElement

LEMMA ListensNoLonger ==
  ASSUME NEW q \in Seq(Session), NEW s \in DOMAIN q, q[s].receiving,
         NEW x, ~x.receiving
  PROVE  Cardinality(Listening([q EXCEPT ![s] = x])) =
           Cardinality(Listening(q)) - 1
<1>1. Listening([q EXCEPT ![s] = x]) = Listening(q) \ {s}
    BY DEF Listening
<1>2. s \in Listening(q)
    BY DEF Listening
<1>3. IsFiniteSet(Listening(q))
    BY PlacesFinite DEF Listening
<1> QED BY <1>1, <1>2, <1>3, FS_RemoveElement

(* Changes that leave every session as it was for those who listen.        *)
LEMMA ListensStill ==
  ASSUME NEW q, NEW r, DOMAIN q = DOMAIN r,
         \A s \in DOMAIN q : r[s].receiving = q[s].receiving
  PROVE  Listening(r) = Listening(q)
BY DEF Listening

(* AlwaysListening in the words of these lemmas.                           *)
Balance == Cardinality(Listening(sessions)) + Cardinality(Receives(strand))

LEMMA Balanced ==
  /\ AlwaysListening <=> runs = Balance
  /\ AlwaysListening' <=> (runs = Balance)'
BY DEF AlwaysListening, Balance, Listening, Receives

LEMMA BalanceType ==
  ASSUME UdpTypes
  PROVE  /\ Cardinality(Listening(sessions)) \in Nat
         /\ Cardinality(Receives(strand)) \in Nat
BY PlacesFinite DEF Listening, Receives, UdpTypes

-----------------------------------------------------------------------------
(* The first states have the invariant.                                    *)
LEMMA UdpInitHolds == UdpInit => UdpInv
<1> SUFFICES ASSUME UdpInit PROVE UdpInv
    OBVIOUS
<1> USE DEF UdpInit
<1>1. UdpTypes BY DEF UdpTypes
<1>2. PendingInv /\ ToldInv /\ OnceInv /\ NoneLost
    BY DEF PendingInv, ToldInv, OnceInv, NoneLost, Received, Requested
<1>3. SendsInv /\ AnswersInv /\ AnswersRight
    BY DEF SendsInv, AnswersInv, AnswersRight, SentOnce, ReportedRight
<1>4. AlwaysListening
    <2>1. Listening(sessions) = {} /\ Receives(strand) = {}
        BY DEF Listening, Receives
    <2>2. Cardinality({}) = 0 BY FS_EmptySet
    <2>3. Cardinality(Listening(sessions)) = 0 /\ Cardinality(Receives(strand)) = 0
        BY <2>1, <2>2
    <2>4. Balance = 0 BY <2>3 DEF Balance
    <2> QED BY <2>4, Balanced
<1> QED BY <1>1, <1>2, <1>3, <1>4 DEF UdpInv

(* What a step leaves of the sessions that have their datagram, and of all *)
(* sessions' answers.                                                      *)
TakenKept ==
  \A s : Busy(s) =>
    /\ Busy(s)'
    /\ sessions'[s].RemoteEndpoint = sessions[s].RemoteEndpoint
    /\ sessions'[s].RecvBuffer = sessions[s].RecvBuffer

BuffersKept ==
  /\ \A s \in DOMAIN sessions :
       s \in DOMAIN sessions' /\ sessions'[s].SendBuffer = sessions[s].SendBuffer
  /\ \A s \in DOMAIN sessions' :
       sessions'[s].SendBuffer # 0 => s \in DOMAIN sessions

(* A step that starts and ends no answer keeps what is known of answers.   *)
LEMMA AnswersKept ==
  ASSUME UdpInv, TakenKept, UNCHANGED answered,
         \A i \in DOMAIN strand' : strand'[i].do = "handle_response" =>
           \E j \in DOMAIN strand : strand'[i] = strand[j],
         \A h \in posted' : h.do = "handle_sent" => h \in posted
  PROVE  AnswersInv' /\ AnswersRight'
<1> USE DEF answered
<1>1. \A x : OfSend(x) => OfSend(x)' BY DEF OfSend
<1>2. \A x : Matched(x) => Matched(x)' /\ Busy(sends[x.len].session)
    BY DEF UdpInv, SendsInv, Matched
<1>3. AnswersInv'
    BY <1>1, <1>2 DEF UdpInv, AnswersInv, TakenKept
<1>4. SentOnce'
    BY <1>2 DEF UdpInv, AnswersRight, SentOnce, Matched, TakenKept
<1>5. ReportedRight' BY DEF UdpInv, AnswersRight, ReportedRight
<1> QED BY <1>3, <1>4, <1>5 DEF AnswersRight

LEMMA SendsKept ==
  ASSUME SendsInv, TakenKept, BuffersKept, UNCHANGED <<sends, posting>>
  PROVE  SendsInv'
<1>1. \A n \in DOMAIN sends :
        Busy(sends[n].session)' /\ n <= sessions'[sends[n].session].SendBuffer
    BY DEF SendsInv, TakenKept, BuffersKept, Busy
<1>2. \A s \in DOMAIN sessions' : sessions'[s].SendBuffer # 0 =>
        /\ sessions'[s].SendBuffer \in DOMAIN sends
        /\ sends[sessions'[s].SendBuffer].session = s
    BY DEF SendsInv, BuffersKept
<1>3. \A n \in posting :
        sessions'[sends[n].session].SendBuffer = sessions[sends[n].session].SendBuffer
    BY DEF SendsInv, BuffersKept, Busy
<1> QED BY <1>1, <1>2, <1>3 DEF SendsInv

(* A new call of Run.                                                      *)
LEMMA RunKeeps == UdpInv /\ UdpRun => UdpInv'
<1> SUFFICES ASSUME UdpInv, UdpRun PROVE UdpInv'
    OBVIOUS
<1> USE DEF UdpRun, StartReceiveSession, answered, handlers
<1>1. NewSession \in Session
    BY DEF Session, NewSession, Endpoint
<1>2. UdpTypes' BY <1>1 DEF UdpInv, UdpTypes
<1>3. /\ DOMAIN sessions' = DOMAIN sessions \union {Len(sessions) + 1}
      /\ \A s \in DOMAIN sessions : sessions'[s] = sessions[s]
      /\ sessions'[Len(sessions) + 1] = NewSession
    BY <1>1 DEF UdpInv, UdpTypes
<1>4. TakenKept /\ BuffersKept
    BY <1>3 DEF TakenKept, BuffersKept, Busy, NewSession
<1>5. \A h : Pending(h) => Pending(h)'
    BY <1>4 DEF Pending, TakenKept
<1>6. PendingInv' /\ OnceInv' /\ NoneLost'
    BY <1>5 DEF UdpInv, PendingInv, OnceInv, NoneLost, Received, Requested
<1>7. ToldInv' BY <1>4 DEF UdpInv, ToldInv, TakenKept
<1>8. SendsInv' BY <1>4, SendsKept DEF UdpInv
<1>9. AnswersInv' /\ AnswersRight' BY <1>4, AnswersKept
<1>10. AlwaysListening'
    <2>1. Cardinality(Listening(sessions')) = Cardinality(Listening(sessions)) + 1
        BY NewListens DEF UdpInv, UdpTypes
    <2>2. runs = Balance BY Balanced DEF UdpInv
    <2>3. runs' = Balance' BY <2>1, <2>2, BalanceType DEF Balance, UdpInv
    <2> QED BY <2>3, Balanced
<1> QED BY <1>2, <1>6, <1>7, <1>8, <1>9, <1>10 DEF UdpInv

(* A datagram, or an error, arrives.                                       *)
LEMMA ReceiveKeeps ==
  ASSUME UdpInv, NEW s \in DOMAIN sessions, NEW client \in Clients,
         NEW ec \in {"none"} \union ReceiveErrors, Receive(s, client, ec)
  PROVE  UdpInv'
<1>a. PICK n, x, h :
        /\ n = Len(arrivals) + 1
        /\ x = [RecvBuffer |-> IF ec = "error" THEN sessions[s].RecvBuffer ELSE n,
                SendBuffer |-> sessions[s].SendBuffer, RemoteEndpoint |-> client,
                receiving |-> FALSE]
        /\ h = [do |-> "handle_receive", session |-> s, ec |-> ec, data |-> n]
    OBVIOUS
<1>b. sessions[s] \in Session /\ s \in Nat /\ Len(arrivals) \in Nat
    BY DEF UdpInv, UdpTypes
<1>c. arrivals' = Append(arrivals, <<client, ec>>) /\ Len(arrivals') = n
    BY <1>a DEF Receive, UdpInv, UdpTypes
<1>1. /\ sessions[s].receiving
      /\ arrivals' = Append(arrivals, <<client, ec>>)
      /\ sessions' = [sessions EXCEPT ![s] = x]
      /\ strand' = Append(strand, h)
      /\ UNCHANGED <<runs, told, answered, posted>>
    BY <1>a, <1>c DEF Receive
<1>e. ec \in Code BY DEF Code
<1>2. x \in Session /\ h \in Handler(Completions) /\ <<client, ec>> \in Clients \X Code
    <2>1. x \in Session BY <1>a, <1>b DEF Session, Endpoint
    <2>2. h \in Handler(Completions) BY <1>a, <1>b, <1>e DEF Handler, Completions
    <2> QED BY <2>1, <2>2, <1>e
<1>3. x.receiving = FALSE /\ x.RemoteEndpoint = client
      /\ x.SendBuffer = sessions[s].SendBuffer
      /\ (ec # "error" => x.RecvBuffer = n)
    BY <1>a
<1>4. /\ h.do = "handle_receive" /\ h.session = s /\ h.ec = ec /\ h.data = n
      /\ h.do # "handle_response"
    BY <1>a
<1>5. UdpTypes' BY <1>1, <1>2 DEF UdpInv, UdpTypes, answered
<1>6. /\ DOMAIN sessions' = DOMAIN sessions /\ sessions'[s] = x
      /\ \A r \in DOMAIN sessions : r # s => sessions'[r] = sessions[r]
    BY <1>1 DEF UdpInv, UdpTypes
<1>7. /\ DOMAIN arrivals' = DOMAIN arrivals \union {n} /\ n \notin DOMAIN arrivals
      /\ arrivals'[n] = <<client, ec>>
      /\ \A m \in DOMAIN arrivals : arrivals'[m] = arrivals[m]
    BY <1>1, <1>2, <1>a DEF UdpInv, UdpTypes
<1>8. /\ DOMAIN strand' = DOMAIN strand \union {Len(strand) + 1}
      /\ Len(strand) + 1 \notin DOMAIN strand
      /\ strand'[Len(strand) + 1] = h
      /\ \A i \in DOMAIN strand : strand'[i] = strand[i]
    <2>1. strand \in Seq(Handler(Completions)) BY DEF UdpInv, UdpTypes
    <2> QED BY <1>1, <1>2, <2>1, Extended
<1>9. TakenKept /\ BuffersKept
    BY <1>1, <1>3, <1>6 DEF TakenKept, BuffersKept, Busy
<1>10. \A g : Pending(g) => Pending(g)' /\ g.data # n
    BY <1>7, <1>9 DEF Pending, TakenKept
<1>11. Pending(h)'
    BY <1>3, <1>4, <1>6, <1>7 DEF Pending, Busy
<1>12. PendingInv'
    BY <1>1, <1>8, <1>10, <1>11 DEF UdpInv, PendingInv, Received, Requested
<1>13. ToldInv' BY <1>1, <1>7, <1>9 DEF UdpInv, ToldInv, TakenKept
<1>14. OnceInv'
    BY <1>1, <1>4, <1>7, <1>8, <1>10 DEF UdpInv, OnceInv, PendingInv, ToldInv, Received, Requested
<1>15. NoneLost'
    <2>1. ASSUME NEW m \in DOMAIN arrivals PROVE
            \/ arrivals'[m][2] = "error"
            \/ \E i \in DOMAIN told' : told'[i].data = m
            \/ \E i : Received(i)' /\ strand'[i].data = m
            \/ \E g : Requested(g)' /\ g.data = m
        BY <1>1, <1>7, <1>8 DEF UdpInv, NoneLost, Received, Requested
    <2>2. \E i : Received(i)' /\ strand'[i].data = n
        BY <1>4, <1>8 DEF Received
    <2> QED BY <1>7, <2>1, <2>2 DEF NoneLost
<1>16. SendsInv' BY <1>1, <1>9, SendsKept DEF UdpInv, answered
<1>17. AnswersInv' /\ AnswersRight'
    BY <1>1, <1>4, <1>8, <1>9, AnswersKept
<1>18. AlwaysListening'
    <2>1. Cardinality(Listening(sessions')) = Cardinality(Listening(sessions)) - 1
        BY <1>1, <1>3, ListensNoLonger DEF UdpInv, UdpTypes
    <2>2. Cardinality(Receives(strand')) = Cardinality(Receives(strand)) + 1
        BY <1>1, <1>2, <1>4, AppendReceive DEF UdpInv, UdpTypes
    <2>3. runs = Balance BY Balanced DEF UdpInv
    <2>4. runs' = Balance' BY <1>1, <2>1, <2>2, <2>3, BalanceType DEF Balance, UdpInv
    <2> QED BY <2>4, Balanced
<1> QED BY <1>5, <1>12, <1>13, <1>14, <1>15, <1>16, <1>17, <1>18 DEF UdpInv

(* The strand hands a datagram on, and another session is opened.          *)
LEMMA HandleReceiveKeeps == UdpInv /\ HandleReceive => UdpInv'
<1> SUFFICES ASSUME UdpInv, HandleReceive PROVE UdpInv'
    OBVIOUS
<1>a. PICK h, g :
        /\ h = Head(strand)
        /\ g = [h EXCEPT !.do = "handle_request"]
    OBVIOUS
<1>1. /\ strand # <<>> /\ h.do = "handle_receive" /\ strand' = Tail(strand)
      /\ posted' = posted \union {g}
      /\ sessions' = Append(sessions, NewSession)
      /\ UNCHANGED <<runs, arrivals, told, answered>>
    BY <1>a DEF HandleReceive, StartReceiveSession
<1>2. /\ h \in Handler(Completions) /\ g \in Handler(Calls)
      /\ g.do = "handle_request" /\ g.session = h.session /\ g.ec = h.ec
      /\ g.data = h.data
    <2>1. h \in Handler(Completions) BY <1>1, <1>a DEF UdpInv, UdpTypes
    <2> QED BY <1>a, <2>1 DEF Handler, Calls
<1>3. NewSession \in Session
    BY DEF Session, NewSession, Endpoint
<1>4. UdpTypes' BY <1>1, <1>2, <1>3 DEF UdpInv, UdpTypes, answered
<1>5. /\ DOMAIN sessions' = DOMAIN sessions \union {Len(sessions) + 1}
      /\ \A s \in DOMAIN sessions : sessions'[s] = sessions[s]
      /\ sessions'[Len(sessions) + 1] = NewSession
    BY <1>1, <1>3 DEF UdpInv, UdpTypes
<1>6. /\ 1 \in DOMAIN strand /\ strand[1] = h
      /\ \A i \in DOMAIN strand' : i + 1 \in DOMAIN strand /\ strand'[i] = strand[i + 1]
                                  /\ i + 1 # 1
      /\ \A j \in DOMAIN strand : j # 1 => j - 1 \in DOMAIN strand' /\ strand'[j - 1] = strand[j]
    BY <1>1, <1>a, Shifted DEF UdpInv, UdpTypes
<1>7. TakenKept /\ BuffersKept
    BY <1>5 DEF TakenKept, BuffersKept, Busy, NewSession
<1>8. \A x : Pending(x) => Pending(x)'
    BY <1>1, <1>7 DEF Pending, TakenKept
<1>9. Received(1) /\ Pending(h) /\ Pending(h)' /\ Pending(g)'
    <2>1. Received(1) BY <1>1, <1>6 DEF Received
    <2>2. Pending(h) /\ Pending(h)' BY <1>6, <1>8, <2>1 DEF UdpInv, PendingInv
    <2> QED BY <1>2, <2>1, <2>2 DEF Pending
<1>10. /\ \A i : Received(i)' => Received(i + 1) /\ i \in DOMAIN strand'
                                 /\ i \in Nat \ {0}
       /\ \A x : Requested(x)' => Requested(x) \/ x = g
       /\ \A x : Requested(x) => Requested(x)'
       /\ Requested(g)'
    BY <1>1, <1>2, <1>4, <1>6 DEF Received, Requested, UdpTypes
<1>11. PendingInv'
    BY <1>6, <1>8, <1>9, <1>10 DEF UdpInv, PendingInv
<1>12. ToldInv' BY <1>1, <1>7 DEF UdpInv, ToldInv, TakenKept
<1>13. OnceInv'
    <2>1. \A i, j : Received(i)' /\ Received(j)' /\ strand'[i].data = strand'[j].data
            => i = j
        BY <1>6, <1>10 DEF UdpInv, OnceInv
    <2>2. \A i : Received(i)' => strand'[i].data # g.data
        BY <1>2, <1>6, <1>9, <1>10 DEF UdpInv, OnceInv
    <2>3. \A x : Requested(x) => x.data # g.data
        BY <1>2, <1>6, <1>9 DEF UdpInv, OnceInv
    <2>4. \A k \in DOMAIN told : told[k].data # 0 => told[k].data # g.data
        BY <1>2, <1>6, <1>9 DEF UdpInv, OnceInv
    <2>5. \A x, y : Requested(x)' /\ Requested(y)' /\ x.data = y.data => x = y
        BY <1>10, <2>3 DEF UdpInv, OnceInv
    <2>6. \A i, x : Received(i)' /\ Requested(x)' => strand'[i].data # x.data
        BY <1>6, <1>10, <2>2 DEF UdpInv, OnceInv
    <2>7. \A k \in DOMAIN told : told[k].data # 0 =>
            /\ \A i : Received(i)' => strand'[i].data # told[k].data
            /\ \A x : Requested(x)' => x.data # told[k].data
            /\ \A l \in DOMAIN told : told[l].data = told[k].data => l = k
        BY <1>6, <1>10, <2>4 DEF UdpInv, OnceInv
    <2> QED BY <1>1, <2>1, <2>5, <2>6, <2>7 DEF OnceInv
<1>14. NoneLost'
    <2>1. ASSUME NEW n \in DOMAIN arrivals, NEW i, Received(i), strand[i].data = n
          PROVE  \/ \E j : Received(j)' /\ strand'[j].data = n
                 \/ \E x : Requested(x)' /\ x.data = n
        <3>1. CASE i = 1 BY <1>2, <1>6, <1>10, <2>1, <3>1
        <3>2. CASE i # 1
            BY <1>6, <2>1, <3>2 DEF Received
        <3> QED BY <3>1, <3>2
    <2> QED BY <1>1, <1>10, <2>1 DEF UdpInv, NoneLost
<1>15. SendsInv' BY <1>1, <1>7, SendsKept DEF UdpInv, answered
<1>16. AnswersInv' /\ AnswersRight'
    <2>1. \A x \in posted' : x.do = "handle_sent" => x \in posted
        BY <1>1, <1>2
    <2> QED BY <1>1, <1>6, <1>7, <2>1, AnswersKept
<1>17. AlwaysListening'
    <2>1. Cardinality(Listening(sessions')) = Cardinality(Listening(sessions)) + 1
        BY <1>1, NewListens DEF UdpInv, UdpTypes
    <2>2. Cardinality(Receives(strand')) = Cardinality(Receives(strand)) - 1
        BY <1>1, <1>a, TailReceives DEF UdpInv, UdpTypes
    <2>3. runs = Balance BY Balanced DEF UdpInv
    <2>4. runs' = Balance' BY <1>1, <2>1, <2>2, <2>3, BalanceType DEF Balance, UdpInv
    <2> QED BY <2>4, Balanced
<1> QED BY <1>4, <1>11, <1>12, <1>13, <1>14, <1>15, <1>16, <1>17 DEF UdpInv

(* The application is told.                                                *)
LEMMA HandleRequestKeeps ==
  ASSUME UdpInv, NEW h \in posted, HandleRequest(h)
  PROVE  UdpInv'
<1>a. PICK t :
        t = [session |-> h.session, from |-> sessions[h.session].RemoteEndpoint,
             data |-> IF h.ec = "error" THEN 0 ELSE sessions[h.session].RecvBuffer]
    OBVIOUS
<1>1. /\ Requested(h) /\ posted' = posted \ {h} /\ told' = Append(told, t)
      /\ UNCHANGED <<runs, sessions, arrivals, answered, strand>>
    BY <1>a DEF HandleRequest, Requested
<1>2. Pending(h) BY <1>1 DEF UdpInv, PendingInv
<1>3. t \in Notice
    <2>1. sessions[h.session] \in Session /\ h.session \in Nat
        BY <1>2 DEF Pending, Busy, UdpInv, UdpTypes
    <2> QED BY <1>a, <2>1 DEF Session, Notice
<1>4. UdpTypes' BY <1>1, <1>3 DEF UdpInv, UdpTypes, answered
<1>5. /\ DOMAIN told' = DOMAIN told \union {Len(told) + 1}
      /\ Len(told) + 1 \notin DOMAIN told
      /\ told'[Len(told) + 1] = t
      /\ \A i \in DOMAIN told : told'[i] = told[i]
    BY <1>1, <1>3, Extended DEF UdpInv, UdpTypes
<1>6. /\ Busy(t.session)
      /\ t.data # 0 => /\ t.data = h.data /\ h.data \in DOMAIN arrivals
                       /\ t.from = arrivals[t.data][1]
      /\ t.data = h.data \/ arrivals[h.data][2] = "error"
    BY <1>a, <1>2 DEF Pending
<1>7. \A s : Busy(s) => Busy(s)' BY <1>1 DEF Busy
<1>8. \A x : Pending(x) => Pending(x)' BY <1>1 DEF Pending, Busy
<1>9. /\ \A i : Received(i)' <=> Received(i)
      /\ \A x : Requested(x)' <=> Requested(x) /\ x # h
    BY <1>1 DEF Received, Requested
<1>10. PendingInv' BY <1>1, <1>8, <1>9 DEF UdpInv, PendingInv
<1>11. ToldInv'
    <2>1. \A i \in DOMAIN told' :
            told'[i] = t \/ (i \in DOMAIN told /\ told'[i] = told[i])
        BY <1>5
    <2> QED BY <1>1, <1>6, <1>7, <2>1 DEF UdpInv, ToldInv
<1>12. OnceInv'
    <2>1. \A k \in DOMAIN told' : told'[k].data # 0 =>
            /\ \A i : Received(i)' => strand'[i].data # told'[k].data
            /\ \A x : Requested(x)' => x.data # told'[k].data
        BY <1>1, <1>5, <1>6, <1>9 DEF UdpInv, OnceInv
    <2>2. \A k \in DOMAIN told : told[k].data # 0 => told[k].data # h.data
        BY <1>1 DEF UdpInv, OnceInv
    <2>3. \A k, l \in DOMAIN told' :
            told'[k].data # 0 /\ told'[l].data = told'[k].data => l = k
        BY <1>5, <1>6, <2>2 DEF UdpInv, OnceInv
    <2> QED BY <1>1, <1>9, <2>1, <2>3 DEF UdpInv, OnceInv
<1>13. NoneLost'
    <2>1. \A n \in DOMAIN arrivals :
            (\E i \in DOMAIN told : told[i].data = n) => \E i \in DOMAIN told' : told'[i].data = n
        BY <1>5
    <2>2. arrivals[h.data][2] = "error" \/ \E i \in DOMAIN told' : told'[i].data = h.data
        BY <1>5, <1>6
    <2>3. ASSUME NEW n \in DOMAIN arrivals, NEW x, Requested(x), x.data = n
          PROVE  \/ arrivals[n][2] = "error"
                 \/ \E i \in DOMAIN told' : told'[i].data = n
                 \/ \E y : Requested(y)' /\ y.data = n
        BY <1>9, <2>2, <2>3
    <2> QED BY <1>1, <1>9, <2>1, <2>3 DEF UdpInv, NoneLost
<1>14. TakenKept /\ BuffersKept
    BY <1>1, <1>7 DEF TakenKept, BuffersKept
<1>15. SendsInv' BY <1>1, <1>14, SendsKept DEF UdpInv, answered
<1>16. AnswersInv' /\ AnswersRight' BY <1>1, <1>14, AnswersKept
<1>17. AlwaysListening' BY <1>1, Balanced DEF UdpInv, Balance
<1> QED BY <1>4, <1>10, <1>11, <1>12, <1>13, <1>15, <1>16, <1>17 DEF UdpInv

(* A step of an answer leaves all that is known of datagrams.              *)
LEMMA DatagramsKept ==
  ASSUME UdpInv, UdpTypes', TakenKept, UNCHANGED <<arrivals, told>>,
         \A i : Received(i)' => \E j : Received(j) /\ strand'[i] = strand[j],
         \A i, k, j : Received(i)' /\ Received(k)' /\ Received(j)
           /\ strand'[i] = strand[j] /\ strand'[k] = strand[j] => i = k,
         \A j : Received(j) => \E i : Received(i)' /\ strand'[i] = strand[j],
         \A x : Requested(x)' <=> Requested(x)
  PROVE  PendingInv' /\ ToldInv' /\ OnceInv' /\ NoneLost'
<1>1. \A x : Pending(x) => Pending(x)' BY DEF Pending, TakenKept
<1>2. PendingInv' BY <1>1 DEF UdpInv, PendingInv
<1>3. ToldInv' BY DEF UdpInv, ToldInv, TakenKept
<1>4. OnceInv'
    <2>1. ASSUME NEW i, NEW k, Received(i)', Received(k)',
                 strand'[i].data = strand'[k].data
          PROVE  i = k
        <3>1. PICK j : Received(j) /\ strand'[i] = strand[j] BY <2>1
        <3>2. PICK l : Received(l) /\ strand'[k] = strand[l] BY <2>1
        <3>3. j = l BY <2>1, <3>1, <3>2 DEF UdpInv, OnceInv
        <3> QED BY <2>1, <3>1, <3>2, <3>3
    <2> QED BY <2>1 DEF UdpInv, OnceInv
<1>5. NoneLost' BY DEF UdpInv, NoneLost
<1> QED BY <1>2, <1>3, <1>4, <1>5

(* The application answers a session: its memory is stored.                *)
LEMMA SendKeeps ==
  ASSUME UdpInv, NEW i \in DOMAIN told, Send(told[i].session)
  PROVE  UdpInv'
<1>a. PICK s, n, x :
        /\ s = told[i].session /\ n = Len(sends) + 1
        /\ x = [session |-> s, over |-> {m \in posting : sends[m].session = s}]
    OBVIOUS
<1>d. sessions \in Seq(Session) /\ sends \in Seq(Call) /\ posting \in SUBSET Nat
    BY DEF UdpInv, UdpTypes
<1>e. Busy(s)
    BY <1>a DEF UdpInv, ToldInv
<1>1. s \in DOMAIN sessions /\ ~sessions[s].receiving /\ n \in Nat \ {0}
      /\ s \in Nat /\ sessions[s] \in Session
    BY <1>a, <1>d, <1>e DEF Busy
<1>2. /\ x \in Call /\ x.session = s
      /\ x.over = {m \in posting : sends[m].session = s}
    BY <1>1, <1>a, <1>d DEF Call
<1>3. sends' = Append(sends, x) /\ Len(sends') = n
    BY <1>a, <1>d, <1>2 DEF Send, Stored
<1>4. sessions' = [sessions EXCEPT ![s].SendBuffer = n]
    BY <1>a, <1>3 DEF Send, Stored
<1>5. /\ DOMAIN sessions' = DOMAIN sessions
      /\ \A r \in DOMAIN sessions : r # s => sessions'[r] = sessions[r]
      /\ sessions'[s] = [sessions[s] EXCEPT !.SendBuffer = n]
    BY <1>1, <1>4, <1>d
<1>6. /\ sessions'[s] \in Session
      /\ sessions'[s].SendBuffer = n
      /\ sessions'[s].RemoteEndpoint = sessions[s].RemoteEndpoint
      /\ sessions'[s].receiving = sessions[s].receiving
      /\ sessions'[s].RecvBuffer = sessions[s].RecvBuffer
    BY <1>1, <1>5 DEF Session
<1>7. /\ posting' = posting \union {n}
      /\ UNCHANGED <<runs, arrivals, told, sending, wire, reported, handlers>>
    BY <1>a, <1>3 DEF Send
<1>9. sessions' \in Seq(Session)
    <2>1. sessions' = [sessions EXCEPT ![s] = sessions'[s]]
        BY <1>4, <1>5
    <2> QED BY <1>6, <1>d, <2>1
<1>10. UdpTypes'
    BY <1>1, <1>2, <1>3, <1>7, <1>9, <1>d DEF UdpInv, UdpTypes, handlers
<1>11. TakenKept
    BY <1>5, <1>6 DEF TakenKept, Busy
<1>12. /\ DOMAIN sends' = DOMAIN sends \union {n} /\ n \notin DOMAIN sends
       /\ sends'[n] = x
       /\ \A m \in DOMAIN sends : sends'[m] = sends[m] /\ m <= n /\ m \in Nat \ {0}
    <2>1. \A m \in DOMAIN sends : m <= n /\ m \in Nat \ {0} BY <1>a, <1>d
    <2>4. /\ DOMAIN Append(sends, x) = DOMAIN sends \union {Len(sends) + 1}
          /\ Len(sends) + 1 \notin DOMAIN sends
          /\ Append(sends, x)[Len(sends) + 1] = x
          /\ \A m \in DOMAIN sends : Append(sends, x)[m] = sends[m]
        BY <1>2, <1>d, Extended
    <2> QED BY <1>3, <1>a, <2>1, <2>4, Zenon
<1>13. PendingInv' /\ ToldInv' /\ OnceInv' /\ NoneLost'
    BY <1>7, <1>10, <1>11, DatagramsKept DEF handlers, Received, Requested, UdpInv, OnceInv
<1>14. SendsInv'
    <2>1. ASSUME NEW m \in DOMAIN sends'
          PROVE  /\ sends'[m].session \in DOMAIN sessions'
                 /\ ~sessions'[sends'[m].session].receiving
                 /\ m <= sessions'[sends'[m].session].SendBuffer
        <3>1. Busy(s)' BY <1>1, <1>5, <1>6 DEF Busy
        <3>2. ASSUME m \in DOMAIN sends, NEW r, r = sends[m].session
              PROVE  Busy(r)' /\ m <= sessions'[r].SendBuffer
            <4>1. Busy(r) /\ m <= sessions[r].SendBuffer
                BY <3>2 DEF UdpInv, SendsInv
            <4>2. Busy(r)' BY <1>11, <4>1 DEF TakenKept
            <4>3. CASE r = s
                BY <1>6, <1>12, <3>2, <4>2, <4>3
            <4>4. CASE r # s
                BY <1>5, <4>1, <4>2, <4>4 DEF Busy
            <4> QED BY <4>3, <4>4
        <3>3. CASE m \in DOMAIN sends BY <1>12, <3>2, <3>3 DEF Busy
        <3>4. CASE m = n BY <1>1, <1>2, <1>6, <1>12, <3>1, <3>4 DEF Busy
        <3> QED BY <1>12, <3>3, <3>4
    <2>2. \A r \in DOMAIN sessions' : sessions'[r].SendBuffer # 0 =>
            /\ sessions'[r].SendBuffer \in DOMAIN sends'
            /\ sends'[sessions'[r].SendBuffer].session = r
        <3>1. ASSUME NEW r \in DOMAIN sessions, r # s, sessions[r].SendBuffer # 0
              PROVE  /\ sessions[r].SendBuffer \in DOMAIN sends
                     /\ sends[sessions[r].SendBuffer].session = r
            BY <3>1 DEF UdpInv, SendsInv
        <3>2. ASSUME NEW r \in DOMAIN sessions, r # s, sessions'[r].SendBuffer # 0
              PROVE  /\ sessions'[r].SendBuffer \in DOMAIN sends'
                     /\ sends'[sessions'[r].SendBuffer].session = r
            BY <1>5, <1>12, <3>1, <3>2
        <3>3. n \in DOMAIN sends' /\ sends'[n].session = s
            BY <1>2, <1>12
        <3> QED BY <1>5, <1>6, <3>2, <3>3
    <2>3. posting' \subseteq DOMAIN sends'
        BY <1>7, <1>12 DEF UdpInv, SendsInv
    <2>4. ASSUME NEW m \in posting', sessions'[sends'[m].session].SendBuffer # m
          PROVE  m \in sends'[sessions'[sends'[m].session].SendBuffer].over
        <3>1. m # n BY <1>2, <1>6, <1>12, <2>4
        <3>2. m \in posting /\ m \in DOMAIN sends /\ sends'[m] = sends[m]
            BY <1>7, <1>12, <3>1 DEF UdpInv, SendsInv
        <3>3. PICK r : r = sends[m].session OBVIOUS
        <3>4. CASE r = s BY <1>2, <1>6, <1>12, <3>2, <3>3, <3>4
        <3>5. CASE r # s
            <4>1. r \in DOMAIN sessions /\ m <= sessions[r].SendBuffer /\ m \in Nat \ {0}
                BY <1>12, <3>2, <3>3 DEF UdpInv, SendsInv, Busy
            <4>2. sessions[r].SendBuffer # 0 BY <4>1
            <4>3. sessions[r].SendBuffer \in DOMAIN sends
                BY <4>1, <4>2 DEF UdpInv, SendsInv
            <4>4. sessions'[r].SendBuffer = sessions[r].SendBuffer BY <1>5, <3>5, <4>1
            <4>5. m \in sends[sessions[r].SendBuffer].over
                BY <2>4, <3>2, <3>3, <4>4 DEF UdpInv, SendsInv
            <4> QED BY <1>12, <3>2, <3>3, <4>3, <4>4, <4>5
        <3> QED BY <3>4, <3>5
    <2> QED BY <2>1, <2>2, <2>3, <2>4 DEF SendsInv, Busy
<1>15. \A y : OfSend(y) => OfSend(y)'
    BY <1>12 DEF OfSend
<1>m. \A y : Matched(y) =>
         Matched(y)' /\ y.len # n /\ sends'[y.len] = sends[y.len] /\ Busy(sends[y.len].session)
    BY <1>12 DEF Matched, UdpInv, SendsInv
<1>w. \A k \in DOMAIN wire : Matched(wire[k])
    BY DEF UdpInv, AnswersRight, SentOnce, Matched
<1>16. AnswersInv'
    <2>1. ASSUME NEW w \in sending
          PROVE  /\ Matched(w)' /\ w.session = sends'[w.len].session
                 /\ w.to = sessions'[w.session].RemoteEndpoint
                 /\ w.len \notin posting'
        BY <1>7, <1>11, <1>m DEF UdpInv, AnswersInv, TakenKept
    <2>2. \A k \in DOMAIN wire : wire[k].len \notin posting'
        BY <1>7, <1>m, <1>w DEF UdpInv, AnswersInv
    <2> QED BY <1>7, <1>15, <2>1, <2>2 DEF handlers, UdpInv, AnswersInv
<1>17. AnswersRight'
    <2>1. SentOnce'
        <3>1. ASSUME NEW k \in DOMAIN wire, NEW d, d = wire[k]
              PROVE  /\ Matched(d)'
                     /\ d.to = sessions'[sends'[d.len].session].RemoteEndpoint
            BY <1>11, <1>m, <1>w, <3>1 DEF UdpInv, AnswersRight, SentOnce, TakenKept
        <3> QED BY <1>7, <3>1 DEF UdpInv, AnswersRight, SentOnce, Matched
    <2>2. ReportedRight'
        BY <1>7, <1>12 DEF UdpInv, AnswersRight, ReportedRight
    <2> QED BY <2>1, <2>2 DEF AnswersRight
<1>18. AlwaysListening'
    <2>1. Listening(sessions') = Listening(sessions)
        BY <1>5, <1>6, ListensStill
    <2> QED BY <1>7, <2>1, Balanced DEF UdpInv, Balance, handlers
<1> QED BY <1>10, <1>13, <1>14, <1>16, <1>17, <1>18 DEF UdpInv

(* What is in the buffer is posted.                                        *)
LEMMA PostResponseKeeps ==
  ASSUME UdpInv, NEW n \in posting, PostResponse(n)
  PROVE  UdpInv'
<1>a. PICK s, d, w :
        /\ s = sends[n].session /\ d = sessions[s].SendBuffer
        /\ w = [session |-> s, data |-> d, len |-> n,
                to |-> sessions[s].RemoteEndpoint]
    OBVIOUS
<1>d. sessions \in Seq(Session) /\ sends \in Seq(Call) /\ posting \in SUBSET Nat
    BY DEF UdpInv, UdpTypes
<1>1. n \in DOMAIN sends /\ n \in Nat \ {0} /\ Busy(s) /\ n <= d
    BY <1>a, <1>d DEF UdpInv, SendsInv
<1>2. s \in Nat /\ sessions[s] \in Session /\ d \in Nat \ {0}
    <2>1. s \in DOMAIN sessions BY <1>1 DEF Busy
    <2>2. s \in Nat /\ sessions[s] \in Session BY <1>d, <2>1
    <2>3. d \in Nat BY <1>a, <2>2 DEF Session
    <2> QED BY <1>1, <2>2, <2>3
<1>3. /\ w \in Answer /\ w.session = s /\ w.data = d /\ w.len = n
      /\ w.to = sessions[s].RemoteEndpoint
    BY <1>1, <1>2, <1>a DEF Answer, Session
<1>4. /\ posting' = posting \ {n} /\ sending' = sending \union {w}
      /\ UNCHANGED <<received, sends, wire, reported, handlers>>
    BY <1>a DEF PostResponse, Posted
<1>5. UdpTypes' BY <1>3, <1>4 DEF UdpInv, UdpTypes, received, handlers
<1>6. TakenKept BY <1>4 DEF TakenKept, Busy, received
<1>7. PendingInv' /\ ToldInv' /\ OnceInv' /\ NoneLost'
    BY <1>4, <1>5, <1>6, DatagramsKept
    DEF handlers, received, Received, Requested, UdpInv, OnceInv
<1>8. SendsInv' BY <1>4 DEF UdpInv, SendsInv, Busy, received
<1>9. Matched(w)
    <2>1. d \in DOMAIN sends /\ sends[d].session = s
        BY <1>1, <1>2, <1>a DEF UdpInv, SendsInv, Busy
    <2>2. d # n => n \in sends[d].over
        BY <1>a DEF UdpInv, SendsInv
    <2> QED BY <1>1, <1>3, <1>a, <2>1, <2>2 DEF Matched
<1>10. \A y : Matched(y)' <=> Matched(y) BY <1>4 DEF Matched
<1>11. \A y : OfSend(y)' <=> OfSend(y) BY <1>4 DEF OfSend
<1>12. \A v \in sending : v.len # n BY DEF UdpInv, AnswersInv
<1>13. \A k \in DOMAIN wire : wire[k].len # n BY DEF UdpInv, AnswersInv
<1>14. AnswersInv'
    <2>1. ASSUME NEW v \in sending'
          PROVE  /\ Matched(v)' /\ v.session = sends[v.len].session
                 /\ v.to = sessions[v.session].RemoteEndpoint
                 /\ v.len \notin posting'
                 /\ \A u \in sending' : u.len = v.len => u = v
        <3>1. CASE v = w
            BY <1>3, <1>4, <1>9, <1>10, <1>12, <1>a, <3>1
        <3>2. CASE v \in sending
            BY <1>3, <1>4, <1>10, <1>12, <3>2 DEF UdpInv, AnswersInv
        <3> QED BY <1>4, <3>1, <3>2
    <2>2. \A k \in DOMAIN wire :
            wire[k].len \notin posting' /\ \A v \in sending' : v.len # wire[k].len
        BY <1>3, <1>4, <1>13 DEF UdpInv, AnswersInv
    <2> QED BY <1>4, <1>11, <2>1, <2>2 DEF handlers, received, UdpInv, AnswersInv
<1>15. AnswersRight'
    BY <1>4 DEF UdpInv, AnswersRight, SentOnce, ReportedRight, received
<1>16. AlwaysListening' BY <1>4, Balanced DEF UdpInv, Balance, received, handlers
<1> QED BY <1>5, <1>7, <1>8, <1>14, <1>15, <1>16 DEF UdpInv

(* An answer has been sent, or has failed.                                 *)
LEMMA SendEndsKeeps ==
  ASSUME UdpInv, NEW w \in sending, NEW ec \in {"none", "error"}, SendEnds(w, ec)
  PROVE  UdpInv'
<1>a. PICK h, y :
        /\ h = [do |-> "handle_response", session |-> w.session, ec |-> ec,
                data |-> w.len]
        /\ y = [to |-> w.to, data |-> w.data, len |-> w.len]
    OBVIOUS
<1>1. /\ sending' = sending \ {w} /\ strand' = Append(strand, h)
      /\ wire' = wire \/ wire' = Append(wire, y)
      /\ UNCHANGED <<received, posting, sends, reported, posted>>
    BY <1>a DEF SendEnds
<1>2. w \in Answer BY DEF UdpInv, UdpTypes
<1>3. /\ h \in Handler(Completions) /\ h.do = "handle_response"
      /\ h.session = w.session /\ h.data = w.len
      /\ y \in Packet /\ y.to = w.to /\ y.data = w.data /\ y.len = w.len
    BY <1>2, <1>a DEF Answer, Handler, Completions, Code, Packet
<1>5. strand \in Seq(Handler(Completions)) /\ wire \in Seq(Packet)
    BY DEF UdpInv, UdpTypes
<1>4. UdpTypes'
    <2>1. strand' \in Seq(Handler(Completions)) BY <1>1, <1>3, <1>5
    <2>2. CASE wire' = wire BY <1>1, <1>5, <2>1, <2>2 DEF UdpInv, UdpTypes, received
    <2>3. CASE wire' = Append(wire, y)
        <3>1. wire' \in Seq(Packet) BY <1>3, <1>5, <2>3
        <3> QED BY <1>1, <2>1, <3>1 DEF UdpInv, UdpTypes, received
    <2> QED BY <1>1, <2>2, <2>3
<1>6. /\ DOMAIN strand' = DOMAIN strand \union {Len(strand) + 1}
      /\ Len(strand) + 1 \notin DOMAIN strand
      /\ strand'[Len(strand) + 1] = h
      /\ \A i \in DOMAIN strand : strand'[i] = strand[i]
    BY <1>1, <1>3, <1>5, Extended
<1>7. \A i \in DOMAIN wire' :
        (i \in DOMAIN wire /\ wire'[i] = wire[i]) \/ wire'[i] = y
    BY <1>1, <1>3, <1>5, Extended
<1>8. TakenKept
    BY <1>1 DEF TakenKept, Busy, received
<1>9. /\ \A i : Received(i)' <=> Received(i)
      /\ \A x : Requested(x)' <=> Requested(x)
    BY <1>1, <1>3, <1>6 DEF Received, Requested
<1>b. \A i : Received(i) => strand'[i] = strand[i]
    BY <1>6 DEF Received
<1>10. PendingInv' /\ ToldInv' /\ OnceInv' /\ NoneLost'
    <2>1. \A i, k, j : Received(i)' /\ Received(k)' /\ Received(j)
            /\ strand'[i] = strand[j] /\ strand'[k] = strand[j] => i = k
        BY <1>9, <1>b DEF UdpInv, OnceInv
    <2> QED BY <1>1, <1>4, <1>8, <1>9, <1>b, <2>1, DatagramsKept DEF received
<1>11. SendsInv' BY <1>1 DEF UdpInv, SendsInv, Busy, received
<1>12. /\ \A x : OfSend(x) => OfSend(x)'
       /\ \A x : Matched(x) <=> Matched(x)'
    BY <1>1 DEF OfSend, Matched
<1>13. /\ OfSend(h)' /\ Matched(w) /\ Matched(y) /\ w.session = sends[w.len].session
       /\ w.to = sessions[w.session].RemoteEndpoint /\ w.len \notin posting
       /\ \A v \in sending' : v \in sending /\ v.len # w.len
    BY <1>1, <1>3 DEF UdpInv, AnswersInv, OfSend, Matched
<1>c. \A i \in DOMAIN wire : wire[i].len # w.len
    BY DEF UdpInv, AnswersInv
<1>14. AnswersInv'
    <2>1. \A i \in DOMAIN wire' :
            wire'[i].len \notin posting /\ \A v \in sending' : v.len # wire'[i].len
        BY <1>3, <1>7, <1>13 DEF UdpInv, AnswersInv
    <2> QED BY <1>1, <1>6, <1>12, <1>13, <2>1 DEF UdpInv, AnswersInv, received
<1>15. AnswersRight'
    <2>1. ReportedRight' BY <1>1 DEF UdpInv, AnswersRight, ReportedRight
    <2>2. \A i, j \in DOMAIN wire' : wire'[i].len = wire'[j].len => i = j
        <3>1. CASE wire' = wire
            BY <3>1 DEF UdpInv, AnswersRight, SentOnce
        <3>2. CASE wire' = Append(wire, y)
            <4>1. /\ DOMAIN wire' = DOMAIN wire \union {Len(wire) + 1}
                  /\ wire'[Len(wire) + 1] = y
                  /\ \A i \in DOMAIN wire : wire'[i] = wire[i]
                BY <1>3, <1>5, <3>2, Extended
            <4> QED BY <1>3, <1>c, <4>1 DEF UdpInv, AnswersRight, SentOnce
        <3> QED BY <1>1, <3>1, <3>2
    <2>3. ASSUME NEW i \in DOMAIN wire'
          PROVE  /\ Matched(wire'[i])
                 /\ wire'[i].to = sessions[sends[wire'[i].len].session].RemoteEndpoint
        <3>1. CASE wire'[i] = y BY <1>3, <1>13, <3>1
        <3>2. CASE i \in DOMAIN wire /\ wire'[i] = wire[i]
            <4>1. Matched(wire[i])
                BY <3>2 DEF UdpInv, AnswersRight, SentOnce, Matched
            <4> QED BY <3>2, <4>1 DEF UdpInv, AnswersRight, SentOnce
        <3> QED BY <1>7, <3>1, <3>2
    <2>4. SentOnce' BY <1>1, <2>2, <2>3 DEF SentOnce, Matched, received
    <2> QED BY <2>1, <2>4 DEF AnswersRight
<1>16. AlwaysListening'
    <2>1. Receives(strand') = Receives(strand)
        BY <1>1, <1>3, <1>5, AppendOther
    <2> QED BY <1>1, <2>1, Balanced DEF UdpInv, Balance, received
<1> QED BY <1>4, <1>10, <1>11, <1>14, <1>15, <1>16 DEF UdpInv

(* The strand hands the end of an answer on.                               *)
LEMMA HandleResponseKeeps == UdpInv /\ HandleResponse => UdpInv'
<1> SUFFICES ASSUME UdpInv, HandleResponse PROVE UdpInv'
    OBVIOUS
<1>a. PICK h, g : h = Head(strand) /\ g = [h EXCEPT !.do = "handle_sent"]
    OBVIOUS
<1>1. /\ strand # <<>> /\ h.do = "handle_response" /\ strand' = Tail(strand)
      /\ posted' = posted \union {g}
      /\ UNCHANGED <<received, answered>>
    BY <1>a DEF HandleResponse
<1>2. strand \in Seq(Handler(Completions)) /\ h \in Handler(Completions)
    BY <1>1, <1>a DEF UdpInv, UdpTypes
<1>3. /\ g \in Handler(Calls) /\ g.do = "handle_sent"
      /\ g.session = h.session /\ g.data = h.data
    BY <1>2, <1>a DEF Handler, Calls
<1>4. UdpTypes' BY <1>1, <1>3 DEF UdpInv, UdpTypes, received, answered
<1>5. /\ 1 \in DOMAIN strand /\ strand[1] = h
      /\ \A i \in DOMAIN strand' : i + 1 \in DOMAIN strand /\ strand'[i] = strand[i + 1]
                                  /\ i + 1 # 1
      /\ \A j \in DOMAIN strand : j # 1 => j - 1 \in DOMAIN strand' /\ strand'[j - 1] = strand[j]
    BY <1>1, <1>2, <1>a, Shifted
<1>6. TakenKept BY <1>1 DEF TakenKept, Busy, received
<1>7. /\ \A i : Received(i)' => Received(i + 1) /\ strand'[i] = strand[i + 1] /\ i \in Nat
      /\ \A j : Received(j) => Received(j - 1)' /\ strand'[j - 1] = strand[j]
      /\ \A x : Requested(x)' <=> Requested(x)
    BY <1>1, <1>3, <1>4, <1>5 DEF Received, Requested, UdpTypes
<1>8. PendingInv' /\ ToldInv' /\ OnceInv' /\ NoneLost'
    <2>1. ASSUME NEW i, NEW k, NEW j, Received(i)', Received(k)', Received(j),
                 strand'[i] = strand[j], strand'[k] = strand[j]
          PROVE  i = k
        <3>1. i + 1 = k + 1 BY <1>7, <2>1 DEF UdpInv, OnceInv
        <3> QED BY <1>7, <2>1, <3>1
    <2>2. /\ \A i : Received(i)' => \E j : Received(j) /\ strand'[i] = strand[j]
          /\ \A j : Received(j) => \E i : Received(i)' /\ strand'[i] = strand[j]
        BY <1>7
    <2> QED BY <1>1, <1>4, <1>6, <1>7, <2>1, <2>2, DatagramsKept DEF received
<1>9. SendsInv' BY <1>1 DEF UdpInv, SendsInv, Busy, received, answered
<1>10. /\ \A x : OfSend(x) => OfSend(x)'
       /\ \A x : Matched(x) => Matched(x)'
    BY <1>1 DEF OfSend, Matched, answered
<1>11. OfSend(h) /\ OfSend(g)
    BY <1>1, <1>3, <1>5 DEF UdpInv, AnswersInv, OfSend
<1>12. AnswersInv'
    BY <1>1, <1>5, <1>10, <1>11 DEF UdpInv, AnswersInv, received, answered
<1>13. AnswersRight'
    BY <1>1 DEF UdpInv, AnswersRight, SentOnce, ReportedRight, received, answered
<1>14. AlwaysListening'
    <2>1. Cardinality(Receives(strand')) = Cardinality(Receives(strand))
        BY <1>1, <1>2, <1>a, TailReceives, BalanceType DEF UdpInv
    <2> QED BY <1>1, <2>1, Balanced DEF UdpInv, Balance, received
<1> QED BY <1>4, <1>8, <1>9, <1>12, <1>13, <1>14 DEF UdpInv

(* The application is told what was sent.                                  *)
LEMMA HandleSentKeeps ==
  ASSUME UdpInv, NEW h \in posted, HandleSent(h)
  PROVE  UdpInv'
<1>a. PICK r :
        r = [data |-> sessions[h.session].SendBuffer, len |-> h.data, ec |-> h.ec]
    OBVIOUS
<1>1. /\ h.do = "handle_sent" /\ posted' = posted \ {h}
      /\ reported' = Append(reported, r)
      /\ UNCHANGED <<received, posting, sending, sends, wire, strand>>
    BY <1>a DEF HandleSent
<1>2. h \in Handler(Calls) /\ OfSend(h)
    BY <1>1 DEF UdpInv, UdpTypes, AnswersInv
<1>3. /\ Busy(h.session) /\ h.data <= sessions[h.session].SendBuffer
      /\ sessions[h.session] \in Session
    BY <1>2 DEF UdpInv, UdpTypes, SendsInv, OfSend, Busy
<1>b. h.data \in Nat \ {0}
    BY <1>2, SMTT(30) DEF OfSend, UdpInv, UdpTypes
<1>4. r \in Report /\ r.data = sessions[h.session].SendBuffer /\ r.len = h.data
    BY <1>2, <1>3, <1>a DEF Report, Handler, Session
<1>5. UdpTypes' BY <1>1, <1>4 DEF UdpInv, UdpTypes, received
<1>6. /\ r.data \in DOMAIN sends /\ r.len \in DOMAIN sends
      /\ sends[r.data].session = h.session /\ sends[r.len].session = h.session
      /\ r.data # r.len => r.data > r.len
    <2>1. r.data # 0 BY <1>3, <1>4, <1>b DEF Report
    <2>2. r.data \in DOMAIN sends /\ sends[r.data].session = h.session
        BY <1>3, <1>4, <2>1 DEF UdpInv, SendsInv, Busy
    <2>3. r.len \in DOMAIN sends /\ sends[r.len].session = h.session
        BY <1>2, <1>4 DEF OfSend
    <2>4. r.data # r.len => r.data > r.len
        BY <1>3, <1>4 DEF Report
    <2> QED BY <2>2, <2>3, <2>4
<1>7. reported \in Seq(Report) BY DEF UdpInv, UdpTypes
<1>8. \A i \in DOMAIN reported' :
        (i \in DOMAIN reported /\ reported'[i] = reported[i]) \/ reported'[i] = r
    BY <1>1, <1>4, <1>7, Extended
<1>9. TakenKept BY <1>1 DEF TakenKept, Busy, received
<1>10. /\ \A i : Received(i)' <=> Received(i)
       /\ \A x : Requested(x)' <=> Requested(x)
    BY <1>1 DEF Received, Requested
<1>11. PendingInv' /\ ToldInv' /\ OnceInv' /\ NoneLost'
    <2>1. \A i, k, j : Received(i)' /\ Received(k)' /\ Received(j)
            /\ strand'[i] = strand[j] /\ strand'[k] = strand[j] => i = k
        BY <1>1, <1>10 DEF UdpInv, OnceInv
    <2> QED BY <1>1, <1>5, <1>9, <1>10, <2>1, DatagramsKept DEF received
<1>12. SendsInv' BY <1>1 DEF UdpInv, SendsInv, Busy, received
<1>13. /\ \A x : OfSend(x) => OfSend(x)'
       /\ \A x : Matched(x) => Matched(x)'
    BY <1>1 DEF OfSend, Matched
<1>14. AnswersInv'
    BY <1>1, <1>13 DEF UdpInv, AnswersInv, received
<1>15. AnswersRight'
    <2>1. SentOnce' BY <1>1 DEF UdpInv, AnswersRight, SentOnce, received
    <2>2. ReportedRight'
        BY <1>1, <1>6, <1>8 DEF UdpInv, AnswersRight, ReportedRight
    <2> QED BY <2>1, <2>2 DEF AnswersRight
<1>16. AlwaysListening' BY <1>1, Balanced DEF UdpInv, Balance, received
<1> QED BY <1>5, <1>11, <1>12, <1>14, <1>15, <1>16 DEF UdpInv

-----------------------------------------------------------------------------
LEMMA UdpStepKeeps == UdpInv /\ [UdpNext]_dvars => UdpInv'
<1> SUFFICES ASSUME UdpInv, [UdpNext]_dvars PROVE UdpInv'
    OBVIOUS
<1>1. CASE UdpRun BY <1>1, RunKeeps
<1>2. CASE HandleReceive BY <1>2, HandleReceiveKeeps
<1>3. CASE HandleResponse BY <1>3, HandleResponseKeeps
<1>4. ASSUME NEW s \in DOMAIN sessions, NEW client \in Clients,
             NEW ec \in {"none"} \union ReceiveErrors, Receive(s, client, ec)
      PROVE  UdpInv'
    BY <1>4, ReceiveKeeps
<1>5. ASSUME NEW h \in posted, HandleRequest(h) PROVE UdpInv'
    BY <1>5, HandleRequestKeeps
<1>6. ASSUME NEW h \in posted, HandleSent(h) PROVE UdpInv'
    BY <1>6, HandleSentKeeps
<1>7. ASSUME NEW i \in DOMAIN told, Send(told[i].session) PROVE UdpInv'
    BY <1>7, SendKeeps
<1>8. ASSUME NEW w \in sending, NEW ec \in {"none", "error"}, SendEnds(w, ec)
      PROVE  UdpInv'
    BY <1>8, SendEndsKeeps
<1>10. ASSUME NEW n \in posting, PostResponse(n) PROVE UdpInv'
    BY <1>10, PostResponseKeeps
<1>9. CASE UNCHANGED dvars
    BY <1>9 DEF dvars, received, answered, handlers, UdpInv, UdpTypes, PendingInv,
                Pending, ToldInv, OnceInv, NoneLost, SendsInv, AnswersInv, OfSend,
                Matched, AnswersRight, SentOnce, ReportedRight, AlwaysListening,
                Busy, Received, Requested
<1> QED BY <1>1, <1>2, <1>3, <1>4, <1>5, <1>6, <1>7, <1>8, <1>9, <1>10 DEF UdpNext

(* When the handlers are through, no datagram is on its way.               *)
LEMMA UdpConclusion == UdpInv => DatagramsRight
<1> SUFFICES ASSUME UdpInv PROVE DatagramsRight
    OBVIOUS
<1>1. \A i, j \in DOMAIN told : told[i].data = told[j].data => i = j \/ told[i].data = 0
    BY DEF UdpInv, OnceInv
<1>2. \A i \in DOMAIN told :
        told[i].data # 0 => told[i].from = arrivals[told[i].data][1]
    BY DEF UdpInv, ToldInv
<1>3. strand = <<>> /\ posted = {} =>
        \A n \in DOMAIN arrivals :
          arrivals[n][2] = "error" \/ \E i \in DOMAIN told : told[i].data = n
    BY DEF UdpInv, NoneLost, Received, Requested
<1> QED BY <1>1, <1>2, <1>3 DEF UdpInv, AnswersRight, DatagramsRight, ToldOnce

(* However many threads, clients, errors and answers: each datagram is told*)
(* once and from its own sender, the server listens as often as it was     *)
(* asked to, and every answer goes where it was meant to go, once, with    *)
(* the memory of another one only if the two were given to Send at once.   *)
THEOREM DatagramsAreRight == UdpSpec => []DatagramsRight
BY UdpInitHolds, UdpStepKeeps, UdpConclusion, PTL DEF UdpSpec

-----------------------------------------------------------------------------
(* DRESTClient, by the records that the steps of a call hand on.           *)

Links == {"none", "up", "broken"}
Responses == [fields : Nat, status : Nat, body : Seq(Nat)]
Conn ==
  [con : BOOLEAN, link : Links, owed : Seq(Nat), buffer : Seq(Nat),
   response : Responses, asked : Nat, ok : BOOLEAN, bad : Nat, careful : BOOLEAN]

(* A connection that is not up owes nothing, and while the client has been *)
(* careful nothing is owed or read ahead between calls.                    *)
Clean(c) ==
  /\ c.link # "up" => c.owed = <<>>
  /\ c.careful => /\ c.buffer = <<>> /\ c.owed = <<>>
                  /\ c.response.fields # 0 => Answers(c.response, c.asked)

(* Between a request and its response.                                     *)
Awaiting(c) ==
  /\ c.link # "up" => c.owed = <<>>
  /\ c.careful => /\ c.buffer = <<>> /\ c.response.fields = 0
                  /\ (c.owed = <<>> /\ c.link # "up") \/ c.owed = <<c.asked>>

RestInv == Now \in Conn /\ Clean(Now) /\ ret \in BOOLEAN

LEMMA EmptyType == <<>> \in Seq(Nat)
OBVIOUS

(* What clear(), a parser and a failed read leave of a response.           *)
LEMMA NoneType == NoResponse \in Responses /\ NoResponse.fields = 0
BY EmptyType DEF NoResponse, Responses

LEMMA ClearedType ==
  ASSUME NEW r \in Responses
  PROVE  Cleared(r) \in Responses /\ Cleared(r).fields = 0
BY DEF Cleared, Responses

LEMMA MovedType ==
  ASSUME NEW r \in Responses
  PROVE  MovedFrom(r) \in Responses /\ MovedFrom(r).fields = 0
BY EmptyType DEF MovedFrom, Responses

LEMMA ParsedAnswers ==
  ASSUME NEW r \in Responses, NEW n \in Nat
  PROVE  Parsed(r, n) \in Responses /\ Answers(Parsed(r, n), n)
<1>1. r.body \in Seq(Nat) BY DEF Responses
<1>2. PICK b : b = Append(r.body, n) OBVIOUS
<1>3. b \in Seq(Nat) /\ b # <<>> /\ b[Len(b)] = n BY <1>1, <1>2
<1>4. Parsed(r, n) = [fields |-> n, status |-> n, body |-> b]
  BY <1>2 DEF Parsed
<1> QED BY <1>3, <1>4 DEF Responses, Answers

LEMMA NewAnswer ==
  ASSUME NEW c \in Conn, NEW ok \in BOOLEAN
  PROVE  /\ [c EXCEPT !.ok = ok] \in Conn
         /\ Clean(c) => Clean([c EXCEPT !.ok = ok])
         /\ Awaiting(c) => Awaiting([c EXCEPT !.ok = ok])
BY DEF Conn, Clean, Awaiting

LEMMA BadType ==
  ASSUME NEW c \in Conn
  PROVE  Bad(c) \in Conn /\ (Clean(c) => Clean(Bad(c)))
<1>1. c.bad + 1 \in Nat BY DEF Conn
<1>2. Bad(c) = [[c EXCEPT !.ok = FALSE] EXCEPT !.bad = c.bad + 1] BY DEF Bad, Conn
<1>3. [c EXCEPT !.ok = FALSE] \in Conn BY NewAnswer
<1>4. Clean(c) => Clean([c EXCEPT !.ok = FALSE]) BY NewAnswer
<1> QED BY <1>1, <1>2, <1>3, <1>4 DEF Conn, Clean

LEMMA BadClean ==
  ASSUME NEW c \in Conn, Clean(c)
  PROVE  /\ Fails(c) \in Conn /\ Clean(Fails(c))
         /\ Bad(c) \in Conn /\ Clean(Bad(c))
BY NewAnswer, BadType DEF Fails

(* The sockets that a call may leave.                                      *)
LEMMA NewLink ==
  ASSUME NEW c \in Conn, Clean(c), NEW con \in BOOLEAN, NEW l \in Links
  PROVE  LET d == [c EXCEPT !.con = con, !.link = l, !.owed = <<>>] IN
           d \in Conn /\ Clean(d)
BY EmptyType DEF Conn, Clean

LEMMA ConnectsClean ==
  ASSUME NEW c \in Conn, Clean(c), NEW forced, NEW d \in Connects(c, forced)
  PROVE  d \in Conn /\ Clean(d)
<1>1. CASE d = Fails(c) BY <1>1, BadClean, SMTT(30)
<1>2. CASE d = [Ok(c) EXCEPT !.con = TRUE, !.link = "up", !.owed = <<>>]
  <2>1. Ok(c) \in Conn /\ Clean(Ok(c)) BY NewAnswer DEF Ok
  <2> QED BY <1>2, <2>1, NewLink DEF Links
<1>3. CASE d = [Bad(c) EXCEPT !.con = FALSE]
  <2>1. Bad(c) \in Conn /\ Clean(Bad(c)) BY BadClean, SMTT(30)
  <2> QED BY <1>3, <2>1 DEF Conn, Clean
<1>4. CASE d = [Bad(c) EXCEPT !.con = FALSE, !.link = "none", !.owed = <<>>]
  <2>1. Bad(c) \in Conn /\ Clean(Bad(c)) BY BadClean
  <2> QED BY <1>4, <2>1, NewLink DEF Links
<1> QED BY <1>1, <1>2, <1>3, <1>4 DEF Connects

LEMMA DisconnectsClean ==
  ASSUME NEW c \in Conn, Clean(c), NEW forced, NEW d \in Disconnects(c, forced)
  PROVE  d \in Conn /\ Clean(d)
<1>1. CASE d \in {Fails(c), Bad(c)} BY <1>1, BadClean, SMTT(30)
<1>2. CASE d = [Ok(c) EXCEPT !.con = FALSE, !.link = "none", !.owed = <<>>]
  <2>1. Ok(c) \in Conn /\ Clean(Ok(c)) BY NewAnswer DEF Ok
  <2> QED BY <1>2, <2>1, NewLink DEF Links
<1> QED BY <1>1, <1>2 DEF Disconnects

(* What Sends leaves is Clean, or a request that waits for its response.   *)
LEMMA SendsAwaiting ==
  ASSUME NEW c \in Conn, Clean(c), NEW d \in Sends(c)
  PROVE  d \in Conn /\ (d.ok => Awaiting(d)) /\ (~d.ok => Clean(d))
<1> DEFINE e == [c EXCEPT !.response = Cleared(@)]
<1> DEFINE s == [Ok(e) EXCEPT !.asked = e.asked + 1]
<1>1. CASE d = Fails(c) BY <1>1, BadClean DEF Fails, Conn
<1>2. CASE d \in Writes(e)
  <2>r. c.response \in Responses BY DEF Conn
  <2>c. PICK r : r = Cleared(c.response) OBVIOUS
  <2>d. r \in Responses /\ r.fields = 0 BY <2>r, <2>c, ClearedType
  <2>e. e = [c EXCEPT !.response = r] BY <2>c DEF Conn
  <2>0. e \in Conn /\ Clean(e) /\ e.response.fields = 0
    BY <2>d, <2>e DEF Conn, Clean
  <2>s. /\ s \in Conn /\ s.ok /\ s.link = e.link /\ s.asked = e.asked + 1
        /\ s.owed = e.owed /\ s.buffer = e.buffer /\ s.response = e.response
        /\ s.careful = e.careful
    <3>1. e.asked + 1 \in Nat BY <2>0 DEF Conn
    <3>2. Ok(e) \in Conn /\ Ok(e).ok BY <2>0, NewAnswer DEF Ok, Conn
    <3>3. /\ Ok(e).link = e.link /\ Ok(e).owed = e.owed /\ Ok(e).buffer = e.buffer
          /\ Ok(e).response = e.response /\ Ok(e).careful = e.careful
      BY <2>0 DEF Ok, Conn
    <3> HIDE DEF e
    <3> QED BY <3>1, <3>2, <3>3 DEF Conn
  <2> HIDE DEF e, s
  <2>1. CASE d = Fails(e) BY <2>0, <2>1, BadClean DEF Fails, Conn
  <2>2. CASE d = s /\ e.link = "broken"
    BY <2>0, <2>s, <2>2 DEF Awaiting, Clean
  <2>3. CASE d = [s EXCEPT !.owed = Append(@, e.asked + 1)] /\ e.link = "up"
    <3>1. s.owed \in Seq(Nat) /\ e.asked + 1 \in Nat BY <2>0, <2>s DEF Conn
    <3>2. Append(s.owed, e.asked + 1) \in Seq(Nat) BY <3>1
    <3>3. /\ d \in Conn /\ d.ok /\ d.link = "up" /\ d.asked = e.asked + 1
          /\ d.owed = Append(s.owed, e.asked + 1) /\ d.buffer = e.buffer
          /\ d.response = e.response /\ d.careful = e.careful
      BY <2>s, <2>3, <3>2 DEF Conn
    <3>4. s.owed = <<>> => d.owed = <<d.asked>> BY <3>1, <3>3
    <3> QED BY <2>0, <2>s, <3>3, <3>4 DEF Awaiting, Clean
  <2>4. CASE d = [Bad(e) EXCEPT !.link = "broken", !.owed = <<>>]
    <3>1. Bad(e) \in Conn /\ Clean(Bad(e)) BY <2>0, BadClean
    <3>2. ~d.ok BY <2>0, <2>4 DEF Bad, Conn
    <3> QED BY <2>4, <3>1, <3>2, EmptyType DEF Conn, Clean, Links
  <2> QED BY <1>2, <2>1, <2>2, <2>3, <2>4 DEF Writes, s
<1> QED BY <1>1, <1>2 DEF Sends

LEMMA PartsType ==
  ASSUME NEW s \in Seq(Nat), NEW n \in 1..Len(s)
  PROVE  /\ s[1] \in Nat /\ SubSeq(s, 2, n) \in Seq(Nat)
         /\ SubSeq(s, n + 1, Len(s)) \in Seq(Nat)
<1>1. Len(s) \in Nat OBVIOUS
<1>2. s[1] \in Nat BY <1>1
<1>3. \A i \in 2..n : s[i] \in Nat BY <1>1
<1>4. \A i \in n + 1..Len(s) : s[i] \in Nat BY <1>1
<1>5. SubSeq(s, 2, n) \in Seq(Nat) BY <1>1, <1>3
<1>6. SubSeq(s, n + 1, Len(s)) \in Seq(Nat) BY <1>1, <1>4
<1> QED BY <1>2, <1>5, <1>6

(* http::read takes the first n of what is read ahead and of what is owed. *)
LEMMA ReadAhead ==
  ASSUME NEW b \in Seq(Nat), NEW o \in Seq(Nat),
         NEW n \in (IF b = <<>> THEN 1 ELSE Len(b))..Len(b \o o)
  PROVE  /\ n \in 1..Len(b \o o)
         /\ (b \o o)[1] \in Nat /\ SubSeq(b \o o, 2, n) \in Seq(Nat)
         /\ SubSeq(b \o o, n + 1, Len(b \o o)) \in Seq(Nat)
<1>1. b \o o \in Seq(Nat) OBVIOUS
<1>2. n \in 1..Len(b \o o)
  <2>1. CASE b = <<>> BY <2>1
  <2>2. CASE b # <<>>
    <3>1. Len(b) \in Nat /\ Len(b) >= 1 BY <2>2
    <3>2. Len(b \o o) \in Nat BY <1>1
    <3> QED BY <2>2, <3>1, <3>2
  <2> QED BY <2>1, <2>2
<1> QED BY <1>1, <1>2, PartsType

LEMMA ReadsClean ==
  ASSUME NEW c \in Conn, Awaiting(c), NEW d \in Reads(c)
  PROVE  d \in Conn /\ Clean(d)
<1> DEFINE all == c.buffer \o c.owed
<1>0. all \in Seq(Nat) /\ c.buffer \in Seq(Nat) /\ c.owed \in Seq(Nat) BY DEF Conn
<1>r. c.response \in Responses BY DEF Conn
<1>m. PICK r : r = MovedFrom(c.response) OBVIOUS
<1>t. r \in Responses BY <1>r, <1>m, MovedType
<1>1. CASE d = NotRead(c)
  <2>1. Fails(c) \in Conn /\ Fails(c).response = c.response BY DEF Fails, Conn
  <2>2. d = [Fails(c) EXCEPT !.careful = FALSE, !.response = r]
    BY <1>1, <1>m, <2>1 DEF NotRead, Conn
  <2>3. d \in Conn /\ ~d.careful BY <1>t, <2>1, <2>2 DEF Conn
  <2>4. d.link = c.link /\ d.owed = c.owed BY <2>2 DEF Fails, Conn
  <2> QED BY <2>3, <2>4 DEF Awaiting, Clean
<1>2. CASE d \in Broken(c)
  <2>1. PICK part \in {<<>>, <<0>>} :
          d = [Bad(c) EXCEPT !.link = "broken", !.owed = <<>>, !.careful = FALSE,
                             !.response = MovedFrom(@),
                             !.buffer = c.buffer \o part]
    BY <1>2 DEF Broken
  <2>2. c.buffer \o part \in Seq(Nat)
    <3>1. <<0>> \in Seq(Nat) /\ <<>> \in Seq(Nat) OBVIOUS
    <3>2. part \in Seq(Nat) BY <2>1, <3>1
    <3> QED BY <1>0, <3>2
  <2>3. Bad(c) \in Conn BY BadType
  <2>5. Bad(c).response = c.response BY DEF Bad, Conn
  <2>6. d = [Bad(c) EXCEPT !.link = "broken", !.owed = <<>>, !.careful = FALSE,
                           !.response = r, !.buffer = c.buffer \o part]
    BY <1>m, <2>1, <2>3, <2>5 DEF Conn
  <2>4. d \in Conn /\ d.link = "broken" /\ d.owed = <<>> /\ ~d.careful
    BY <1>t, <2>2, <2>3, <2>6, EmptyType DEF Conn, Links
  <2> QED BY <2>4 DEF Clean
<1>3. ASSUME NEW n \in (IF c.buffer = <<>> THEN 1 ELSE Len(c.buffer))..Len(all),
             d = Taken(c, n), c.buffer = <<>> => c.link = "up"
      PROVE  d \in Conn /\ Clean(d)
  <2> DEFINE rest == IF n <= Len(c.buffer) THEN c.owed ELSE SubSeq(all, n + 1, Len(all))
  <2>1. n \in 1..Len(all) BY <1>0, <1>3, ReadAhead
  <2>2. all[1] \in Nat /\ SubSeq(all, 2, n) \in Seq(Nat) BY <1>0, <1>3, ReadAhead
  <2>3. rest \in Seq(Nat) BY <1>0, <1>3, ReadAhead
  <2>a. PICK q : q = Parsed(c.response, all[1]) OBVIOUS
  <2>b. q \in Responses /\ Answers(q, all[1]) BY <1>r, <2>2, <2>a, ParsedAnswers
  <2>5. Ok(c) \in Conn /\ Ok(c).response = c.response BY DEF Ok, Conn
  <2>4. d = [Ok(c) EXCEPT !.response = q, !.buffer = SubSeq(all, 2, n), !.owed = rest]
    BY <1>3, <2>a, <2>5 DEF Taken, Conn
  <2> HIDE DEF rest
  <2>6. /\ d \in Conn /\ Answers(d.response, all[1])
        /\ d.buffer = SubSeq(all, 2, n) /\ d.owed = rest
    BY <2>2, <2>3, <2>4, <2>5, <2>b DEF Conn
  <2>7. d.link = c.link /\ d.asked = c.asked /\ d.careful = c.careful
    BY <2>4 DEF Ok, Conn
  <2>8. ASSUME c.link # "up"
        PROVE  d.owed = <<>>
    <3>1. c.owed = <<>> /\ c.buffer # <<>> BY <1>3, <2>8 DEF Awaiting
    <3>2. n <= Len(c.buffer) BY <1>0, <2>1, <3>1
    <3> QED BY <2>6, <3>1, <3>2 DEF rest
  <2>9. ASSUME c.careful
        PROVE  d.buffer = <<>> /\ d.owed = <<>> /\ Answers(d.response, d.asked)
    <3>1. c.buffer = <<>> /\ c.owed = <<c.asked>> BY <1>3, <2>9 DEF Awaiting
    <3>2. all = <<c.asked>> BY <1>0, <3>1
    <3>3. n = 1 BY <2>1, <3>2
    <3> QED BY <2>6, <2>7, <3>1, <3>2, <3>3 DEF rest
  <2> QED BY <2>6, <2>7, <2>8, <2>9 DEF Clean
<1> QED BY <1>1, <1>2, <1>3 DEF Reads

LEMMA AnsweredClean ==
  ASSUME NEW c \in Conn, c.ok => Awaiting(c), ~c.ok => Clean(c),
         NEW Wait, NEW d \in Answered(c, Wait)
  PROVE  d \in Conn /\ Clean(d)
<1>1. CASE ~c.ok BY <1>1 DEF Answered
<1>2. CASE c.ok /\ Wait BY <1>2, ReadsClean DEF Answered
<1>3. CASE c.ok /\ ~Wait BY <1>3 DEF Answered, Awaiting, Clean, Conn
<1> QED BY <1>1, <1>2, <1>3

LEMMA SendsPOSTClean ==
  ASSUME NEW c \in Conn, Clean(c), NEW Wait, NEW d \in SendsPOST(c, Wait)
  PROVE  d \in Conn /\ Clean(d)
<1>1. CASE c.con
  <2>1. PICK s \in Sends(c) : d \in Answered(s, Wait) BY <1>1 DEF SendsPOST
  <2> QED BY <2>1, SendsAwaiting, AnsweredClean
<1>2. CASE ~c.con
  <2>1. PICK k \in Connects(c, FALSE) :
          d \in IF ~k.ok THEN {k} ELSE
                  UNION { {Returning(e, a.ok) : e \in Disconnects(a, FALSE)} :
                    a \in UNION {Answered(s, Wait) : s \in Sends(k)} }
    BY <1>2 DEF SendsPOST
  <2>2. k \in Conn /\ Clean(k) BY ConnectsClean
  <2>3. CASE ~k.ok BY <2>1, <2>2, <2>3
  <2>4. CASE k.ok
    <3>1. PICK a \in UNION {Answered(s, Wait) : s \in Sends(k)} :
            d \in {Returning(e, a.ok) : e \in Disconnects(a, FALSE)}
      BY <2>1, <2>4
    <3>2. PICK s \in Sends(k) : a \in Answered(s, Wait) BY <3>1
    <3>3. a \in Conn /\ Clean(a) BY <2>2, <3>2, SendsAwaiting, AnsweredClean
    <3>4. PICK e \in Disconnects(a, FALSE) : d = Returning(e, a.ok) BY <3>1
    <3>5. e \in Conn /\ Clean(e) BY <3>3, DisconnectsClean
    <3>6. a.ok \in BOOLEAN BY <3>3 DEF Conn
    <3> QED BY <3>4, <3>5, <3>6, NewAnswer DEF Returning
  <2> QED BY <2>3, <2>4
<1> QED BY <1>1, <1>2

LEMMA SendsPlainClean ==
  ASSUME NEW c \in Conn, Clean(c), NEW Wait \in BOOLEAN, NEW d \in SendsPlain(c, Wait)
  PROVE  d \in Conn /\ Clean(d)
<1>1. PICK s \in Sends(c) :
        d \in {Returning(a, a.ok /\ Wait) : a \in Answered(s, Wait)}
  BY DEF SendsPlain
<1>2. PICK a \in Answered(s, Wait) : d = Returning(a, a.ok /\ Wait) BY <1>1
<1>3. a \in Conn /\ Clean(a) BY <1>1, <1>2, SendsAwaiting, AnsweredClean
<1>4. (a.ok /\ Wait) \in BOOLEAN OBVIOUS
<1> QED BY <1>2, <1>3, <1>4, NewAnswer DEF Returning

-----------------------------------------------------------------------------
(* The calls.                                                              *)

LEMMA EndsClean ==
  ASSUME NEW c \in Conn, Clean(c), Ends(c)
  PROVE  RestInv'
BY DEF Ends, RestInv, Now, Conn, Clean

LEMMA RestInitHolds == RestInit => RestInv
<1> SUFFICES ASSUME RestInit PROVE RestInv OBVIOUS
<1>1. /\ Connected = FALSE /\ link = "none" /\ owed = <<>> /\ Buffer = <<>>
      /\ HttpResponse = NoResponse /\ asked = 0 /\ ret = TRUE /\ careful = TRUE
  BY DEF RestInit
<1>2. Now \in Conn BY <1>1, EmptyType, NoneType DEF Now, Conn, Links
<1> QED BY <1>1, <1>2, NoneType DEF RestInv, Now, Clean

LEMMA ClearKeeps == RestInv /\ Clear => RestInv'
<1> SUFFICES ASSUME RestInv, Clear PROVE RestInv' OBVIOUS
<1>1. PICK c \in IF Connected THEN Disconnects(Now, FALSE) ELSE {Now} :
        Ends([c EXCEPT !.con = FALSE, !.response = Cleared(@), !.buffer = <<>>,
                       !.ok = ret, !.careful = @ \/ c.link # "up"])
  BY DEF Clear
<1>2. Now \in Conn /\ Clean(Now) BY DEF RestInv
<1>3. c \in Conn /\ Clean(c) BY <1>1, <1>2, DisconnectsClean
<1>4. (c.careful \/ c.link # "up") \in BOOLEAN /\ ret \in BOOLEAN
  BY DEF RestInv
<1>5. PICK k \in BOOLEAN : k = (c.careful \/ c.link # "up") BY <1>4
<1>c. PICK r : r = Cleared(c.response) OBVIOUS
<1>r. r \in Responses /\ r.fields = 0 BY <1>3, <1>c, ClearedType DEF Conn
<1>6. PICK d : d = [c EXCEPT !.con = FALSE, !.response = r, !.buffer = <<>>,
                             !.ok = ret, !.careful = k]
  OBVIOUS
<1>7. Ends(d) BY <1>1, <1>3, <1>5, <1>6, <1>c DEF Conn
<1>8. d \in Conn /\ Clean(d)
  <2>1. /\ d \in Conn /\ d.link = c.link /\ d.owed = c.owed /\ d.buffer = <<>>
        /\ d.response = r /\ d.careful = k
    BY <1>3, <1>4, <1>6, <1>r, EmptyType DEF Conn
  <2> QED BY <1>3, <1>5, <1>r, <2>1 DEF Clean
<1> QED BY <1>7, <1>8, EndsClean

LEMMA RestStepKeeps == RestInv /\ [RestNext]_rvars => RestInv'
<1> SUFFICES ASSUME RestInv, [RestNext]_rvars PROVE RestInv' OBVIOUS
<1>0. Now \in Conn /\ Clean(Now) BY DEF RestInv
<1>1. CASE Configure \/ UNCHANGED rvars
  <2>1. /\ UNCHANGED <<Connected, link, owed, Buffer, HttpResponse, asked, careful>>
        /\ ret' = ret \/ \E url \in Urls : ret' = url.valid
    BY <1>1 DEF Configure, SetUrl, Set, rvars, network
  <2>2. Now' = Now BY <2>1 DEF Now
  <2>3. ret' \in BOOLEAN BY <2>1, UrlsAssumption DEF RestInv
  <2> QED BY <1>0, <2>2, <2>3 DEF RestInv
<1>2. CASE Connect
  <2>1. PICK forced \in BOOLEAN : \E c \in Connects(Now, forced) : Ends(c)
    BY <1>2 DEF Connect
  <2> QED BY <1>0, <2>1, ConnectsClean, EndsClean
<1>3. CASE Disconnect
  <2>1. PICK forced \in BOOLEAN : \E c \in Disconnects(Now, forced) : Ends(c)
    BY <1>3 DEF Disconnect
  <2> QED BY <1>0, <2>1, DisconnectsClean, EndsClean
<1>4. CASE SendPOST
  <2>1. PICK Wait \in BOOLEAN : \E c \in SendsPOST(Now, Wait) : Ends(c)
    BY <1>4 DEF SendPOST
  <2> QED BY <1>0, <2>1, SendsPOSTClean, EndsClean
<1>5. CASE SendPlain
  <2>1. PICK Wait \in BOOLEAN : \E c \in SendsPlain(Now, Wait) : Ends(c)
    BY <1>5 DEF SendPlain
  <2> QED BY <1>0, <2>1, SendsPlainClean, EndsClean
<1>6. CASE Clear BY <1>6, ClearKeeps
<1>7. CASE Break
  <2>1. /\ link' = "broken" /\ owed' = <<>> /\ Connected' = Connected
        /\ Buffer' = Buffer /\ HttpResponse' = HttpResponse /\ asked' = asked
        /\ careful' = careful /\ ret' = ret
    BY <1>7 DEF Break
  <2>2. /\ Connected \in BOOLEAN /\ Buffer \in Seq(Nat) /\ HttpResponse \in Responses
        /\ asked \in Nat /\ careful \in BOOLEAN
    BY <1>0 DEF Now, Conn
  <2>3. careful => /\ Buffer = <<>>
                   /\ HttpResponse.fields # 0 => Answers(HttpResponse, asked)
    BY <1>0 DEF Now, Clean
  <2>4. Now' \in Conn BY <2>1, <2>2, EmptyType DEF Now, Conn, Links
  <2> QED BY <2>1, <2>3, <2>4 DEF RestInv, Now, Clean
<1> QED BY <1>1, <1>2, <1>3, <1>4, <1>5, <1>6, <1>7 DEF RestNext

(* For any Urls, texts and settings, and however often the network fails:  *)
(* the response that the calls leave with a careful client is that of its  *)
(* own request, although http::read reads ahead and a request may be lost  *)
(* with the connection.                                                    *)
THEOREM OwnAnswers == RestSpec => []AnswersOwnRequest
<1>1. RestInv => AnswersOwnRequest
  BY DEF RestInv, AnswersOwnRequest, Now, Clean, Conn
<1> QED BY <1>1, RestInitHolds, RestStepKeeps, PTL DEF RestSpec
=============================================================================
