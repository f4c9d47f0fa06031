------------------------------ MODULE DTcpServer ------------------------------
(***************************************************************************)
(* One DTcpServer (lib/network/DTcpServer.cpp): the thread of Run, whose   *)
(* handlers are one action each, the clients at the other ends, and an     *)
(* application that keeps the connections OnAccept gives it and writes on  *)
(* them from another thread.  Every Write is a message with the next       *)
(* number.  All four callbacks are set, and none of them writes.           *)
(***************************************************************************)
EXTENDS Integers, SequencesExt

CONSTANTS
  MaxConnections,  \* bound: how many connections are accepted or fail
  MaxWrites,       \* bound: how many messages a connection is given
  MaxData,         \* bound: how often a client sends something
  ReadTimeouts, WriteTimeouts  \* the timeouts Run is called with, 0 for none

VARIABLES
  acceptor_,       \* "new", "open" or "closed"
  LastConnectionID,
  active_connections_,
  conn,            \* the connections
  ReadTimeoutSec, WriteTimeoutSec,
  running          \* io_service.run()

tvars == <<acceptor_, LastConnectionID, active_connections_, conn,
           ReadTimeoutSec, WriteTimeoutSec, running>>
server == <<acceptor_, LastConnectionID, ReadTimeoutSec, WriteTimeoutSec,
            running>>

IDs == 1..MaxConnections

(* buffers_: what waits and what is being written; wire: what the client   *)
(* has been sent.  A timer is armed, or its handler is due.                *)
NewConnection ==
  [stage |-> "new", held |-> FALSE, reading |-> FALSE, gone |-> FALSE,
   data |-> 0,
   waiting |-> <<>>, buffer_seq_ |-> <<>>, wire |-> <<>>, given |-> 0,
   failed |-> FALSE, closing_ |-> FALSE, closed_ |-> FALSE,
   read_timer |-> "off", write_timer |-> "off",
   leaked |-> FALSE]

TcpInit ==
  /\ acceptor_ = "new" /\ LastConnectionID = 0
  /\ active_connections_ = {} /\ running = FALSE
  /\ conn = [c \in IDs |-> NewConnection]
  /\ ReadTimeoutSec \in ReadTimeouts /\ WriteTimeoutSec \in WriteTimeouts

IsWriting(k) == k.buffer_seq_ # <<>>

(* The shared pointers to a connection: the accept handler, the list, the  *)
(* handlers of its reading and writing, and the application.               *)
Referred(c, k, active) ==
  \/ k.stage = "accepting" \/ c \in active \/ k.reading \/ IsWriting(k)
  \/ k.held

(* With the last of them the destructor calls OnClosed; timers that are    *)
(* not due are cancelled.                                                  *)
Live(c, k, active) ==
  IF k.stage = "new" \/ Referred(c, k, active) THEN k
  ELSE [k EXCEPT !.stage = "dead",
                 !.read_timer = IF @ = "due" THEN "due" ELSE "off",
                 !.write_timer = IF @ = "due" THEN "due" ELSE "off"]

(* A handler or a call has left connection c as k.                         *)
Becomes(c, k, active) ==
  /\ active_connections_' = active
  /\ conn' = [conn EXCEPT ![c] = Live(c, k, active)]

Armed(timer, sec) ==
  IF sec = 0 THEN timer ELSE IF timer = "due" THEN "due" ELSE "armed"

-----------------------------------------------------------------------------
(* Connection.                                                             *)

DoRead(k) ==
  [k EXCEPT !.reading = TRUE, !.read_timer = Armed(@, ReadTimeoutSec)]

(* Fault: the buffers are not switched, and what is given while it writes  *)
(* joins what is being written.                                            *)
DoWrite_NoSwitch(k) ==
  [k EXCEPT !.buffer_seq_ = @ \o k.waiting,
            !.write_timer = Armed(@, WriteTimeoutSec)]

(* The double buffer: what waits becomes what is written.                  *)
DoWrite(k) ==
  [k EXCEPT !.buffer_seq_ = k.waiting, !.waiting = <<>>,
            !.write_timer = Armed(@, WriteTimeoutSec)]

(* Fault: the list keeps the connection.                                   *)
Shutdown_KeepsActive(c, k) ==
  <<[k EXCEPT !.closing_ = TRUE, !.closed_ = TRUE], active_connections_>>

(* Shutting the socket down aborts what is read and written.               *)
Shutdown(c, k) ==
  IF k.closed_ THEN <<k, active_connections_>>
  ELSE <<[k EXCEPT !.closing_ = TRUE, !.closed_ = TRUE],
         active_connections_ \ {c}>>

(* While it writes, Close leaves the rest to no one: nothing but the read  *)
(* timer or a write that fails ends the connection then.                   *)
Close(c, k) ==
  IF ~IsWriting(k) THEN Shutdown(c, [k EXCEPT !.closing_ = TRUE])
  ELSE <<[k EXCEPT !.closing_ = TRUE, !.leaked = k.read_timer = "off"],
         active_connections_>>

ReadData(c) ==
  /\ running /\ conn[c].reading /\ ~conn[c].closed_ /\ ~conn[c].gone
  /\ conn[c].data < MaxData
  /\ Becomes(c, DoRead([conn[c] EXCEPT !.data = @ + 1]), active_connections_)
  /\ UNCHANGED server

ReadError(c) ==
  /\ running /\ conn[c].reading /\ (conn[c].closed_ \/ conn[c].gone)
  /\ LET r == Close(c, [conn[c] EXCEPT !.reading = FALSE]) IN
       Becomes(c, r[1], r[2])
  /\ UNCHANGED server

(* Write, of a string or a buffer, under the lock that the handler of a    *)
(* write takes too.                                                        *)
Write(c) ==
  /\ conn[c].held /\ conn[c].given < MaxWrites
  /\ LET k == [conn[c] EXCEPT !.given = @ + 1,
                              !.waiting = Append(@, conn[c].given + 1)] IN
       Becomes(c, IF IsWriting(k) THEN k ELSE DoWrite(k), active_connections_)
  /\ UNCHANGED server

Written(k) ==
  [k EXCEPT !.buffer_seq_ = <<>>,
            !.write_timer = IF @ = "due" THEN "due" ELSE "off"]

WriteDone(c) ==
  /\ running /\ IsWriting(conn[c]) /\ ~conn[c].closed_
  /\ LET k == [Written(conn[c]) EXCEPT
                 !.wire = conn[c].wire \o conn[c].buffer_seq_] IN
       Becomes(c, IF k.waiting = <<>> THEN k ELSE DoWrite(k),
               active_connections_)
  /\ UNCHANGED server

(* A part of what was being written has been sent.                         *)
WriteError(c) ==
  /\ running /\ IsWriting(conn[c]) /\ (conn[c].closed_ \/ conn[c].gone)
  /\ \E part \in 0..Len(conn[c].buffer_seq_) :
       LET k == [Written(conn[c]) EXCEPT
                   !.failed = TRUE,
                   !.wire = IF conn[c].failed THEN @
                            ELSE @ \o SubSeq(conn[c].buffer_seq_, 1, part)]
           r == Close(c, k) IN
         Becomes(c, r[1], r[2])
  /\ UNCHANGED server

(* A timer runs out: its handler is due, and no cancel reaches it.         *)
Expires(c) ==
  /\ running
  /\ \/ /\ conn[c].read_timer = "armed"
        /\ Becomes(c, [conn[c] EXCEPT !.read_timer = "due"], active_connections_)
     \/ /\ conn[c].write_timer = "armed"
        /\ Becomes(c, [conn[c] EXCEPT !.write_timer = "due"], active_connections_)
  /\ UNCHANGED server

(* The handler has a bare this: of a dead connection nothing is said.      *)
TimerFires(c) ==
  /\ running /\ conn[c].stage # "dead"
  /\ \/ /\ conn[c].read_timer = "due"
        /\ LET r == Shutdown(c, [conn[c] EXCEPT !.read_timer = "off"]) IN
             Becomes(c, r[1], r[2])
     \/ /\ conn[c].write_timer = "due"
        /\ LET r == Shutdown(c, [conn[c] EXCEPT !.write_timer = "off"]) IN
             Becomes(c, r[1], r[2])
  /\ UNCHANGED server

-----------------------------------------------------------------------------
(* DTcpServer.                                                             *)

(* DoAccept waits with a new connection, if the acceptor is open.          *)
DoAccept(conns) ==
  IF acceptor_ # "closed" /\ LastConnectionID < MaxConnections
    THEN /\ LastConnectionID' = LastConnectionID + 1
         /\ conn' = [conns EXCEPT ![LastConnectionID'].stage = "accepting"]
    ELSE conn' = conns /\ UNCHANGED LastConnectionID

TcpRun ==
  /\ acceptor_ = "new" /\ acceptor_' = "open" /\ running' = TRUE
  /\ DoAccept(conn)
  /\ UNCHANGED <<active_connections_, ReadTimeoutSec, WriteTimeoutSec>>

(* OnAccept, the list and Start, then the next one.                        *)
Accepted(c) ==
  /\ running /\ conn[c].stage = "accepting" /\ acceptor_ = "open"
  /\ active_connections_' = active_connections_ \cup {c}
  /\ DoAccept([conn EXCEPT
       ![c] = DoRead([conn[c] EXCEPT !.stage = "open", !.held = TRUE])])
  /\ UNCHANGED <<acceptor_, ReadTimeoutSec, WriteTimeoutSec, running>>

(* The connection that was to be is closed too: OnClosed for an ID that    *)
(* OnAccept has never told.                                                *)
AcceptFails(c) ==
  /\ running /\ conn[c].stage = "accepting"
  /\ DoAccept([conn EXCEPT ![c].stage = "dead"])
  /\ UNCHANGED <<acceptor_, active_connections_, ReadTimeoutSec,
                 WriteTimeoutSec, running>>

(* Called in a callback: all connections are shut down, and no handler     *)
(* runs any more.                                                          *)
Stop ==
  /\ running /\ running' = FALSE /\ acceptor_' = "closed"
  /\ active_connections_' = {}
  /\ conn' = [c \in IDs |->
       IF c \in active_connections_
         THEN Live(c, [conn[c] EXCEPT !.closing_ = TRUE, !.closed_ = TRUE], {})
         ELSE conn[c]]
  /\ UNCHANGED <<LastConnectionID, ReadTimeoutSec, WriteTimeoutSec>>

(* The end of the server drops the handlers that have not run.             *)
Destroy ==
  /\ acceptor_ = "closed" /\ ~running
  /\ \E c \in IDs : conn[c].stage \in {"accepting", "open"} /\ ~conn[c].held
  /\ conn' = [c \in IDs |->
       IF conn[c].stage = "new" \/ conn[c].held THEN conn[c]
       ELSE [conn[c] EXCEPT !.stage = "dead", !.reading = FALSE,
                            !.buffer_seq_ = <<>>]]
  /\ UNCHANGED <<acceptor_, LastConnectionID, active_connections_,
                 ReadTimeoutSec, WriteTimeoutSec, running>>

(* The client leaves; the application lets the connection go.              *)
Leaves(c) ==
  /\ conn[c].stage = "open" /\ ~conn[c].gone
  /\ conn' = [conn EXCEPT ![c].gone = TRUE]
  /\ UNCHANGED <<server, active_connections_>>

Release(c) ==
  /\ conn[c].held
  /\ Becomes(c, [conn[c] EXCEPT !.held = FALSE], active_connections_)
  /\ UNCHANGED server

Handlers(c) ==
  ReadError(c) \/ WriteDone(c) \/ WriteError(c) \/ TimerFires(c)

TcpNext ==
  \/ TcpRun \/ Stop \/ Destroy
  \/ \E c \in IDs :
       \/ Handlers(c) \/ ReadData(c) \/ Write(c) \/ Expires(c) \/ Accepted(c)
       \/ AcceptFails(c) \/ Leaves(c) \/ Release(c)

(* What is due is done while io_service.run() runs: handlers whose          *)
(* operation has ended, timers, and the release of what the application    *)
(* holds.                                                                  *)
Fairness ==
  /\ WF_tvars(Destroy)
  /\ \A c \in IDs :
       WF_tvars(Handlers(c)) /\ WF_tvars(Expires(c)) /\ WF_tvars(Release(c))

TcpSpec == TcpInit /\ [][TcpNext]_tvars /\ Fairness

-----------------------------------------------------------------------------
Numbers(n) == [i \in 1..n |-> i]

(* A client is sent what the application has written, in that order and    *)
(* each message once; until something fails, nothing is lost on the way.   *)
SentInOrder ==
  \A c \in IDs :
    LET k == conn[c] IN
      /\ IsPrefix(k.wire, Numbers(k.given))
      /\ ~k.failed /\ k.stage # "dead" =>
           k.wire \o k.buffer_seq_ \o k.waiting = Numbers(k.given)

(* A connection whose client has left and that the application has let go  *)
(* is closed in the end, unless it was writing when the client left and    *)
(* has no read timeout.                                                    *)
ClosedInTheEnd ==
  \A c \in IDs :
    conn[c].gone ~> conn[c].stage = "dead" \/ conn[c].leaked
=============================================================================
