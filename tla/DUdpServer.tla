----------------------------- MODULE DUdpServer -----------------------------
(***************************************************************************)
(* A UDP server (lib/network/DUdpServer.cpp): every datagram is received   *)
(* into a session of its own, handed to the application by a handler that  *)
(* is posted, and answered through the session.                            *)
(*                                                                         *)
(* Any number of threads may call Run (examples/mixed-server does): each   *)
(* call starts a receive, and all of them run the posted handlers, in any  *)
(* order.  The handlers that the strand wraps run one at a time and in the *)
(* order of their completions.  Send is wrapped by nothing: two threads    *)
(* may be in it for the same session.  The calls of the socket itself are  *)
(* taken to be atomic, although asio promises that to nobody who calls     *)
(* async_send_to from several threads.                                     *)
(*                                                                         *)
(* A datagram that arrives is its number of arrival; since the server      *)
(* keeps no account of senders, one that is lost, delayed or sent twice is *)
(* only another choice of what arrives.  What a call of Send is given,     *)
(* memory and length, is the number of the call.                           *)
(***************************************************************************)
EXTENDS Naturals, Sequences, FiniteSets

CONSTANTS
  Clients,      \* the endpoints that datagrams come from
  ReceiveErrors, \* how a receive fails: "error", and "message_size" for a
                \* datagram that is cut, which only some systems report
  MaxRuns,      \* bound on the calls of Run
  MaxArrivals,  \* bound on the receives that end, with a datagram or an error
  MaxSends      \* bound on the calls of Send

VARIABLES
  runs,      \* calls of Run so far
  sessions,  \* the DUdpSession objects, in the order of their creation
  strand,    \* completion handlers waiting for the strand
  posted,    \* handlers that any thread may run next
  posting,   \* calls of Send between the store of SendBuffer and the post
  sending,   \* sends under way
  arrivals,  \* <<client, error>> of each receive that has ended
  told,      \* what OnDataRecvd and OnError were called with
  sends,     \* of each call of Send: its session, and over whose memory it
             \* stored its own: the calls that had not posted theirs yet
  wire,      \* of each datagram sent: its client, its memory and its length
  reported   \* what OnDataSent was called with

received == <<runs, sessions, arrivals, told>>
answered == <<posting, sending, sends, wire, reported>>
handlers == <<strand, posted>>
dvars == <<received, answered, handlers>>

-----------------------------------------------------------------------------
(* A session: the buffers, and the endpoint of the sender once it is known.*)
NewSession == [RecvBuffer |-> 0, SendBuffer |-> 0, RemoteEndpoint |-> "none",
               receiving |-> TRUE]

UdpInit ==
  /\ runs = 0 /\ sessions = <<>> /\ strand = <<>> /\ posted = {}
  /\ posting = {} /\ sending = {} /\ arrivals = <<>> /\ told = <<>> /\ sends = <<>>
  /\ wire = <<>> /\ reported = <<>>

StartReceiveSession == Append(sessions, NewSession)

UdpRun ==
  /\ runs < MaxRuns /\ runs' = runs + 1
  /\ sessions' = StartReceiveSession
  /\ UNCHANGED <<arrivals, told, answered, handlers>>

(* The socket fills the buffer and the endpoint of a session that waits.   *)
(* An error leaves the buffer alone; a datagram that is too long for it    *)
(* may be reported with an error of its own.                               *)
Receive(s, client, ec) ==
  /\ sessions[s].receiving /\ Len(arrivals) < MaxArrivals
  /\ arrivals' = Append(arrivals, <<client, ec>>)
  /\ sessions' = [sessions EXCEPT ![s] =
       [RecvBuffer |-> IF ec = "error" THEN @.RecvBuffer ELSE Len(arrivals'),
        SendBuffer |-> @.SendBuffer, RemoteEndpoint |-> client,
        receiving |-> FALSE]]
  /\ strand' = Append(strand, [do |-> "handle_receive", session |-> s, ec |-> ec,
                               data |-> Len(arrivals')])
  /\ UNCHANGED <<runs, told, answered, posted>>

(* Fault: after an error the server does not listen again.                 *)
HandleReceive_StopsOnError ==
  /\ strand # <<>> /\ Head(strand).do = "handle_receive"
  /\ strand' = Tail(strand)
  /\ posted' = posted \union {[Head(strand) EXCEPT !.do = "handle_request"]}
  /\ sessions' = IF Head(strand).ec = "error" THEN sessions
                 ELSE StartReceiveSession
  /\ UNCHANGED <<runs, arrivals, told, answered>>

(* Fault: one session receives every datagram of a run.                    *)
HandleReceive_Reuses ==
  /\ strand # <<>> /\ Head(strand).do = "handle_receive"
  /\ strand' = Tail(strand)
  /\ posted' = posted \union {[Head(strand) EXCEPT !.do = "handle_request"]}
  /\ sessions' = [sessions EXCEPT ![Head(strand).session].receiving = TRUE]
  /\ UNCHANGED <<runs, arrivals, told, answered>>

(* Posts the request and accepts new datagrams at once.                    *)
HandleReceive ==
  /\ strand # <<>> /\ Head(strand).do = "handle_receive"
  /\ strand' = Tail(strand)
  /\ posted' = posted \union {[Head(strand) EXCEPT !.do = "handle_request"]}
  /\ sessions' = StartReceiveSession
  /\ UNCHANGED <<runs, arrivals, told, answered>>

(* The application is told: data, or an error that is not message_size.    *)
HandleRequest(h) ==
  /\ h.do = "handle_request" /\ posted' = posted \ {h}
  /\ told' = Append(told, [session |-> h.session,
               from |-> sessions[h.session].RemoteEndpoint,
               data |-> IF h.ec = "error" THEN 0
                        ELSE sessions[h.session].RecvBuffer])
  /\ UNCHANGED <<runs, sessions, arrivals, answered, strand>>

-----------------------------------------------------------------------------
(* A send under way: the memory, the length and the endpoint it was        *)
(* started with.                                                           *)
Posted(n, s, data) ==
  sending' = sending \union
    {[session |-> s, data |-> data, len |-> n,
      to |-> sessions[s].RemoteEndpoint]}

Stored(s) ==
  /\ Len(sends) < MaxSends
  /\ sends' = Append(sends,
       [session |-> s, over |-> {n \in posting : sends[n].session = s}])
  /\ sessions' = [sessions EXCEPT ![s].SendBuffer = Len(sends')]

(* Fault: the response is posted before the buffer is replaced.            *)
Send_PostsFirst(s) ==
  /\ Stored(s) /\ Posted(Len(sends'), s, sessions[s].SendBuffer)
  /\ UNCHANGED <<runs, arrivals, told, posting, wire, reported, handlers>>

(* The application answers a session that it was given, on any thread: the *)
(* memory is stored in the session ...                                     *)
Send(s) ==
  /\ Stored(s) /\ posting' = posting \union {Len(sends')}
  /\ UNCHANGED <<runs, arrivals, told, sending, wire, reported, handlers>>

(* ... and read from there again, to be sent with the length of the call.  *)
PostResponse(n) ==
  /\ posting' = posting \ {n}
  /\ Posted(n, sends[n].session, sessions[sends[n].session].SendBuffer)
  /\ UNCHANGED <<received, sends, wire, reported, handlers>>

(* The socket has sent the datagram, or it has failed.                     *)
SendEnds(w, ec) ==
  /\ sending' = sending \ {w}
  /\ wire' = IF ec = "error" THEN wire
             ELSE Append(wire, [to |-> w.to, data |-> w.data, len |-> w.len])
  /\ strand' = Append(strand, [do |-> "handle_response", session |-> w.session,
                               ec |-> ec, data |-> w.len])
  /\ UNCHANGED <<received, posting, sends, reported, posted>>

HandleResponse ==
  /\ strand # <<>> /\ Head(strand).do = "handle_response"
  /\ strand' = Tail(strand)
  /\ posted' = posted \union {[Head(strand) EXCEPT !.do = "handle_sent"]}
  /\ UNCHANGED <<received, answered>>

(* OnDataSent is called with the session's buffer and the length that was  *)
(* sent, then OnError if need be.                                          *)
HandleSent(h) ==
  /\ h.do = "handle_sent" /\ posted' = posted \ {h}
  /\ reported' = Append(reported,
       [data |-> sessions[h.session].SendBuffer, len |-> h.data, ec |-> h.ec])
  /\ UNCHANGED <<received, posting, sending, sends, wire, strand>>

UdpNext ==
  \/ UdpRun \/ HandleReceive \/ HandleResponse
  \/ \E s \in DOMAIN sessions, client \in Clients,
        ec \in {"none"} \union ReceiveErrors : Receive(s, client, ec)
  \/ \E h \in posted : HandleRequest(h) \/ HandleSent(h)
  \/ \E i \in DOMAIN told : Send(told[i].session)
  \/ \E n \in posting : PostResponse(n)
  \/ \E w \in sending, ec \in {"none", "error"} : SendEnds(w, ec)

UdpSpec == UdpInit /\ [][UdpNext]_dvars

-----------------------------------------------------------------------------
(* However many threads run the handlers and in whatever order, each       *)
(* datagram that arrives is told to the application once, from its own     *)
(* sender, and none is missing when the handlers are through.              *)
ToldOnce ==
  /\ \A i, j \in DOMAIN told : told[i].data = told[j].data => i = j \/ told[i].data = 0
  /\ \A i \in DOMAIN told :
       told[i].data # 0 => told[i].from = arrivals[told[i].data][1]
  /\ strand = <<>> /\ posted = {} =>
       \A n \in DOMAIN arrivals :
         arrivals[n][2] = "error" \/ \E i \in DOMAIN told : told[i].data = n

(* Errors included, no step leaves the server with fewer receives under    *)
(* way than it was asked for.                                              *)
AlwaysListening ==
  runs = Cardinality({s \in DOMAIN sessions : sessions[s].receiving})
         + Cardinality({i \in DOMAIN strand : strand[i].do = "handle_receive"})

(* What a call of Send posts is sent at most once, to the client whose     *)
(* datagram its session holds, and with the memory that the call was       *)
(* given - or, since SendBuffer is stored and read again without a lock    *)
(* (DUdpServer.cpp:120, 71), with that of another call for the same        *)
(* session, whose length may be another, if that call stored its own in    *)
(* between.                                                                *)
SentOnce ==
  /\ \A i, j \in DOMAIN wire : wire[i].len = wire[j].len => i = j
  /\ \A i \in DOMAIN wire :
       LET d == wire[i] IN
         /\ d.len \in DOMAIN sends /\ d.data \in DOMAIN sends
         /\ sends[d.data].session = sends[d.len].session
         /\ d.to = sessions[sends[d.len].session].RemoteEndpoint
         /\ d.data # d.len => d.len \in sends[d.data].over

(* OnDataSent names the memory that its call was given, or what a later    *)
(* call for the session was given.                                         *)
ReportedRight ==
  \A i \in DOMAIN reported :
    LET r == reported[i] IN
      /\ r.data \in DOMAIN sends /\ r.len \in DOMAIN sends
      /\ r.data # r.len => /\ r.data > r.len
                           /\ sends[r.data].session = sends[r.len].session

(* However many threads run the handlers and in whatever order, each       *)
(* datagram is told once, no error ends the listening, and what is sent is *)
(* what was given, to the one it was meant for, unless two calls of Send   *)
(* for one session were under way at once.                                 *)
DatagramsRight == ToldOnce /\ AlwaysListening /\ SentOnce /\ ReportedRight
=============================================================================
