----------------------------- MODULE DRESTClient -----------------------------
(***************************************************************************)
(* One DRESTClient (lib/network/DRESTClient.cpp), its blocking calls and   *)
(* the server at the other end, which answers the requests of a connection *)
(* in order, may not be reached, and may break a connection at any time.   *)
(* Requests are numbered as they are written, and a response on its way is *)
(* the number of its request; of HttpRequest only what outlives clear() is *)
(* kept, and of HttpResponse whose header fields, whose status and whose   *)
(* bodies it holds.  The body of the header is set as the body is, and     *)
(* left out.  The asynchronous calls are comments in DRESTClient.h, and    *)
(* expires_after has no effect on blocking calls.                          *)
(***************************************************************************)
EXTENDS Integers, Sequences

CONSTANTS
  Urls,            \* [valid, Host, Port, Path] of the Urls that are set
  Settings,        \* the setters that are called
  Bodies,          \* texts for SetBody
  Params,          \* <<key, value>> pairs for the params of the body
  MaxRequests,     \* bound: how many requests are written
  MaxFailures      \* bound: how often the network fails

ASSUME UrlsAssumption == \A url \in Urls : url.valid \in BOOLEAN

VARIABLES
  dUri, settings, BodyParams, Body, HttpRequest,
  Connected,
  link,            \* the socket: "none", "up" or "broken"
  owed,            \* the responses not yet read on this connection
  Buffer,          \* what http::read has read ahead: responses, or 0 for a
                   \* part of one
  HttpResponse,
  asked,           \* how many requests have been written
  ret,             \* what the last call returned
  careful,         \* history: every request on a connection that was kept
                   \* has been answered, since a Clear that left none
  failures

request == <<dUri, settings, BodyParams, Body>>
network == <<link, owed, Buffer>>
rvars == <<request, HttpRequest, Connected, network, HttpResponse, asked, ret,
           careful, failures>>

NoUrl == [Host |-> "", Port |-> "", Path |-> ""]
NoRequest == [target |-> "", body |-> {}]
NoResponse == [fields |-> 0, status |-> 0, body |-> <<>>]
NetworkFails == failures < MaxFailures /\ failures' = failures + 1

RestInit ==
  /\ dUri = NoUrl /\ settings = {} /\ BodyParams = {} /\ Body = {}
  /\ HttpRequest = NoRequest
  /\ Connected = FALSE /\ link = "none" /\ owed = <<>> /\ Buffer = <<>>
  /\ HttpResponse = NoResponse /\ asked = 0 /\ ret = TRUE /\ careful = TRUE
  /\ failures = 0

-----------------------------------------------------------------------------
(* What a request is made of.                                              *)

(* A Url that is not valid leaves the one before.                          *)
SetUrl(url) ==
  /\ dUri' = IF url.valid
               THEN [Host |-> url.Host, Port |-> url.Port, Path |-> url.Path]
               ELSE dUri
  /\ ret' = url.valid

(* The setters of version, content type, encoding, timeout and keep-alive. *)
Set(setting) == settings' = settings \cup {setting}

(* map::insert keeps the value of a key that is there.                     *)
Inserted(params, param) ==
  IF \E p \in params : p[1] = param[1] THEN params ELSE params \cup {param}

Configure ==
  /\ \/ /\ \E url \in Urls : SetUrl(url)
        /\ UNCHANGED <<settings, BodyParams, Body>>
     \/ /\ \E s \in Settings : Set(s)
        /\ UNCHANGED <<dUri, BodyParams, Body, ret>>
     \/ /\ \E p \in Params : \/ BodyParams' = {p}          \* SetReqBodyParams
                             \/ BodyParams' = Inserted(BodyParams, p)
        /\ UNCHANGED <<dUri, settings, Body, ret>>
     \/ /\ \E b \in Bodies : Body' = {b}
        /\ UNCHANGED <<dUri, settings, BodyParams, ret>>
     \/ /\ BodyParams' = {} /\ Body' = {}                 \* ClearBody
        /\ UNCHANGED <<dUri, settings, ret>>
  /\ UNCHANGED <<HttpRequest, Connected, network, HttpResponse, asked, careful,
                 failures>>

(* Params go before a text.                                                *)
Chosen(params, body) == IF params # {} THEN params ELSE body

(* HttpRequest.clear() empties the fields, which PrepareHttpRequest fills  *)
(* from what is set: the target and the body of the request before stay    *)
(* unless new ones are set.                                                *)
Prepared ==
  [target |-> IF dUri.Path = "" THEN HttpRequest.target ELSE dUri.Path,
   body |-> IF Chosen(BodyParams, Body) = {} THEN HttpRequest.body
                                             ELSE Chosen(BodyParams, Body)]

-----------------------------------------------------------------------------
(* The connection, as a record that each step of a call hands to the next: *)
(* c.con is Connected, c.link the socket, and c.bad counts failures.       *)
Now ==
  [con |-> Connected, link |-> link, owed |-> owed, buffer |-> Buffer,
   response |-> HttpResponse, asked |-> asked, ok |-> TRUE, bad |-> 0,
   careful |-> careful]

Fails(c) == [c EXCEPT !.ok = FALSE]
Bad(c) == [c EXCEPT !.ok = FALSE, !.bad = @ + 1]
Ok(c) == [c EXCEPT !.ok = TRUE]

(* A new socket takes the place of the old one, whatever state it is in.   *)
Connects(c, Force) ==
  IF (c.con /\ ~Force) \/ dUri.Host = "" \/ dUri.Port = "" THEN {Fails(c)}
  ELSE { [Ok(c) EXCEPT !.con = TRUE, !.link = "up", !.owed = <<>>],
         [Bad(c) EXCEPT !.con = FALSE] ,                    \* resolve
         [Bad(c) EXCEPT !.con = FALSE, !.link = "none", !.owed = <<>>] }

(* Shutting down a socket that is not connected is no error.               *)
Disconnects(c, Force) ==
  IF ~c.con /\ ~Force THEN {Fails(c)}
  ELSE {[Ok(c) EXCEPT !.con = FALSE, !.link = "none", !.owed = <<>>]}
       \cup (IF c.link = "none" THEN {} ELSE {Bad(c)})

(* http::write: what a broken link is given may be lost without an error.  *)
Writes(c) ==
  LET number == c.asked + 1
      sent == [Ok(c) EXCEPT !.asked = number] IN
    CASE c.link = "up" ->
           {[sent EXCEPT !.owed = Append(@, number)],
            [Bad(c) EXCEPT !.link = "broken", !.owed = <<>>]}
      [] c.link = "broken" -> {sent, Fails(c)}
      [] OTHER -> {Fails(c)}

(* HttpResponse.clear() removes the header fields, and nothing else.       *)
Cleared(response) == [response EXCEPT !.fields = 0]

(* http::read moves the response into a parser and takes it back when it   *)
(* is complete: the parser appends to the body that was there.             *)
Parsed(response, n) ==
  [fields |-> n, status |-> n, body |-> Append(response.body, n)]

(* From a read that fails the parser's message does not come back.         *)
MovedFrom(response) == [response EXCEPT !.fields = 0, !.body = <<>>]

(* Send clears HttpResponse and writes.                                    *)
Sends(c) ==
  IF dUri.Host = "" THEN {Fails(c)} ELSE Writes([c EXCEPT !.response = Cleared(@)])

(* http::read takes the first response of Buffer and the link, and with it *)
(* as much as has arrived; a part of a response is no response.  A link    *)
(* that breaks under it leaves a part in Buffer, or none.                  *)
Taken(c, n) ==
  LET all == c.buffer \o c.owed IN
    [Ok(c) EXCEPT !.response = Parsed(@, all[1]), !.buffer = SubSeq(all, 2, n),
                  !.owed = IF n <= Len(c.buffer)
                             THEN c.owed
                             ELSE SubSeq(all, n + 1, Len(all))]
Broken(c) ==
  { [Bad(c) EXCEPT !.link = "broken", !.owed = <<>>, !.careful = FALSE,
                   !.response = MovedFrom(@),
                   !.buffer = c.buffer \o part] : part \in {<<>>, <<0>>} }
NotRead(c) == [Fails(c) EXCEPT !.careful = FALSE, !.response = MovedFrom(@)]

Reads(c) ==
  LET all == c.buffer \o c.owed IN
    CASE c.buffer # <<>> /\ c.buffer[1] = 0 -> {NotRead(c)}
      [] c.buffer = <<>> /\ c.link # "up" -> {NotRead(c)}
      [] OTHER -> {Taken(c, n) : n \in (IF c.buffer = <<>> THEN 1 ELSE
                                         Len(c.buffer))..Len(all)}
                  \cup (IF c.buffer = <<>> THEN Broken(c) ELSE {})

(* A response that nobody waits for stays owed.                            *)
Answered(c, WaitForResponse) ==
  IF ~c.ok THEN {c}
  ELSE IF WaitForResponse THEN Reads(c)
  ELSE {[c EXCEPT !.careful = FALSE]}

(* The last answer is the call's, its own Disconnect does not count.       *)
Returning(c, ok) == [c EXCEPT !.ok = ok]

SendsPOST(c, WaitForResponse) ==
  IF c.con
    THEN UNION {Answered(s, WaitForResponse) : s \in Sends(c)}
    ELSE UNION { IF ~k.ok THEN {k} ELSE
                   UNION { {Returning(d, a.ok) : d \in Disconnects(a, FALSE)} :
                     a \in UNION {Answered(s, WaitForResponse) : s \in Sends(k)} } :
                 k \in Connects(c, FALSE) }

(* Without a connection nothing is sent; what is sent and not waited for   *)
(* is answered with false.                                                 *)
SendsPlain(c, WaitForResponse) ==
  UNION { {Returning(a, a.ok /\ WaitForResponse) :
             a \in Answered(s, WaitForResponse)} : s \in Sends(c) }

Ends(c) ==
  /\ Connected' = c.con /\ link' = c.link /\ owed' = c.owed
  /\ Buffer' = c.buffer /\ HttpResponse' = c.response /\ asked' = c.asked
  /\ ret' = c.ok /\ careful' = c.careful
  /\ failures' = failures + c.bad /\ failures' <= MaxFailures
  /\ asked' <= MaxRequests

Connect ==
  /\ \E Force \in BOOLEAN : \E c \in Connects(Now, Force) : Ends(c)
  /\ UNCHANGED <<request, HttpRequest>>

Disconnect ==
  /\ \E Force \in BOOLEAN : \E c \in Disconnects(Now, Force) : Ends(c)
  /\ UNCHANGED <<request, HttpRequest>>

(* A POST that cannot connect is not prepared.                             *)
SendPOST ==
  /\ \E Wait \in BOOLEAN : \E c \in SendsPOST(Now, Wait) : Ends(c)
  /\ \/ HttpRequest' = Prepared
     \/ ~Connected /\ asked' = asked /\ UNCHANGED HttpRequest
  /\ UNCHANGED request

(* SendPUT and SendGET.                                                    *)
SendPlain ==
  /\ \E Wait \in BOOLEAN : \E c \in SendsPlain(Now, Wait) : Ends(c)
  /\ HttpRequest' = Prepared /\ UNCHANGED request

(* Fault: what http::read has read ahead is forgotten.                     *)
Clear_KeepsBuffer ==
  /\ \E c \in IF Connected THEN Disconnects(Now, FALSE) ELSE {Now} :
       Ends([c EXCEPT !.con = FALSE, !.response = Cleared(@), !.ok = ret,
                         !.careful = @ \/ c.link # "up"])
  /\ dUri' = NoUrl /\ settings' = settings \cap {"KeepAlive"}
  /\ BodyParams' = {} /\ Body' = {}
  /\ UNCHANGED HttpRequest

(* Everything but the keep-alive setting, and the status and the body of   *)
(* the last response; a Disconnect that fails does not keep it from        *)
(* forgetting the connection.                                              *)
Clear ==
  /\ \E c \in IF Connected THEN Disconnects(Now, FALSE) ELSE {Now} :
       Ends([c EXCEPT !.con = FALSE, !.response = Cleared(@), !.buffer = <<>>,
                         !.ok = ret, !.careful = @ \/ c.link # "up"])
  /\ dUri' = NoUrl /\ settings' = settings \cap {"KeepAlive"}
  /\ BodyParams' = {} /\ Body' = {}
  /\ UNCHANGED HttpRequest

(* The server, or the network, breaks the connection.                      *)
Break ==
  /\ link = "up" /\ NetworkFails /\ link' = "broken" /\ owed' = <<>>
  /\ UNCHANGED <<request, HttpRequest, Connected, Buffer, HttpResponse, asked,
                 ret, careful>>

RestNext ==
  \/ Configure \/ Connect \/ Disconnect \/ SendPOST \/ SendPlain \/ Clear
  \/ Break

RestSpec == RestInit /\ [][RestNext]_rvars

-----------------------------------------------------------------------------
Answers(response, n) ==
  /\ response.fields = n /\ response.status = n
  /\ response.body # <<>> /\ response.body[Len(response.body)] = n

(* A response with header fields, which is what a read leaves and hands to *)
(* OnResponse, has the fields and the status of the last request, and its  *)
(* body ends with that request's, as long as the client has waited for     *)
(* every answer and none failed to come, or has called Clear since and no  *)
(* connection was left open.  Nothing more holds of the body: before its   *)
(* own there are the bodies of all responses since a read failed last,     *)
(* because neither Send nor Clear empties it, although the comment of      *)
(* Clear says "Clear all buffers, request, response"                       *)
(* (DRESTClient.cpp:240).  Without header fields the status and the body   *)
(* that are there may be those of any earlier request.                     *)
AnswersOwnRequest ==
  careful /\ HttpResponse.fields # 0 => Answers(HttpResponse, asked)
=============================================================================
