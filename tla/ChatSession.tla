----------------------------- MODULE ChatSession -----------------------------
(***************************************************************************)
(* One sender and one receiver of the chat (csf_assign05/sender.cpp,       *)
(* receiver.cpp) with their connections to the server (connection.cpp,     *)
(* message.h) and the workers at the other ends (server.cpp): requests,    *)
(* answers and deliveries, line by line.  ChatServer has what the workers  *)
(* do to each other; here a broadcast is one step.                         *)
(*                                                                         *)
(* A connection carries lines in order (RioStream).  Their text is left    *)
(* out, their length is not: Connection::receive takes at most MAX_LEN - 1 *)
(* characters, and what lies beyond is the next line that it takes.        *)
(***************************************************************************)
EXTENDS Integers, Sequences, FiniteSets

CONSTANTS
  UserNames, RoomNames,  \* what is given to each client or typed, and
  Texts,                 \* what is typed: records of a length and a rest
  MaxRequests,           \* how many requests a client makes
  Unruly,                \* the clients that may be killed
  NoRoom

Clients == {"sender", "receiver"}

MAX_LEN == 255

\* The tag that is_valid_tag refuses, and the others with their lengths.
Junk == "junk"

TagLen == [ok |-> 2, err |-> 3, slogin |-> 6, rlogin |-> 6, join |-> 4,
           leave |-> 5, sendall |-> 7, quit |-> 4, delivery |-> 8, empty |-> 5]

Tags == {"ok", "err", "slogin", "rlogin", "join", "leave", "sendall", "quit",
         "delivery", "empty", Junk}

\* The encoded form of a message: tag, colon, data and newline.  The request
\* that it belongs to is history.
Line(tag, data, len, request) ==
  [tag |-> tag, data |-> data, len |-> TagLen[tag] + 1 + len + 1,
   request |-> request]

\* "bye", which the server does not look at.
Bye == [id |-> "bye", len |-> 3, rest |-> Junk]

NoData == [id |-> "", len |-> 0, rest |-> Junk]

\* The names, names of rooms and texts: each has a length, and what is cut off
\* it looks like a message of tag "rest".
Payloads ==
  {NoData, Bye} \cup Texts \cup UNION {UserNames[c] \cup RoomNames[c] : c \in Clients}

ASSUME SessionAssumption ==
  /\ \A data \in Payloads : data.len \in Nat /\ data.rest \in Tags
  /\ NoRoom \notin Payloads

NoLine == [tag |-> Junk, data |-> NoData, len |-> 1, request |-> 0]

NoReply == [line |-> NoLine, next |-> "done"]

VARIABLES
  up,         \* the server process runs
  \* at the clients
  pc,         \* where a client is
  in_room,    \* the sender's own idea of being in a room
  out,        \* the message that Connection::send waits to be confirmed
  sent,       \* how many requests a client has made
  outcome,    \* what the last send has returned
  left,       \* how a client's end was closed: "no", "closed" or "reset"
  \* the connections
  req, ans,   \* lines from and to each client that were not received yet
  buf,        \* what an earlier call has left where receive keeps its buffer
  lost,       \* how the server's end was closed, for each client
  \* at the workers
  wpc,        \* where a worker is
  reply,      \* what a worker is about to answer, and where it goes then
  cur_room,   \* the room of a worker that is in one
  username,   \* the name that its client has logged in with
  mqueue,     \* deliveries that the receiver's worker has not sent yet
  \* history
  done,       \* the requests that the server has carried out
  cut,        \* a line was too long for receive
  garbled     \* receive has taken an error for a message

clientVars == <<pc, in_room, out, sent, outcome>>
wireVars   == <<req, ans, buf, left, lost>>
workerVars == <<up, wpc, reply, cur_room, username, mqueue, done>>
vars == <<clientVars, wireVars, workerVars, cut, garbled>>

Lines == [tag : Tags, data : Payloads, len : Nat, request : Nat]
Ends  == {"no", "closed", "reset"}

\* Where a worker goes on when it has answered.
Stations == {"chat", "join", "deliver", "done"}

TypeOK ==
  /\ up \in BOOLEAN /\ cut \in BOOLEAN /\ garbled \in BOOLEAN /\ in_room \in BOOLEAN
  /\ pc \in [Clients -> {"start", "login", "join", "confirm", "input", "listen", "gone"}]
  /\ out \in [Clients -> Lines]
  /\ sent \in [Clients -> Nat]
  /\ outcome \in [Clients -> [request : Nat, ok : BOOLEAN]]
  /\ left \in [Clients -> Ends] /\ lost \in [Clients -> Ends]
  /\ req \in [Clients -> Seq(Lines)] /\ ans \in [Clients -> Seq(Lines)]
  /\ buf \in [{"client", "server"} -> [Clients -> Lines]]
  /\ wpc \in [Clients -> {"none", "login", "answer"} \cup Stations]
  /\ reply \in [Clients -> [line : Lines, next : Stations]]
  /\ cur_room \in [Clients -> Payloads \cup {NoRoom}]
  /\ username \in [Clients -> Payloads]
  /\ mqueue \in Seq(Lines)
  /\ done \in [Clients -> SUBSET Nat]

Init ==
  /\ up = TRUE
  /\ pc = [c \in Clients |-> "start"] /\ in_room = FALSE
  /\ out = [c \in Clients |-> NoLine] /\ sent = [c \in Clients |-> 0]
  /\ outcome = [c \in Clients |-> [request |-> 0, ok |-> FALSE]]
  /\ left = [c \in Clients |-> "no"] /\ lost = [c \in Clients |-> "no"]
  /\ req = [c \in Clients |-> <<>>] /\ ans = [c \in Clients |-> <<>>]
  /\ buf = [side \in {"client", "server"} |-> [c \in Clients |-> NoLine]]
  /\ wpc = [c \in Clients |-> "none"] /\ reply = [c \in Clients |-> NoReply]
  /\ cur_room = [c \in Clients |-> NoRoom]
  /\ username = [c \in Clients |-> NoData]
  /\ mqueue = <<>>
  /\ done = [c \in Clients |-> {}] /\ cut = FALSE /\ garbled = FALSE

-----------------------------------------------------------------------------
(* Connection::receive.                                                    *)

TooLong(l) == l.len >= MAX_LEN

Piece(l) == IF TooLong(l) THEN [l EXCEPT !.len = MAX_LEN - 1] ELSE l

\* What readlineb leaves of a line that is too long.  Of a line of MAX_LEN
\* that is the newline; of a longer one a part of its text, which looks like
\* a message of tag "rest" if the text does.
Rest(l) ==
  [l EXCEPT !.tag = IF l.len = MAX_LEN THEN Junk ELSE l.data.rest,
            !.len = l.len - (MAX_LEN - 1)]

Remainder(q) == IF TooLong(Head(q)) THEN <<Rest(Head(q))>> \o Tail(q) ELSE Tail(q)

Result(l) == IF l.tag = Junk THEN "INVALID_MSG" ELSE "SUCCESS"

(***************************************************************************)
(* What receive may come back with from a connection with the lines q,     *)
(* whose other end is open or was closed or reset.  The -1 that readlineb  *)
(* returns for a reset is a large size_t: receive goes on to read a buffer *)
(* that nothing was put into, with what an earlier call has left there or  *)
(* with something that is no message.                                      *)
(***************************************************************************)
Received(q, far, old) ==
  IF q # <<>>
  THEN {[result |-> Result(Head(q)), msg |-> Piece(Head(q)), rest |-> Remainder(q),
         far |-> far, garbled |-> FALSE]}
  ELSE IF far = "closed"
  THEN {[result |-> "EOF_OR_ERROR", msg |-> NoLine, rest |-> q,
         far |-> far, garbled |-> FALSE]}
  ELSE {[result |-> Result(l), msg |-> l, rest |-> q,
         far |-> "closed", garbled |-> TRUE] :
           l \in IF far = "reset" THEN {old, NoLine} ELSE {}}

Note(q, r) ==
  /\ cut' = (cut \/ (q # <<>> /\ TooLong(Head(q))))
  /\ garbled' = (garbled \/ r.garbled)

ClientReceives(c, r) ==
  /\ r \in Received(ans[c], lost[c], buf["client"][c])
  /\ ans' = [ans EXCEPT ![c] = r.rest]
  /\ lost' = [lost EXCEPT ![c] = r.far]
  /\ buf' = [buf EXCEPT !["client"][c] = r.msg]
  /\ Note(ans[c], r)

WorkerReceives(c, r) ==
  /\ up
  /\ r \in Received(req[c], left[c], buf["server"][c])
  /\ req' = [req EXCEPT ![c] = r.rest]
  /\ left' = [left EXCEPT ![c] = r.far]
  /\ buf' = [buf EXCEPT !["server"][c] = r.msg]
  /\ Note(req[c], r)

-----------------------------------------------------------------------------
(* Connection::send and what its callers do with its result.               *)

\* A client that exits has its end closed, or reset if it leaves answers.
Exit(c) ==
  /\ pc' = [pc EXCEPT ![c] = "gone"]
  /\ left' = [left EXCEPT ![c] = IF ans'[c] = <<>> THEN "closed" ELSE "reset"]

\* The client is at p in the end.
Resume(c, p) ==
  IF p = "gone" THEN Exit(c)
  ELSE pc' = [pc EXCEPT ![c] = p] /\ UNCHANGED left

\* Where a client goes from a send that returns true, and from one that does
\* not.  A "quit" without data is the one that end-of-file causes.
Succeeds(c, m) ==
  CASE m.tag = "rlogin" -> "join"
    [] m.tag = "quit"   -> "gone"
    [] OTHER            -> IF c = "receiver" THEN "listen" ELSE "input"

Fails(c, m) ==
  IF c = "receiver" \/ m.tag = "slogin" \/ m.data = NoData THEN "gone" ELSE "input"

\* MUTANT: only a join sets in_room, and nothing resets it.
InRoomKept(c, m, ok) == in_room \/ (c = "sender" /\ ok /\ m.tag = "join")

\* The in_room of the sender follows from its commands.
InRoom(c, m, ok) ==
  IF c = "sender" /\ ok /\ m.tag # "sendall" THEN m.tag = "join" ELSE in_room

Returned(c, m, ok) ==
  /\ Resume(c, IF ok THEN Succeeds(c, m) ELSE Fails(c, m))
  /\ in_room' = InRoom(c, m, ok)
  /\ out' = [out EXCEPT ![c] = NoLine]
  /\ outcome' = [outcome EXCEPT ![c] = [request |-> m.request, ok |-> ok]]

\* MUTANT: a text for the room is sent without a receive after it.
WriteUnconfirmed(c, m) ==
  /\ up
  /\ pc' = [pc EXCEPT ![c] = IF m.tag = "sendall" THEN "input" ELSE "confirm"]
  /\ out' = [out EXCEPT ![c] = m]
  /\ req' = [req EXCEPT ![c] = Append(@, m)]
  /\ UNCHANGED <<left, in_room, outcome, ans>>

\* After the server has gone a write is lost or ends the client.
WriteRequest(c, m) ==
  \/ /\ pc' = [pc EXCEPT ![c] = "confirm"]
     /\ out' = [out EXCEPT ![c] = m]
     /\ req' = IF up THEN [req EXCEPT ![c] = Append(@, m)] ELSE req
     /\ UNCHANGED <<left, in_room, outcome, ans>>
  \/ /\ ~up
     /\ UNCHANGED <<ans, out, in_room, outcome, req>>
     /\ Exit(c)

Send(c, tag, data) ==
  LET m == Line(tag, data, data.len, sent[c] + 1) IN
  /\ sent' = [sent EXCEPT ![c] = @ + 1]
  /\ IF m.len > MAX_LEN
     THEN UNCHANGED <<req, ans>> /\ Returned(c, m, FALSE)
     ELSE WriteRequest(c, m)
  /\ UNCHANGED <<buf, lost, workerVars, cut, garbled>>

\* MUTANT: every answer is a confirmation.
ConfirmAny(c) ==
  /\ pc[c] = "confirm"
  /\ \E r \in Received(ans[c], lost[c], buf["client"][c]) :
       /\ ClientReceives(c, r)
       /\ Returned(c, out[c], r.result = "SUCCESS")
  /\ UNCHANGED <<sent, req, workerVars>>

Confirm(c) ==
  /\ pc[c] = "confirm"
  /\ \E r \in Received(ans[c], lost[c], buf["client"][c]) :
       /\ ClientReceives(c, r)
       /\ Returned(c, out[c], r.result = "SUCCESS" /\ r.msg.tag # "err")
  /\ UNCHANGED <<sent, req, workerVars>>

-----------------------------------------------------------------------------
(* The clients.                                                            *)

\* client_connect; the server starts a worker.
Connect(c) ==
  /\ pc[c] = "start" /\ up
  /\ pc' = [pc EXCEPT ![c] = "login"]
  /\ wpc' = [wpc EXCEPT ![c] = "login"]
  /\ UNCHANGED <<in_room, out, sent, outcome, wireVars,
                 up, reply, cur_room, username, mqueue, done, cut, garbled>>

\* Nobody listens: fatal.
ConnectFails(c) ==
  /\ pc[c] = "start" /\ ~up
  /\ pc' = [pc EXCEPT ![c] = "gone"]
  /\ UNCHANGED <<in_room, out, sent, outcome, wireVars, workerVars, cut, garbled>>

Login(c, name) ==
  /\ pc[c] = "login"
  /\ Send(c, IF c = "sender" THEN "slogin" ELSE "rlogin", name)

\* The sender reads a line; lines that cause no request change nothing.
AtInput == pc["sender"] = "input" /\ sent["sender"] < MaxRequests

CommandJoin(room) == AtInput /\ Send("sender", "join", room)

CommandLeave == AtInput /\ Send("sender", "leave", Bye)

CommandQuit == AtInput /\ Send("sender", "quit", Bye)

Text(text) == AtInput /\ in_room /\ Send("sender", "sendall", text)

EndOfInput == pc["sender"] = "input" /\ Send("sender", "quit", NoData)

\* at(0) of an empty line throws, and nobody catches it.
EmptyLine ==
  /\ pc["sender"] = "input"
  /\ UNCHANGED <<in_room, out, sent, outcome, req, ans, buf, lost,
                 workerVars, cut, garbled>>
  /\ Exit("sender")

ReceiverJoin(room) ==
  /\ pc["receiver"] = "join"
  /\ Send("receiver", "join", room)

\* handle_delivery, or fatal for anything else.
Listen ==
  /\ pc["receiver"] = "listen"
  /\ \E r \in Received(ans["receiver"], lost["receiver"], buf["client"]["receiver"]) :
       /\ ClientReceives("receiver", r)
       /\ Resume("receiver", IF r.result = "SUCCESS" /\ r.msg.tag = "delivery"
                             THEN "listen" ELSE "gone")
  /\ UNCHANGED <<in_room, out, sent, outcome, req, workerVars>>

Killed(c) ==
  /\ c \in Unruly /\ pc[c] \notin {"start", "gone"}
  /\ UNCHANGED <<in_room, out, sent, outcome, req, ans, buf, lost,
                 workerVars, cut, garbled>>
  /\ Exit(c)

-----------------------------------------------------------------------------
(* The workers.  A worker that has received a request carries it out, or   *)
(* does not, and then answers: other workers run between the two, and one  *)
(* of them may end the process.  An end between receiving and carrying out *)
(* is for everybody like one before the request was written, so that those *)
(* two are one step.  server_send ignores what write returns.              *)

Write(c, l) ==
  ans' = IF pc[c] = "gone" THEN ans ELSE [ans EXCEPT ![c] = Append(@, l)]

\* The answer to l will be some text with, in two of them, the name of a room;
\* the worker is at next after it.
Answer(c, tag, text, data, l, next) ==
  /\ wpc' = [wpc EXCEPT ![c] = "answer"]
  /\ reply' = [reply EXCEPT ![c] =
                 [line |-> Line(tag, data, text + data.len, l.request), next |-> next]]
  /\ UNCHANGED ans

Reply(c) ==
  /\ up /\ wpc[c] = "answer"
  /\ Write(c, reply[c].line)
  /\ wpc' = [wpc EXCEPT ![c] = reply[c].next]
  /\ reply' = [reply EXCEPT ![c] = NoReply]
  /\ UNCHANGED <<clientVars, req, buf, left, lost, up, cur_room, username, mqueue,
                 done, cut, garbled>>

\* What l asks for has been done: the login accepted, the room found, joined or
\* left, the text put into the queues of the room.
Done(c, l) == done' = [done EXCEPT ![c] = @ \cup {l.request}]

\* fatal: the process ends, and with it its memory and every connection.  What
\* its workers were about to do stays as history.
Fatal ==
  /\ up' = FALSE
  /\ lost' = [c \in Clients |-> IF req'[c] = <<>> THEN "closed" ELSE "reset"]
  /\ cur_room' = [c \in Clients |-> NoRoom]
  /\ username' = [c \in Clients |-> NoData] /\ mqueue' = <<>>
  /\ UNCHANGED <<ans, wpc, reply, done>>

\* The same in the worker of a client that is not one of these two.
OtherFatal ==
  /\ up
  /\ UNCHANGED <<clientVars, req, buf, left, cut, garbled>>
  /\ Fatal

\* worker.  The clients begin with nothing but a login.
WorkerLogin(c) ==
  /\ wpc[c] = "login"
  /\ \E r \in Received(req[c], left[c], buf["server"][c]) :
       /\ WorkerReceives(c, r)
       /\ IF r.result = "SUCCESS"
          THEN /\ Answer(c, "ok", 9, NoData, r.msg,
                         IF r.msg.tag = "slogin" THEN "chat" ELSE "join")
               /\ username' = [username EXCEPT ![c] = r.msg.data]
               /\ Done(c, r.msg)
               /\ UNCHANGED <<up, lost, cur_room, mqueue>>
          ELSE Fatal
  /\ UNCHANGED clientVars

(***************************************************************************)
(* A round of the loop of chat_with_sender up to its answer: a request     *)
(* comes in, the worker is in room (or in none) after it, and will stay in *)
(* the loop or return.                                                     *)
(***************************************************************************)
Serve(r, tag, text, data, room, next) ==
  /\ wpc["sender"] = "chat"
  /\ WorkerReceives("sender", r)
  /\ Answer("sender", tag, text, data, r.msg, next)
  /\ cur_room' = [cur_room EXCEPT !["sender"] = room]
  /\ IF tag = "ok" THEN Done("sender", r.msg) ELSE UNCHANGED done
  /\ UNCHANGED <<clientVars, lost, up, username>>

Grant(r, text, data, room) == Serve(r, "ok", text, data, room, "chat")

Refuse(r, text) == Serve(r, "err", text, NoData, cur_room["sender"], "chat")

Requests(r, tag) == r.result = "SUCCESS" /\ r.msg.tag = tag

InARoom == cur_room["sender"] # NoRoom

ChatInvalid(r) ==
  /\ r.result = "INVALID_MSG"
  /\ Refuse(r, 15) /\ UNCHANGED mqueue

\* A message of some other tag, which the clients do not send.
ChatOther(r) ==
  /\ r.result = "SUCCESS" /\ r.msg.tag \notin {"join", "sendall", "leave", "quit"}
  /\ Refuse(r, 15) /\ UNCHANGED mqueue

\* MUTANT: end-of-file is answered like an invalid message.
ChatEndMissed(r) ==
  /\ r.result = "EOF_OR_ERROR"
  /\ Refuse(r, 15) /\ UNCHANGED mqueue

\* The worker returns; nobody closes its connection.
ChatEnd(r) ==
  /\ r.result = "EOF_OR_ERROR"
  /\ Serve(r, "err", 15, NoData, cur_room["sender"], "done") /\ UNCHANGED mqueue

ChatJoin(r) ==
  /\ Requests(r, "join")
  /\ Grant(r, 10, r.msg.data, r.msg.data) /\ UNCHANGED mqueue

\* What broadcast_message makes of a text for the members of the room.
Delivery(room, l) ==
  Line("delivery", l.data,
       room.len + 1 + username["sender"].len + 1 + l.data.len, l.request)

ChatSendall(r) ==
  /\ Requests(r, "sendall")
  /\ IF InARoom THEN Grant(r, 12, NoData, cur_room["sender"]) ELSE Refuse(r, 13)
  /\ mqueue' = IF InARoom /\ cur_room["receiver"] = cur_room["sender"]
               THEN Append(mqueue, Delivery(cur_room["sender"], r.msg))
               ELSE mqueue

\* MUTANT: a leave that there is no reason for is not answered.
ChatLeaveSilent(r) ==
  /\ Requests(r, "leave")
  /\ IF InARoom THEN Grant(r, 8, cur_room["sender"], NoRoom)
     ELSE /\ wpc["sender"] = "chat" /\ WorkerReceives("sender", r)
          /\ UNCHANGED <<clientVars, lost, up, username, ans, cur_room, wpc, reply, done>>
  /\ UNCHANGED mqueue

ChatLeave(r) ==
  /\ Requests(r, "leave")
  /\ IF InARoom THEN Grant(r, 8, cur_room["sender"], NoRoom) ELSE Refuse(r, 13)
  /\ UNCHANGED mqueue

ChatQuit(r) ==
  /\ Requests(r, "quit")
  /\ Serve(r, "ok", 7, NoData, NoRoom, "done") /\ UNCHANGED mqueue

Chat ==
  \E r \in Received(req["sender"], left["sender"], buf["server"]["sender"]) :
    ChatInvalid(r) \/ ChatOther(r) \/ ChatEnd(r) \/ ChatJoin(r) \/ ChatSendall(r)
      \/ ChatLeave(r) \/ ChatQuit(r)

\* chat_with_receiver up to the answer to its join.
WorkerJoin ==
  /\ wpc["receiver"] = "join"
  /\ \E r \in Received(req["receiver"], left["receiver"], buf["server"]["receiver"]) :
       /\ WorkerReceives("receiver", r)
       /\ IF r.result = "SUCCESS" /\ r.msg.tag = "join"
          THEN /\ cur_room' = [cur_room EXCEPT !["receiver"] = r.msg.data]
               /\ Answer("receiver", "ok", 12, r.msg.data, r.msg, "deliver")
               /\ Done("receiver", r.msg)
          ELSE /\ Answer("receiver", "err", 24, NoData, r.msg, "done")
               /\ UNCHANGED <<cur_room, done>>
  /\ UNCHANGED <<clientVars, lost, up, username, mqueue>>

\* MUTANT: a dequeue that returns nothing is passed on as an "empty".
DeliverEmpty ==
  /\ up /\ wpc["receiver"] = "deliver"
  /\ IF mqueue = <<>>
     THEN /\ ans["receiver"] = <<>>
          /\ Write("receiver", Line("empty", NoData, 0, 0)) /\ UNCHANGED mqueue
     ELSE Write("receiver", Head(mqueue)) /\ mqueue' = Tail(mqueue)
  /\ UNCHANGED <<clientVars, req, buf, left, lost, up, wpc, reply, cur_room,
                 username, done, cut, garbled>>

\* A round of its loop: a dequeue and a write, of which it ignores the result.
Deliver ==
  /\ up /\ wpc["receiver"] = "deliver" /\ mqueue # <<>>
  /\ mqueue' = Tail(mqueue)
  /\ Write("receiver", Head(mqueue))
  /\ UNCHANGED <<clientVars, req, buf, left, lost, up, wpc, reply, cur_room,
                 username, done, cut, garbled>>

-----------------------------------------------------------------------------

ClientStep(c) ==
  \/ Connect(c) \/ ConnectFails(c) \/ Confirm(c) \/ Killed(c)
  \/ \E name \in UserNames[c] : Login(c, name)

SenderStep ==
  \/ \E room \in RoomNames["sender"] : CommandJoin(room)
  \/ CommandLeave \/ CommandQuit \/ EndOfInput \/ EmptyLine
  \/ \E text \in Texts : Text(text)

ReceiverStep == Listen \/ \E room \in RoomNames["receiver"] : ReceiverJoin(room)

WorkerStep == \/ \E c \in Clients : WorkerLogin(c) \/ Reply(c)
              \/ OtherFatal \/ Chat \/ WorkerJoin \/ Deliver

Next ==
  \/ \E c \in Clients : ClientStep(c)
  \/ SenderStep \/ ReceiverStep \/ WorkerStep

Spec == Init /\ [][Next]_vars

(***************************************************************************)
(* Workers keep running, and a client that waits for the server, or for    *)
(* deliveries, reads what comes.  Nobody has to type anything.             *)
(***************************************************************************)
Fairness ==
  /\ \A c \in Clients : WF_vars(WorkerLogin(c)) /\ WF_vars(Reply(c)) /\ WF_vars(Confirm(c))
  /\ WF_vars(Chat) /\ WF_vars(WorkerJoin) /\ WF_vars(Deliver) /\ WF_vars(Listen)

FairSpec == Spec /\ Fairness

-----------------------------------------------------------------------------
(* Properties.                                                             *)

\* As long as no line was too long and no error was taken for a message.
Sound == ~cut /\ ~garbled

\* Where the lines under way to a client are that are no deliveries.
Answers(c) == {i \in DOMAIN ans[c] : ans[c][i].tag # "delivery"}

(***************************************************************************)
(* Requests and answers go in step: what a client finds as the answer to   *)
(* its request is the answer to that request, nothing else is under way    *)
(* between the two, and a client that waits for none has none coming       *)
(* (connection.cpp:99-106: send is a write and then one receive).          *)
(***************************************************************************)
InStep ==
  Sound => \A c \in Clients :
    pc[c] \notin {"start", "gone"} =>
      /\ Len(req[c]) + Cardinality(Answers(c)) <= IF pc[c] = "confirm" THEN 1 ELSE 0
      /\ \A i \in DOMAIN req[c] : req[c][i].request = out[c].request
      /\ \A i \in Answers(c) : ans[c][i].request = out[c].request
      /\ pc[c] = "confirm" /\ ans[c] # <<>> => Head(ans[c]).tag # "delivery"

(***************************************************************************)
(* A sender that waits for input thinks that it is in a room if and only   *)
(* if its worker does (sender.cpp:63-64 and the in_room of server.cpp:97), *)
(* whatever was refused, too long to be sent, or left before.              *)
(***************************************************************************)
RoomsAgree ==
  Sound /\ up /\ pc["sender"] = "input" =>
    (in_room <=> cur_room["sender"] # NoRoom)

\* The server has ended when the worker of c had an answer to give.
Interrupted(c) == ~up /\ wpc[c] = "answer"

(***************************************************************************)
(* send tells the truth (connection.h:40-43) unless the server ends: a     *)
(* request for which it has returned true was carried out, and one for     *)
(* which it has returned false was not, except where fatal in the worker   *)
(* of another client (server.cpp:48) has ended the process between a       *)
(* request being carried out (server.cpp:131) and its answer               *)
(* (server.cpp:133).                                                       *)
(***************************************************************************)
ResultIsTrue ==
  Sound => \A c \in Clients :
    /\ outcome[c].ok => outcome[c].request \in done[c]
    /\ outcome[c].request \in done[c] => outcome[c].ok \/ Interrupted(c)

(***************************************************************************)
(* A receiver that listens goes on until the server has gone: nothing that *)
(* a sender does, within the limit of a line, makes it stop                *)
(* (receiver.cpp:44-59).                                                   *)
(***************************************************************************)
ListensOn ==
  [][Listen => pc'["receiver"] = "listen" \/ ~up \/ ~Sound']_vars

(***************************************************************************)
(* Every send comes back, if all lines were within the limit: with an      *)
(* answer, or because the server has gone.  Nobody waits for a message     *)
(* that nobody will send.                                                  *)
(***************************************************************************)
SendReturns ==
  \A c \in Clients : (pc[c] = "confirm") ~> (pc[c] # "confirm" \/ ~Sound)

(***************************************************************************)
(* The worker of a sender that has gone returns, whatever ended the        *)
(* sender: quit, the end of its input, an empty line, or a signal, also    *)
(* when lines were too long or an error was taken for a message.           *)
(***************************************************************************)
WorkerEnds ==
  (pc["sender"] = "gone" /\ wpc["sender"] # "none")
    ~> (wpc["sender"] = "done" \/ ~up)

(***************************************************************************)
(* message.h:31-34 allows a message to have MAX_LEN characters with its    *)
(* newline: a request that is no longer gets one answer, and that is what  *)
(* the sender takes next.  Violated: receive reads at most MAX_LEN - 1     *)
(* characters, the newline that is left is refused like a request of its   *)
(* own, and the sender takes that answer for the one to its next request.  *)
(***************************************************************************)
OneAnswerEach ==
  pc["sender"] = "confirm" /\ ans["sender"] # <<>> =>
    Head(ans["sender"]).request = out["sender"].request
=============================================================================
