----------------------------- MODULE ChatServer -----------------------------
(***************************************************************************)
(* csf_assign05/server.cpp and room.cpp: the threads of the chat server,   *)
(* one worker per client, and the rooms they share.                        *)
(*                                                                         *)
(* Three things of the code shape the model.                               *)
(*                                                                         *)
(* find_or_create_room inserts into the map m_rooms without a lock (m_lock *)
(* of Server is never taken).  An insert that overlaps one that links a    *)
(* new entry is a data race on the red-black tree of the map: it may miss  *)
(* the entry, unlink entries, or crash the server.                         *)
(*                                                                         *)
(* broadcast_message walks the set of members without the lock that        *)
(* add_member takes.  An increment of the iterator that overlaps an insert *)
(* which rotates the tree (it takes three members) may land on any member  *)
(* or at the end.                                                          *)
(*                                                                         *)
(* The loop of chat_with_receiver never ends: is_open looks at m_fd, which *)
(* nothing resets, and failures of server_send are ignored.  A receiver    *)
(* whose client is gone stays a member and keeps emptying its queue.       *)
(*                                                                         *)
(* The queues are those of BoundedFifo with atomic operations, which       *)
(* MessageQueue is shown to implement.  What the workers of senders answer *)
(* is not recorded here; their reply is part of the step that ends the     *)
(* handling of a request.  A User's place in the order of the set is its   *)
(* number, standing for its address.                                       *)
(*                                                                         *)
(* A definition whose comment starts with MUTANT is a broken form of one   *)
(* that follows it; no specification uses it.                              *)
(***************************************************************************)
EXTENDS Integers, Sequences, FiniteSets

CONSTANTS
  Senders,    \* clients that log in with slogin
  Receivers,  \* clients that log in with rlogin: numbers, the order of User*
  RoomNames,
  QUEUE_MAX,  \* the capacity of a receiver's queue
  SockMax,    \* how many messages fit into the socket of a client
  MaxSends,   \* bound: how many broadcasts are started
  MaxJoins,   \* bound: how many joins senders request
  Unruly,     \* bound: the clients that may fail to log in or join, or hang up
  NoName      \* the argument of a join that has not come yet

Workers == Senders \cup Receivers

ASSUME ServerAssumption ==
  /\ Receivers \subseteq Nat \ {0}
  /\ Senders \cap Receivers = {}
  /\ Unruly \subseteq Workers
  /\ NoName \notin RoomNames
  /\ {QUEUE_MAX, SockMax, MaxSends, MaxJoins} \subseteq Nat \ {0}

VARIABLES
  up,        \* the process runs
  pc,        \* the next step of each worker
  alive,     \* the receivers whose client is there
  m_rooms,   \* the map from names to Room*; 0 is no entry
  rooms,     \* the Room objects: their name, lock and members
  want,      \* the argument of a worker's join
  raced,     \* the workers whose insert overlaps the linking of a new entry
  mapRaced,  \* history: some insert did
  cur_room,  \* the Room* of a worker; 0 before the first join
  in_room,   \* the senders in a room
  cursor,    \* the iterator of a broadcast: a member, or 0 before begin()
  mqueue,    \* the queue of each receiver
  hand,      \* the message a receiver's worker has dequeued, as a sequence
  sent,      \* what was written to the socket of each receiver
  nread,     \* how much of it the receiver has read
  nsends,    \* how many broadcasts were started
  njoins,    \* how many joins senders requested
  msg,       \* the message a sender broadcasts
  audience,  \* history: the members when the broadcast began
  torn       \* history: senders whose walk overlapped a rotating insert

chat == <<m_rooms, rooms, want, raced, mapRaced, cur_room, in_room>>
walk == <<cursor, msg, nsends, njoins, audience, torn>>
pipe == <<mqueue, hand, sent, nread>>
vars == <<up, pc, alive, chat, walk, pipe>>

Nobody == 0
Ok     == <<"ok">>
Err    == <<"err">>
Delivery(n, s, k) == <<"delivery", n, s, k>>
Messages == {Delivery(n, s, k) : n \in RoomNames, s \in Senders, k \in 1..MaxSends}

At(s) == {w \in Workers : pc[w] = s}
Goto(w, s) == pc' = [pc EXCEPT ![w] = s]
Runs(w, s) == up /\ pc[w] = s

SenderSteps   == {"login", "ready", "insert", "walk", "enqueue", "done"}
ReceiverSteps == {"login", "ready", "insert", "lock", "adding", "confirm",
                  "loop", "deliver", "done"}

Room == [room_name : RoomNames, lock : Receivers \cup {Nobody}, members : SUBSET Receivers]

TypeOK ==
  /\ up \in BOOLEAN
  /\ pc \in [Workers -> SenderSteps \cup ReceiverSteps]
  /\ alive \subseteq Receivers
  /\ rooms \in Seq(Room)
  /\ m_rooms \in [RoomNames -> 0..Len(rooms)]
  /\ want \in [Workers -> RoomNames \cup {NoName}]
  /\ raced \subseteq At("insert") /\ mapRaced \in BOOLEAN
  /\ cur_room \in [Workers -> 0..Len(rooms)]
  /\ in_room \subseteq Senders
  /\ cursor \in [Senders -> Receivers \cup {0}]
  /\ mqueue \in [Receivers -> Seq(Messages)]
  /\ \A r \in Receivers : Len(mqueue[r]) <= QUEUE_MAX
  /\ hand \in [Receivers -> Seq(Messages)]
  /\ sent \in [Receivers -> Seq(Messages \cup {Ok, Err})]
  /\ nread \in [Receivers -> Nat]
  /\ nsends \in 0..MaxSends /\ njoins \in 0..MaxJoins
  /\ msg \in [Senders -> Seq(Messages)]
  /\ audience \in [Senders -> SUBSET Receivers]
  /\ torn \subseteq Senders

Init ==
  /\ up = TRUE
  /\ pc = [w \in Workers |-> "login"]
  /\ alive = Receivers
  /\ rooms = <<>>
  /\ m_rooms = [n \in RoomNames |-> 0]
  /\ want = [w \in Workers |-> NoName]
  /\ raced = {} /\ mapRaced = FALSE
  /\ cur_room = [w \in Workers |-> 0]
  /\ in_room = {}
  /\ cursor = [s \in Senders |-> 0]
  /\ mqueue = [r \in Receivers |-> <<>>]
  /\ hand = [r \in Receivers |-> <<>>]
  /\ sent = [r \in Receivers |-> <<>>]
  /\ nread = [r \in Receivers |-> 0]
  /\ nsends = 0 /\ njoins = 0
  /\ msg = [s \in Senders |-> <<>>]
  /\ audience = [s \in Senders |-> {}]
  /\ torn = {}

-----------------------------------------------------------------------------
(* The socket of a receiver *)

\* server_send: it blocks while the client does not make room, and when the
\* client is gone the failure of rio_writen is ignored.
Write(r, m) ==
  IF r \in alive
  THEN /\ Len(sent[r]) - nread[r] < SockMax
       /\ sent' = [sent EXCEPT ![r] = Append(@, m)]
  ELSE UNCHANGED sent

Read(r) ==
  /\ up /\ r \in alive
  /\ nread[r] < Len(sent[r])
  /\ nread' = [nread EXCEPT ![r] = @ + 1]
  /\ UNCHANGED <<up, pc, alive, chat, walk, mqueue, hand, sent>>

Hangup(r) ==
  /\ up /\ r \in alive \cap Unruly
  /\ alive' = alive \ {r}
  /\ UNCHANGED <<up, pc, chat, walk, pipe>>

-----------------------------------------------------------------------------
(* worker: the login *)

Login(w) ==
  /\ Runs(w, "login")
  /\ Goto(w, "ready")
  /\ IF w \in Receivers THEN Write(w, Ok) ELSE UNCHANGED sent
  /\ UNCHANGED <<up, alive, chat, walk, mqueue, hand, nread>>

\* Another valid tag: the worker answers err and ends.
LoginRefused(w) ==
  /\ Runs(w, "login") /\ w \in Unruly
  /\ Goto(w, "done")
  /\ IF w \in Receivers THEN Write(w, Err) ELSE UNCHANGED sent
  /\ UNCHANGED <<up, alive, chat, walk, mqueue, hand, nread>>

\* No message or one with an invalid tag: fatal ends the whole process.
LoginFails(w) ==
  /\ Runs(w, "login") /\ w \in Unruly
  /\ up' = FALSE
  /\ UNCHANGED <<pc, alive, chat, walk, pipe>>

-----------------------------------------------------------------------------
(* Server::find_or_create_room, called by the workers of both kinds *)

\* A join request arrives.
Join(w, n) ==
  /\ Runs(w, "ready")
  /\ IF w \in Senders THEN njoins < MaxJoins /\ njoins' = njoins + 1
                      ELSE UNCHANGED njoins
  /\ Goto(w, "insert")
  /\ want' = [want EXCEPT ![w] = n]
  /\ UNCHANGED <<up, alive, m_rooms, rooms, raced, mapRaced, cur_room, in_room,
                 cursor, msg, nsends, audience, torn, pipe>>

\* The call returns room k, and the worker goes on with it.
EnterRoom(w, k) ==
  /\ cur_room' = [cur_room EXCEPT ![w] = k]
  /\ IF w \in Senders THEN Goto(w, "ready")  /\ in_room' = in_room \cup {w}
                      ELSE Goto(w, "lock") /\ UNCHANGED in_room

\* MUTANT: insert finds an entry whatever its name.
FindAnyRoom(w) ==
  /\ Runs(w, "insert")
  /\ \E n \in RoomNames : m_rooms[n] # 0 /\ EnterRoom(w, m_rooms[n])
  /\ raced' = raced \ {w}
  /\ UNCHANGED <<up, alive, m_rooms, rooms, mapRaced, want, walk, pipe>>

\* insert finds the name; the Room made for it is deleted.
FindRoom(w) ==
  /\ Runs(w, "insert")
  /\ m_rooms[want[w]] # 0
  /\ EnterRoom(w, m_rooms[want[w]])
  /\ raced' = raced \ {w}
  /\ UNCHANGED <<up, alive, m_rooms, rooms, mapRaced, want, walk, pipe>>

\* MUTANT: the entry is always replaced.
AlwaysLinks(w) == TRUE

\* insert finds no entry of the name, or has raced and missed it.
Links(w) == m_rooms[want[w]] = 0 \/ w \in raced

\* insert links a new entry; one that has raced may unlink any, its own too.
CreateRoom(w) ==
  LET n == want[w]
      k == Len(rooms) + 1
      linked == [m_rooms EXCEPT ![n] = k]
      Outcomes == {[x \in RoomNames |-> IF x \in lost
                                        THEN IF x = n THEN m_rooms[n] ELSE 0
                                        ELSE linked[x]] : lost \in SUBSET RoomNames}
  IN /\ Runs(w, "insert")
     /\ Links(w)
     /\ rooms' = Append(rooms, [room_name |-> n, lock |-> Nobody, members |-> {}])
     /\ m_rooms' \in IF w \in raced THEN Outcomes ELSE {linked}
     /\ raced' = At("insert") \ {w}
     /\ mapRaced' = (mapRaced \/ raced' # {})
     /\ EnterRoom(w, k)
     /\ UNCHANGED <<up, alive, want, walk, pipe>>

\* A raced insert may run into a corrupt tree.
CrashInMap(w) ==
  /\ up /\ w \in raced
  /\ up' = FALSE
  /\ UNCHANGED <<pc, alive, chat, walk, pipe>>

-----------------------------------------------------------------------------
(* chat_with_sender.  Requests that are answered with err change nothing. *)

Leave(s) ==
  /\ Runs(s, "ready")
  /\ s \in in_room
  /\ in_room' = in_room \ {s}
  /\ UNCHANGED <<up, pc, alive, m_rooms, rooms, raced, mapRaced, want, cur_room,
                 walk, pipe>>

\* A quit request, or the end of the connection.
Quit(s) ==
  /\ Runs(s, "ready")
  /\ Goto(s, "done")
  /\ in_room' = in_room \ {s}
  /\ UNCHANGED <<up, alive, m_rooms, rooms, raced, mapRaced, want, cur_room, walk,
                 pipe>>

\* A sendall request: Room::broadcast_message makes the message ...
Sendall(s) ==
  /\ Runs(s, "ready")
  /\ s \in in_room
  /\ nsends < MaxSends
  /\ nsends' = nsends + 1
  /\ msg' = [msg EXCEPT
       ![s] = <<Delivery(rooms[cur_room[s]].room_name, s, nsends')>>]
  /\ audience' = [audience EXCEPT ![s] = rooms[cur_room[s]].members]
  /\ Goto(s, "walk")
  /\ UNCHANGED <<up, alive, chat, njoins, cursor, torn, pipe>>

\* MUTANT: an increment that skips a neighbour.
SkippingMember(members, i) ==
  LET later == {r \in members : r > i + 1}
  IN IF later = {} THEN 0 ELSE CHOOSE r \in later : \A q \in later : r <= q

\* The member after i in the order of the set, or 0 for end().
NextMember(members, i) ==
  LET later == {r \in members : r > i}
  IN IF later = {} THEN 0 ELSE CHOOSE r \in later : \A q \in later : r <= q

\* An increment that overlaps a rotating insert; bound: the first one of a walk.
Overlaps(s) ==
  LET room == rooms[cur_room[s]]
  IN /\ cursor[s] # 0 /\ s \notin torn
     /\ room.lock # Nobody
     /\ Cardinality(room.members) >= 2

Landings(s) ==
  LET room == rooms[cur_room[s]]
  IN IF Overlaps(s) THEN room.members \cup {room.lock, 0}
                    ELSE {NextMember(room.members, cursor[s])}

\* ... begin() or ++ of the iterator finds another member ...
Advance(s) ==
  /\ Runs(s, "walk")
  /\ \E r \in Landings(s) \ {0} : cursor' = [cursor EXCEPT ![s] = r]
  /\ torn' = IF Overlaps(s) THEN torn \cup {s} ELSE torn
  /\ Goto(s, "enqueue")
  /\ UNCHANGED <<up, alive, chat, msg, nsends, njoins, audience, pipe>>

\* MUTANT: the message is put before the others.
EnqueueFront(s) ==
  LET r == cursor[s]
  IN /\ Runs(s, "enqueue")
     /\ Len(mqueue[r]) < QUEUE_MAX
     /\ mqueue' = [mqueue EXCEPT ![r] = msg[s] \o @]
     /\ Goto(s, "walk")
     /\ UNCHANGED <<up, alive, chat, walk, hand, sent, nread>>

\* ... whose queue takes the message when it has room ...
Enqueue(s) ==
  LET r == cursor[s]
  IN /\ Runs(s, "enqueue")
     /\ Len(mqueue[r]) < QUEUE_MAX
     /\ mqueue' = [mqueue EXCEPT ![r] = @ \o msg[s]]
     /\ Goto(s, "walk")
     /\ UNCHANGED <<up, alive, chat, walk, hand, sent, nread>>

\* ... or the end.
Finish(s) ==
  /\ Runs(s, "walk")
  /\ 0 \in Landings(s)
  /\ Goto(s, "ready")
  /\ cursor' = [cursor EXCEPT ![s] = 0]
  /\ msg' = [msg EXCEPT ![s] = <<>>]
  /\ audience' = [audience EXCEPT ![s] = {}]
  /\ torn' = torn \ {s}
  /\ UNCHANGED <<up, alive, chat, nsends, njoins, pipe>>

-----------------------------------------------------------------------------
(* chat_with_receiver *)

\* The first request is not a join, or does not arrive: err, and return.
Refuse(r) ==
  /\ Runs(r, "ready") /\ r \in Unruly
  /\ Goto(r, "done")
  /\ Write(r, Err)
  /\ UNCHANGED <<up, alive, chat, walk, mqueue, hand, nread>>

\* Room::add_member takes the lock ...
LockRoom(r) ==
  LET k == cur_room[r]
  IN /\ Runs(r, "lock")
     /\ rooms[k].lock = Nobody
     /\ rooms' = [rooms EXCEPT ![k].lock = r]
     /\ Goto(r, "adding")
     /\ UNCHANGED <<up, alive, m_rooms, raced, mapRaced, want, cur_room, in_room,
                    walk, pipe>>

\* MUTANT: the User is not inserted.
AddNobody(r) ==
  /\ Runs(r, "adding")
  /\ rooms' = [rooms EXCEPT ![cur_room[r]].lock = Nobody]
  /\ Goto(r, "confirm")
  /\ UNCHANGED <<up, alive, m_rooms, raced, mapRaced, want, cur_room, in_room,
                 walk, pipe>>

\* MUTANT: the join is not answered.
AddUnanswered(r) ==
  LET k == cur_room[r]
  IN /\ Runs(r, "adding")
     /\ rooms' = [rooms EXCEPT ![k].lock = Nobody, ![k].members = @ \cup {r}]
     /\ Goto(r, "loop")
     /\ UNCHANGED <<up, alive, m_rooms, raced, mapRaced, want, cur_room, in_room,
                    walk, pipe>>

\* ... inserts the User and gives the lock back.
AddMember(r) ==
  LET k == cur_room[r]
  IN /\ Runs(r, "adding")
     /\ rooms' = [rooms EXCEPT ![k].lock = Nobody, ![k].members = @ \cup {r}]
     /\ Goto(r, "confirm")
     /\ UNCHANGED <<up, alive, m_rooms, raced, mapRaced, want, cur_room, in_room,
                    walk, pipe>>

Confirm(r) ==
  /\ Runs(r, "confirm")
  /\ Write(r, Ok)
  /\ Goto(r, "loop")
  /\ UNCHANGED <<up, alive, chat, walk, mqueue, hand, nread>>

\* A dequeue that returns a message; one that returns nullptr changes nothing.
Dequeue(r) ==
  /\ Runs(r, "loop")
  /\ mqueue[r] # <<>>
  /\ hand' = [hand EXCEPT ![r] = <<Head(mqueue[r])>>]
  /\ mqueue' = [mqueue EXCEPT ![r] = Tail(@)]
  /\ Goto(r, "deliver")
  /\ UNCHANGED <<up, alive, chat, walk, sent, nread>>

\* MUTANT: the worker returns when its client is gone, and remains a member.
DeliverOrReturn(r) ==
  /\ Runs(r, "deliver")
  /\ Write(r, Head(hand[r]))
  /\ hand' = [hand EXCEPT ![r] = <<>>]
  /\ Goto(r, IF r \in alive THEN "loop" ELSE "done")
  /\ UNCHANGED <<up, alive, chat, walk, mqueue, nread>>

\* MUTANT: the worker sends one message only.
DeliverOnce(r) ==
  /\ Runs(r, "deliver")
  /\ Write(r, Head(hand[r]))
  /\ hand' = [hand EXCEPT ![r] = <<>>]
  /\ Goto(r, "done")
  /\ UNCHANGED <<up, alive, chat, walk, mqueue, nread>>

Deliver(r) ==
  /\ Runs(r, "deliver")
  /\ Write(r, Head(hand[r]))
  /\ hand' = [hand EXCEPT ![r] = <<>>]
  /\ Goto(r, "loop")
  /\ UNCHANGED <<up, alive, chat, walk, mqueue, nread>>

-----------------------------------------------------------------------------

InsertStep(w) == FindRoom(w) \/ CreateRoom(w) \/ CrashInMap(w)

SenderStep(s) == InsertStep(s) \/ Advance(s) \/ Enqueue(s) \/ Finish(s)

ReceiverStep(r) ==
  \/ InsertStep(r) \/ LockRoom(r) \/ AddMember(r) \/ Confirm(r)
  \/ Dequeue(r) \/ Deliver(r)

\* What clients do.
ClientStep ==
  \/ \E w \in Workers :
       \/ Login(w) \/ LoginRefused(w) \/ LoginFails(w)
       \/ \E n \in RoomNames : Join(w, n)
  \/ \E s \in Senders : Leave(s) \/ Sendall(s) \/ Quit(s)
  \/ \E r \in Receivers : Refuse(r) \/ Read(r) \/ Hangup(r)

Next ==
  \/ ClientStep
  \/ \E s \in Senders : SenderStep(s)
  \/ \E r \in Receivers : ReceiverStep(r)

Spec == Init /\ [][Next]_vars

\* Workers keep running, and a client that is there keeps reading (the loop
\* of receiver.cpp).  Nobody has to send a request.
Fairness ==
  /\ \A s \in Senders : WF_vars(SenderStep(s))
  /\ \A r \in Receivers : WF_vars(ReceiverStep(r)) /\ WF_vars(Read(r))

FairSpec == Spec /\ Fairness

-----------------------------------------------------------------------------
(* Properties *)

NameOf(w) == rooms[cur_room[w]].room_name

\* What is on its way to receiver r or was written to its socket, in order.
Stream(r) == sent[r] \o hand[r] \o mqueue[r]

\* The messages of one sender never overtake each other: along the way to a
\* receiver, from the broadcast to the socket, their numbers never go down.
SenderOrderKept ==
  \A r \in Receivers : \A i, j \in DOMAIN Stream(r) :
    LET a == Stream(r)[i]  b == Stream(r)[j]
    IN (i < j /\ a \in Messages /\ b \in Messages /\ a[3] = b[3]) => a[4] <= b[4]

\* A receiver is only sent messages of the room whose name it asked to join,
\* however the map of rooms was raced.
OnlyOwnRoom ==
  \A r \in Receivers : \A i \in DOMAIN Stream(r) :
    Stream(r)[i] \in Messages => Stream(r)[i][2] = want[r]

\* The answers to login and join come before the first delivery, although the
\* receiver is a member, and may have messages, before it is answered
\* (receiver.cpp takes the first two messages for those answers).
AnsweredFirst ==
  \A r \in Receivers : \A i \in DOMAIN sent[r] :
    sent[r][i] \in Messages => i > 2 /\ sent[r][1] = Ok /\ sent[r][2] = Ok

\* The worker of a member never returns: the User, which lives on its stack,
\* is there whenever a broadcast follows the pointer, also after the client
\* has gone.
MembersStay ==
  \A k \in DOMAIN rooms : \A r \in rooms[k].members : pc[r] # "done"

\* As long as no two inserts have raced, the Room that a worker holds is the
\* one the map has for its name, and so the only one of that name.
RoomIsUnique ==
  ~mapRaced => \A w \in Workers :
    cur_room[w] # 0 => m_rooms[NameOf(w)] = cur_room[w]

\* As long as no two inserts have raced, a receiver whose join was answered is
\* among the members that any sender in a room of that name sends to.
AnsweredIsMember ==
  ~mapRaced => \A r \in Receivers, s \in in_room :
    (pc[r] \in {"loop", "deliver"} /\ NameOf(r) = NameOf(s))
      => r \in rooms[cur_room[s]].members

Copies(m, q) == Cardinality({i \in DOMAIN q : q[i] = m})

\* When a broadcast that no rotating insert overlapped is over, every receiver
\* that was a member when it began, and whose client is still there, has been
\* sent the message exactly once.
BroadcastReachesAll ==
  [][\A s \in Senders :
       (Finish(s) /\ s \notin torn /\ ~Overlaps(s)) =>
         \A r \in audience[s] \cap alive : Copies(msg[s][1], Stream(r)) = 1]_vars

\* A sendall is answered in the end, whichever receivers of the room have
\* gone: the server gets through the queues of all of them.
SendallAnswered ==
  \A s \in Senders : (up /\ pc[s] \in {"walk", "enqueue"}) ~> (~up \/ pc[s] = "ready")

\* What is queued for a receiver is read by its client, unless that is gone.
QueuedIsRead ==
  \A r \in Receivers :
    (mqueue[r] # <<>>) ~> (~up \/ r \notin alive \/ nread[r] = Len(Stream(r)))
=============================================================================
