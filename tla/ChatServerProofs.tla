-------------------------- MODULE ChatServerProofs --------------------------
(***************************************************************************)
(* Safety of the rooms and queues of ChatServer, for every set of clients  *)
(* and of names, every capacity of the queues and sockets, and every       *)
(* number of broadcasts: also when inserts into m_rooms race, walks are    *)
(* torn, and clients hang up.                                              *)
(*                                                                         *)
(* The inductive invariant IInv is the conjunction of the types and of     *)
(*                                                                         *)
(*   Placed   a receiver is a member of the room that its worker holds,    *)
(*            and of no other, from the insert on;                         *)
(*   Named    the map has rooms under their own names;                     *)
(*   Unique   the map has every room that is held, unless inserts raced;   *)
(*   Posted   the iterator of a broadcast is at a receiver which stays in  *)
(*            the room, and the message carries the name of the room;      *)
(*   Carried  what is on its way to a receiver may be: it is of its room,  *)
(*            and not newer than the last broadcast of its sender;         *)
(*   InOrder  its parts, and what they hold, are in the order of sending;  *)
(*   Greeted  the answers to login and join have been written.             *)
(*                                                                         *)
(* The last theorem, on whom a broadcast reaches, needs one more, Reached, *)
(* which is inductive given IInv: the receivers that an iterator which was *)
(* never torn has passed have one copy of the message, the others none.    *)
(***************************************************************************)
EXTENDS ChatServer, FiniteSetTheorems, SequenceTheorems, WellFoundedInduction, TLAPS

\* The steps of a worker whose receiver is a member, or about to be one, and of
\* one that broadcasts.
Member  == {"confirm", "loop", "deliver"}
Inside  == Member \cup {"adding"}
Walking == {"walk", "enqueue"}

\* A worker that looks for a room has been asked for one.
Asked == \A w \in Workers : pc[w] = "insert" => want[w] \in RoomNames

\* Workers hold the rooms they need, under the name they were asked for; the
\* lock and the members of a room are receivers whose workers hold it.
Placed ==
  /\ \A s \in Senders : s \in in_room \/ pc[s] \in Walking => cur_room[s] # 0
  /\ \A r \in Receivers : pc[r] \in Inside \cup {"lock"} =>
       cur_room[r] # 0 /\ NameOf(r) = want[r]
  /\ \A r \in Receivers : \A k \in DOMAIN rooms :
       /\ rooms[k].lock = r => pc[r] = "adding" /\ cur_room[r] = k
       /\ r \in rooms[k].members <=> pc[r] \in Member /\ cur_room[r] = k

\* An entry of the map has the name of its room.
Named == \A n \in RoomNames : m_rooms[n] # 0 => rooms[m_rooms[n]].room_name = n

\* Unless inserts have raced, none is about to, and the map has every room.
Unique == (~mapRaced => raced = {}) /\ RoomIsUnique

\* A worker has one message in its hands between dequeue and server_send.
InHand == \A r \in Receivers :
  IF pc[r] = "deliver" THEN Len(hand[r]) = 1 ELSE hand[r] = <<>>

\* A broadcast has its message, under the name of its room, and its iterator is
\* at a receiver that is in this room.
Posted == \A s \in Senders :
  /\ pc[s] \in Walking =>
       \E k \in 1 .. nsends : msg[s] = <<Delivery(NameOf(s), s, k)>>
  /\ pc[s] = "enqueue" => cursor[s] # 0
  /\ cursor[s] # 0 => /\ pc[s] \in Walking
                      /\ pc[cursor[s]] \in Inside
                      /\ cur_room[cursor[s]] = cur_room[s]

\* The number of the last broadcast of sender s that may be on its way.
Last(s) == IF pc[s] \in Walking THEN msg[s][1][4] ELSE nsends

\* What may be on its way to receiver r.
Allowed(r) ==
  {m \in Messages : pc[r] \in Inside /\ m[2] = want[r] /\ m[4] <= Last(m[3])}
    \cup {Ok, Err}

\* All that is on its way to a receiver is allowed to be.
Carried == \A r \in Receivers :
  /\ sent[r] \in Seq(Allowed(r))
  /\ hand[r] \in Seq(Allowed(r))
  /\ mqueue[r] \in Seq(Allowed(r))

\* The answers to the login and the join.
Greeted ==
  \A r \in alive :
    /\ pc[r] = "login" => sent[r] = <<>>
    /\ pc[r] \in {"ready", "insert", "lock", "adding", "confirm"} => sent[r] = <<Ok>>
    /\ pc[r] \in {"loop", "deliver"} => Len(sent[r]) >= 2 /\ sent[r][1] = Ok /\ sent[r][2] = Ok

\* What SenderOrderKept says, of two messages, of a sequence, of two parts of one.
Precedes(a, b) == (a \in Messages /\ b \in Messages /\ a[3] = b[3]) => a[4] <= b[4]
Ordered(q)     == \A i, j \in DOMAIN q : i < j => Precedes(q[i], q[j])
Before(p, q)   == \A i \in DOMAIN p, j \in DOMAIN q : Precedes(p[i], q[j])

\* The order along the socket, the worker and the queue of each receiver.
InOrder == \A r \in Receivers :
  /\ Ordered(sent[r]) /\ Ordered(hand[r]) /\ Ordered(mqueue[r])
  /\ Before(sent[r], hand[r])
  /\ Before(sent[r], mqueue[r])
  /\ Before(hand[r], mqueue[r])

\* The inductive invariant.
IInv == /\ TypeOK /\ Asked /\ Placed /\ Named /\ Unique /\ InHand /\ Posted
        /\ Carried /\ InOrder /\ Greeted /\ AnsweredFirst

-----------------------------------------------------------------------------
(* Types *)

\* The next member is a member, or there is none.
LEMMA NextMemberIs ==
  ASSUME NEW members \in SUBSET Receivers, NEW i \in Receivers \cup {0}
  PROVE  NextMember(members, i) \in members \cup {0}
<1> DEFINE later == {r \in members : r > i}
<1>1. CASE later = {}
  BY <1>1 DEF NextMember
<1>2. CASE later # {}
  <2>1. later \subseteq Nat
    BY ServerAssumption
  <2>2. PICK j \in later : \A k \in later : ~(<<k, j>> \in OpToRel(<, Nat))
    BY <1>2, <2>1, NatLessThanWellFounded, WFMin, Zenon
  <2>3. \A k \in later : ~(k < j)
    BY <2>1, <2>2, Zenon DEF OpToRel
  <2>4. \E r \in later : \A q \in later : r <= q
    BY <2>1, <2>3
  <2> QED
    BY <1>2, <2>4 DEF NextMember
<1> QED
  BY <1>1, <1>2

\* A walk only ever lands on a receiver or at the end.
LEMMA LandingsAre ==
  ASSUME TypeOK, NEW s \in Senders, cur_room[s] # 0
  PROVE  /\ cur_room[s] \in DOMAIN rooms /\ rooms[cur_room[s]] \in Room
         /\ Landings(s) \subseteq
              rooms[cur_room[s]].members \cup {rooms[cur_room[s]].lock, 0}
<1>1. cur_room[s] \in 1 .. Len(rooms)
  BY DEF TypeOK, Workers
<1>2. rooms[cur_room[s]] \in Room
  BY <1>1, ElementOfSeq DEF TypeOK
<1>3. /\ rooms[cur_room[s]].members \in SUBSET Receivers
      /\ cursor[s] \in Receivers \cup {0}
  BY <1>2 DEF TypeOK, Room
<1>4. NextMember(rooms[cur_room[s]].members, cursor[s]) \in rooms[cur_room[s]].members \cup {0}
  BY <1>3, NextMemberIs
<1> QED
  BY <1>1, <1>2, <1>4 DEF Landings, TypeOK

\* The types, by the parts of the state.
PcTypes ==
  /\ up \in BOOLEAN /\ alive \subseteq Receivers
  /\ pc \in [Workers -> SenderSteps \cup ReceiverSteps]
  /\ want \in [Workers -> RoomNames \cup {NoName}]
  /\ raced \subseteq At("insert") /\ mapRaced \in BOOLEAN
  /\ Asked

RoomTypes ==
  /\ rooms \in Seq(Room)
  /\ m_rooms \in [RoomNames -> 0..Len(rooms)]
  /\ cur_room \in [Workers -> 0..Len(rooms)]
  /\ in_room \subseteq Senders

WalkTypes ==
  /\ cursor \in [Senders -> Receivers \cup {0}]
  /\ nsends \in 0..MaxSends /\ njoins \in 0..MaxJoins
  /\ msg \in [Senders -> Seq(Messages)]
  /\ audience \in [Senders -> SUBSET Receivers]
  /\ torn \subseteq Senders

PipeTypes ==
  /\ mqueue \in [Receivers -> Seq(Messages)]
  /\ \A r \in Receivers : Len(mqueue[r]) <= QUEUE_MAX
  /\ hand \in [Receivers -> Seq(Messages)]
  /\ sent \in [Receivers -> Seq(Messages \cup {Ok, Err})]
  /\ nread \in [Receivers -> Nat]

\* They make up the type invariant.
LEMMA TypeParts ==
  TypeOK /\ Asked <=> PcTypes /\ RoomTypes /\ WalkTypes /\ PipeTypes
BY DEF TypeOK, PcTypes, RoomTypes, WalkTypes, PipeTypes

-----------------------------------------------------------------------------
(* Which steps change what *)

\* The steps that change the rooms, the walks, and what is on its way.
ChatFrame ==
  \/ UNCHANGED <<m_rooms, rooms, cur_room, in_room>>
  \/ \E w \in Workers : FindRoom(w) \/ CreateRoom(w)
  \/ \E s \in Senders : Leave(s) \/ Quit(s)
  \/ \E r \in Receivers : LockRoom(r) \/ AddMember(r)

WalkFrame ==
  \/ UNCHANGED <<cursor, msg, audience, torn, nsends, njoins>>
  \/ \E s \in Senders : Sendall(s) \/ Advance(s) \/ Finish(s)
  \/ \E w \in Workers, n \in RoomNames : Join(w, n)

PipeFrame ==
  \/ UNCHANGED pipe
  \/ \E s \in Senders : Enqueue(s)
  \/ \E r \in Receivers :
       Login(r) \/ LoginRefused(r) \/ Refuse(r) \/ Confirm(r) \/ Deliver(r)
         \/ Dequeue(r) \/ Read(r)

\* Each step is among them, or leaves the part alone.
LEMMA Frames ==
  ASSUME Next
  PROVE  ChatFrame /\ WalkFrame /\ PipeFrame
<1> USE DEF ChatFrame, WalkFrame, PipeFrame, chat, walk, pipe, Workers
<1>1. ASSUME NEW w \in Workers, InsertStep(w)
      PROVE  ChatFrame /\ WalkFrame /\ PipeFrame
  BY <1>1 DEF InsertStep, FindRoom, CreateRoom, CrashInMap
<1>2. ASSUME ClientStep
      PROVE  ChatFrame /\ WalkFrame /\ PipeFrame
  BY <1>2 DEF ClientStep, Login, LoginRefused, LoginFails, Join, Leave, Sendall,
              Quit, Refuse, Read, Hangup
<1>3. ASSUME NEW s \in Senders, SenderStep(s)
      PROVE  ChatFrame /\ WalkFrame /\ PipeFrame
  BY <1>1, <1>3 DEF SenderStep, Advance, Enqueue, Finish
<1>4. ASSUME NEW r \in Receivers, ReceiverStep(r)
      PROVE  ChatFrame /\ WalkFrame /\ PipeFrame
  BY <1>1, <1>4 DEF ReceiverStep, LockRoom, AddMember, Confirm, Dequeue, Deliver
<1> QED
  BY <1>2, <1>3, <1>4 DEF Next

-----------------------------------------------------------------------------
(* Types are kept *)

\* Program counters and arguments.
LEMMA PcStep ==
  ASSUME TypeOK, Asked, Placed, InHand, Posted, Next
  PROVE  PcTypes'
<1> USE DEF PcTypes, Asked, At, SenderSteps, ReceiverSteps, Workers, Goto,
Runs, chat, walk, pipe
<1>1. PcTypes /\ RoomTypes /\ WalkTypes /\ PipeTypes
  BY TypeParts
<1>2. ASSUME NEW w \in Workers, Login(w) PROVE PcTypes'
  BY <1>1, <1>2 DEF Login, Write, EnterRoom
<1>3. ASSUME NEW w \in Workers, LoginRefused(w) PROVE PcTypes'
  BY <1>1, <1>3 DEF LoginRefused, Write, EnterRoom
<1>4. ASSUME NEW w \in Workers, LoginFails(w) PROVE PcTypes'
  BY <1>1, <1>4 DEF LoginFails, Write, EnterRoom
<1>5. ASSUME NEW w \in Workers, FindRoom(w) PROVE PcTypes'
  BY <1>1, <1>5 DEF FindRoom, Write, EnterRoom
<1>6. ASSUME NEW w \in Workers, CreateRoom(w) PROVE PcTypes'
  BY <1>1, <1>6 DEF CreateRoom, Write, EnterRoom
<1>7. ASSUME NEW w \in Workers, CrashInMap(w) PROVE PcTypes'
  BY <1>1, <1>7 DEF CrashInMap, Write, EnterRoom
<1>8. ASSUME NEW s \in Senders, Leave(s) PROVE PcTypes'
  BY <1>1, <1>8 DEF Leave, Write, EnterRoom
<1>9. ASSUME NEW s \in Senders, Quit(s) PROVE PcTypes'
  BY <1>1, <1>9 DEF Quit, Write, EnterRoom
<1>10. ASSUME NEW s \in Senders, Sendall(s) PROVE PcTypes'
  BY <1>1, <1>10 DEF Sendall, Write, EnterRoom
<1>11. ASSUME NEW s \in Senders, Advance(s) PROVE PcTypes'
  BY <1>1, <1>11 DEF Advance, Write, EnterRoom
<1>12. ASSUME NEW s \in Senders, Enqueue(s) PROVE PcTypes'
  BY <1>1, <1>12 DEF Enqueue, Write, EnterRoom
<1>13. ASSUME NEW s \in Senders, Finish(s) PROVE PcTypes'
  BY <1>1, <1>13 DEF Finish, Write, EnterRoom
<1>14. ASSUME NEW r \in Receivers, Refuse(r) PROVE PcTypes'
  BY <1>1, <1>14 DEF Refuse, Write, EnterRoom
<1>15. ASSUME NEW r \in Receivers, Read(r) PROVE PcTypes'
  BY <1>1, <1>15 DEF Read, Write, EnterRoom
<1>16. ASSUME NEW r \in Receivers, Hangup(r) PROVE PcTypes'
  BY <1>1, <1>16 DEF Hangup, Write, EnterRoom
<1>17. ASSUME NEW r \in Receivers, LockRoom(r) PROVE PcTypes'
  BY <1>1, <1>17 DEF LockRoom, Write, EnterRoom
<1>18. ASSUME NEW r \in Receivers, AddMember(r) PROVE PcTypes'
  BY <1>1, <1>18 DEF AddMember, Write, EnterRoom
<1>19. ASSUME NEW r \in Receivers, Confirm(r) PROVE PcTypes'
  BY <1>1, <1>19 DEF Confirm, Write, EnterRoom
<1>20. ASSUME NEW r \in Receivers, Dequeue(r) PROVE PcTypes'
  BY <1>1, <1>20 DEF Dequeue, Write, EnterRoom
<1>21. ASSUME NEW r \in Receivers, Deliver(r) PROVE PcTypes'
  BY <1>1, <1>21 DEF Deliver, Write, EnterRoom
<1>22. ASSUME NEW w \in Workers, NEW n \in RoomNames, Join(w, n) PROVE PcTypes'
  BY <1>1, <1>22 DEF Join
<1> QED
  BY <1>2, <1>3, <1>4, <1>5, <1>6, <1>7, <1>8, <1>9, <1>10, <1>11, <1>12, <1>13,
     <1>14, <1>15, <1>16, <1>17, <1>18, <1>19, <1>20, <1>21, <1>22 DEF Next, ClientStep, SenderStep, ReceiverStep, InsertStep

\* A change of the room that a worker holds.
LEMMA RoomsExcept ==
  ASSUME RoomTypes, NEW k \in DOMAIN rooms, NEW e \in Room,
         rooms' = [rooms EXCEPT ![k] = e]
  PROVE  /\ rooms' \in Seq(Room)
         /\ Len(rooms') = Len(rooms)
         /\ DOMAIN rooms' = DOMAIN rooms
<1>1. k \in 1 .. Len(rooms)
  BY DEF RoomTypes
<1> QED
  BY <1>1, ExceptSeq, LenProperties DEF RoomTypes

\* Rooms and the map.
LEMMA RoomStep ==
  ASSUME TypeOK, Asked, Placed, Next
  PROVE  RoomTypes'
<1>1. PcTypes /\ RoomTypes /\ ChatFrame
  BY TypeParts, Frames
<1>2. CASE UNCHANGED <<m_rooms, rooms, cur_room, in_room>>
  BY <1>1, <1>2 DEF RoomTypes
<1>3. ASSUME NEW s \in Senders, Leave(s) \/ Quit(s)
      PROVE  RoomTypes'
  BY <1>1, <1>3 DEF RoomTypes, Leave, Quit
<1>4. ASSUME NEW w \in Workers, NEW k \in 0 .. Len(rooms)', EnterRoom(w, k), cur_room \in [Workers -> 0 .. Len(rooms)']
      PROVE  /\ cur_room' \in [Workers -> 0 .. Len(rooms)']
             /\ in_room' \subseteq Senders
  BY <1>1, <1>4 DEF RoomTypes, EnterRoom
<1>5. ASSUME NEW w \in Workers, FindRoom(w)
      PROVE  RoomTypes'
  <2>1. want[w] \in RoomNames
    BY <1>1, <1>5 DEF FindRoom, Runs, PcTypes, Asked
  <2>2. /\ m_rooms[want[w]] \in 0 .. Len(rooms)'
        /\ rooms' = rooms
        /\ m_rooms' = m_rooms
    BY <1>1, <1>5, <2>1 DEF FindRoom, RoomTypes
  <2>3. cur_room \in [Workers -> 0 .. Len(rooms)']
    BY <1>1, <2>2 DEF RoomTypes
  <2> QED
    BY <1>1, <1>4, <1>5, <2>2, <2>3 DEF RoomTypes, FindRoom
<1>6. ASSUME NEW w \in Workers, CreateRoom(w)
      PROVE  RoomTypes'
  <2> DEFINE new == [room_name |-> want[w], lock |-> Nobody, members |-> {}]
  <2>1. want[w] \in RoomNames
    BY <1>1, <1>6 DEF CreateRoom, Runs, PcTypes, Asked
  <2>2. new \in Room /\ rooms' = Append(rooms, new)
    BY <1>6, <2>1 DEF CreateRoom, Room
  <2>3. rooms' \in Seq(Room) /\ Len(rooms') = Len(rooms) + 1 /\ Len(rooms) \in Nat
    <3> HIDE DEF new
    <3> QED BY <1>1, <2>2, AppendProperties, LenProperties DEF RoomTypes
  <2>4. m_rooms' \in [RoomNames -> 0 .. Len(rooms')]
    <3> DEFINE linked == [m_rooms EXCEPT ![want[w]] = Len(rooms) + 1]
               After(lost) == [x \in RoomNames |-> IF x \in lost
                                 THEN IF x = want[w] THEN m_rooms[want[w]] ELSE 0
                                 ELSE linked[x]]
    <3>1. /\ linked \in [RoomNames -> 0 .. Len(rooms')]
          /\ m_rooms[want[w]] \in 0 .. Len(rooms')
      BY <1>1, <2>1, <2>3 DEF RoomTypes
    <3>2. m_rooms' = linked \/ \E lost \in SUBSET RoomNames : m_rooms' = After(lost)
      BY <1>6 DEF CreateRoom
    <3> HIDE DEF linked
    <3> QED
      BY <2>3, <3>1, <3>2
  <2>5. cur_room \in [Workers -> 0 .. Len(rooms')]
    BY <1>1, <2>3 DEF RoomTypes
  <2>6. EnterRoom(w, Len(rooms) + 1) /\ Len(rooms) + 1 \in 0 .. Len(rooms')
    BY <1>6, <2>3 DEF CreateRoom
  <2> QED
    BY <1>4, <2>3, <2>4, <2>5, <2>6 DEF RoomTypes
<1>7. ASSUME NEW r \in Receivers, LockRoom(r) \/ AddMember(r)
      PROVE  RoomTypes'
  <2> DEFINE k == cur_room[r]
  <2>1. k \in 1 .. Len(rooms)
    BY <1>1, <1>7 DEF LockRoom, AddMember, Runs, Placed, Inside, RoomTypes,
       Workers
  <2>2. rooms[k] \in Room /\ DOMAIN rooms = 1 .. Len(rooms)
    BY <1>1, <2>1, ElementOfSeq, LenProperties DEF RoomTypes
  <2>3. PICK e \in Room : rooms' = [rooms EXCEPT ![k] = e]
    <3>1. CASE LockRoom(r)
      <4>1. [rooms[k] EXCEPT !.lock = r] \in Room
        BY <2>2 DEF Room
      <4> QED BY <3>1, <4>1 DEF LockRoom
    <3>2. CASE AddMember(r)
      <4>1. [[rooms[k] EXCEPT !.lock = Nobody] EXCEPT !.members = @ \cup {r}] \in Room
        BY <2>2 DEF Room
      <4>2. rooms' = [rooms EXCEPT ![k] = [[rooms[k] EXCEPT !.lock = Nobody] EXCEPT !.members = @ \cup {r}]]
        BY <2>1, <2>2, <3>2 DEF AddMember, Room
      <4> QED BY <4>1, <4>2
    <3> QED BY <1>7, <3>1, <3>2
  <2>4. rooms' \in Seq(Room) /\ Len(rooms') = Len(rooms)
    <3> HIDE DEF k
    <3> QED BY <1>1, <2>1, <2>2, <2>3, RoomsExcept
  <2> QED
    BY <1>1, <1>7, <2>4 DEF LockRoom, AddMember, RoomTypes
<1> QED
  BY <1>1, <1>2, <1>3, <1>5, <1>6, <1>7 DEF ChatFrame

\* A delivery is a message, with its three parts.
LEMMA MessageOf ==
  ASSUME NEW n \in RoomNames, NEW s \in Senders, NEW k \in 1 .. MaxSends
  PROVE  /\ Delivery(n, s, k) \in Messages
         /\ Delivery(n, s, k)[2] = n
         /\ Delivery(n, s, k)[3] = s
         /\ Delivery(n, s, k)[4] = k
BY DEF Messages, Delivery

\* Answers are not deliveries.
LEMMA AnswersAreNotMessages == Ok \notin Messages /\ Err \notin Messages
<1>1. \A m \in Messages : Len(m) = 4
  BY DEF Messages, Delivery
<1>2. Len(Ok) = 1 /\ Len(Err) = 1
  BY DEF Ok, Err
<1> QED
  BY <1>1, <1>2

\* Broadcasts.
LEMMA WalkStep ==
  ASSUME TypeOK, Asked, Placed, Next
  PROVE  WalkTypes'
<1>1. RoomTypes /\ WalkTypes /\ WalkFrame
  BY TypeParts, Frames
<1>2. ASSUME NEW w \in Workers, NEW n \in RoomNames, Join(w, n)
      PROVE  WalkTypes'
  <2>1. njoins' \in 0 .. MaxJoins
    BY <1>1, <1>2, ServerAssumption DEF Join, WalkTypes
  <2> QED
    BY <1>1, <1>2, <2>1 DEF Join, WalkTypes
<1>3. CASE UNCHANGED <<cursor, msg, audience, torn, nsends, njoins>>
  BY <1>1, <1>3 DEF WalkTypes
<1>4. ASSUME NEW s \in Senders, Sendall(s)
      PROVE  WalkTypes'
  <2>1. cur_room[s] # 0
    BY <1>4 DEF Sendall, Placed
  <2>2. rooms[cur_room[s]] \in Room
    BY <2>1, LandingsAre
  <2>3. nsends' \in 1 .. MaxSends /\ rooms[cur_room[s]].room_name \in RoomNames
        /\ rooms[cur_room[s]].members \in SUBSET Receivers
    BY <1>1, <1>4, <2>2, ServerAssumption DEF Sendall, WalkTypes, Room
  <2>4. Delivery(rooms[cur_room[s]].room_name, s, nsends') \in Messages
    BY <2>3, MessageOf
  <2>5. <<Delivery(rooms[cur_room[s]].room_name, s, nsends')>> \in Seq(Messages)
    <3> HIDE DEF Delivery, Messages
    <3> QED BY <2>4
  <2>6. msg' \in [Senders -> Seq(Messages)]
    BY <1>1, <1>4, <2>5 DEF Sendall, WalkTypes
  <2> QED
    BY <1>1, <1>4, <2>3, <2>6 DEF Sendall, WalkTypes
<1>5. ASSUME NEW s \in Senders, Advance(s)
      PROVE  WalkTypes'
  <2>1. cur_room[s] # 0
    BY <1>5 DEF Advance, Runs, Placed, Walking
  <2>2. rooms[cur_room[s]] \in Room
        /\ Landings(s) \subseteq rooms[cur_room[s]].members \cup {rooms[cur_room[s]].lock, 0}
    BY <2>1, LandingsAre
  <2>3. Landings(s) \subseteq Receivers \cup {0}
    BY <2>2 DEF Room, Nobody
  <2> QED
    BY <1>1, <1>5, <2>3 DEF Advance, WalkTypes
<1>6. ASSUME NEW s \in Senders, Finish(s)
      PROVE  WalkTypes'
  BY <1>1, <1>6 DEF Finish, WalkTypes
<1> QED
  BY <1>1, <1>2, <1>3, <1>4, <1>5, <1>6 DEF WalkFrame

\* server_send keeps the socket typed.
LEMMA WriteIs ==
  ASSUME PipeTypes, NEW r \in Receivers, NEW m \in Messages \cup {Ok, Err}, Write(r, m)
  PROVE  sent' \in [Receivers -> Seq(Messages \cup {Ok, Err})]
<1>1. Append(sent[r], m) \in Seq(Messages \cup {Ok, Err})
  BY AppendProperties DEF PipeTypes
<1> QED
  BY <1>1 DEF Write, PipeTypes

\* Queues and sockets.
LEMMA PipeStep ==
  ASSUME TypeOK, Asked, InHand, Posted, Next
  PROVE  PipeTypes'
<1>1. PcTypes /\ WalkTypes /\ PipeTypes /\ PipeFrame
  BY TypeParts, Frames
<1>2. CASE UNCHANGED pipe
  BY <1>1, <1>2 DEF PipeTypes, pipe
<1>3. ASSUME NEW s \in Senders, Enqueue(s)
      PROVE  PipeTypes'
  <2> DEFINE r == cursor[s]
  <2>1. r \in Receivers
    BY <1>1, <1>3 DEF Enqueue, Runs, Posted, WalkTypes
  <2>2. msg[s] \in Seq(Messages) /\ Len(msg[s]) = 1
    <3>1. PICK k \in 1 .. nsends : msg[s] = <<Delivery(NameOf(s), s, k)>>
      BY <1>3 DEF Enqueue, Runs, Posted, Walking
    <3>2. Len(msg[s]) = 1
      <4> HIDE DEF Delivery
      <4> QED BY <3>1
    <3> QED
      BY <1>1, <3>2 DEF WalkTypes
  <2>3. /\ mqueue[r] \o msg[s] \in Seq(Messages)
        /\ Len(mqueue[r] \o msg[s]) = Len(mqueue[r]) + 1
        /\ Len(mqueue[r]) \in Nat
    <3> HIDE DEF r
    <3>1. mqueue[r] \in Seq(Messages)
      BY <1>1, <2>1 DEF PipeTypes
    <3>2. /\ Len(mqueue[r] \o msg[s]) = Len(mqueue[r]) + Len(msg[s])
          /\ mqueue[r] \o msg[s] \in Seq(Messages)
      BY <2>2, <3>1, ConcatProperties
    <3>3. Len(mqueue[r]) \in Nat
      BY <3>1, LenProperties
    <3> QED
      BY <2>2, <3>2, <3>3
  <2>4. Len(mqueue[r] \o msg[s]) <= QUEUE_MAX
    BY <1>3, <2>3, ServerAssumption DEF Enqueue
  <2>5. mqueue' = [mqueue EXCEPT ![r] = mqueue[r] \o msg[s]]
        /\ UNCHANGED <<hand, sent, nread>>
    BY <1>1, <1>3, <2>1 DEF Enqueue
  <2> HIDE DEF r
  <2>6. /\ mqueue' \in [Receivers -> Seq(Messages)]
        /\ \A q \in Receivers : Len(mqueue'[q]) <= QUEUE_MAX
    BY <1>1, <2>1, <2>3, <2>4, <2>5 DEF PipeTypes
  <2> QED
    BY <1>1, <2>5, <2>6 DEF PipeTypes
<1>4. ASSUME NEW r \in Receivers, Login(r) \/ LoginRefused(r) \/ Refuse(r) \/ Confirm(r)
      PROVE  PipeTypes'
  <2>1. \E m \in {Ok, Err} : Write(r, m)
    BY <1>4 DEF Login, LoginRefused, Refuse, Confirm
  <2>2. sent' \in [Receivers -> Seq(Messages \cup {Ok, Err})]
    BY <1>1, <2>1, WriteIs
  <2> QED
    BY <1>1, <1>4, <2>2 DEF Login, LoginRefused, Refuse, Confirm, PipeTypes
<1>5. ASSUME NEW r \in Receivers, Deliver(r)
      PROVE  PipeTypes'
  <2>1. hand[r] \in Seq(Messages) /\ hand[r] # <<>>
    BY <1>1, <1>5 DEF Deliver, Runs, InHand, PipeTypes
  <2>2. Head(hand[r]) \in Messages
    BY <2>1, HeadTailProperties
  <2>3. sent' \in [Receivers -> Seq(Messages \cup {Ok, Err})]
    BY <1>1, <1>5, <2>2, WriteIs DEF Deliver
  <2>4. <<>> \in Seq(Messages)
    BY EmptySeq
  <2>5. hand' \in [Receivers -> Seq(Messages)] /\ UNCHANGED <<mqueue, nread>>
    BY <1>1, <1>5, <2>4 DEF Deliver, PipeTypes
  <2> QED
    BY <1>1, <2>3, <2>5 DEF PipeTypes
<1>6. ASSUME NEW r \in Receivers, Dequeue(r)
      PROVE  PipeTypes'
  <2>1. Head(mqueue[r]) \in Messages /\ Tail(mqueue[r]) \in Seq(Messages)
        /\ Len(Tail(mqueue[r])) = Len(mqueue[r]) - 1 /\ Len(mqueue[r]) \in Nat
    BY <1>1, <1>6, HeadTailProperties, LenProperties DEF Dequeue, PipeTypes
  <2>2. <<Head(mqueue[r])>> \in Seq(Messages)
    BY <2>1
  <2>3. /\ mqueue' = [mqueue EXCEPT ![r] = Tail(mqueue[r])]
        /\ hand' = [hand EXCEPT ![r] = <<Head(mqueue[r])>>]
        /\ UNCHANGED <<sent, nread>>
    BY <1>1, <1>6 DEF Dequeue
  <2>4. /\ mqueue' \in [Receivers -> Seq(Messages)]
        /\ hand' \in [Receivers -> Seq(Messages)]
    BY <1>1, <2>1, <2>2, <2>3 DEF PipeTypes
  <2>5. \A q \in Receivers : Len(mqueue'[q]) <= QUEUE_MAX
    BY <1>1, <2>1, <2>3, ServerAssumption DEF PipeTypes
  <2> QED
    BY <1>1, <2>3, <2>4, <2>5 DEF PipeTypes
<1>7. ASSUME NEW r \in Receivers, Read(r)
      PROVE  PipeTypes'
  BY <1>1, <1>7 DEF Read, PipeTypes
<1> QED
  BY <1>1, <1>2, <1>3, <1>4, <1>5, <1>6, <1>7 DEF PipeFrame

\* All types.
LEMMA TypeInv ==
  ASSUME TypeOK, Asked, Placed, InHand, Posted, Next
  PROVE  TypeOK' /\ Asked'
<1>1. PcTypes' /\ RoomTypes' /\ WalkTypes' /\ PipeTypes'
  BY PcStep, RoomStep, WalkStep, PipeStep
<1> QED
  BY <1>1, TypeParts, PTL

-----------------------------------------------------------------------------
(* Rooms and their members *)

\* Every room that is held is there.
LEMMA Held ==
  ASSUME TypeOK, NEW w \in Workers, cur_room[w] # 0
  PROVE  cur_room[w] \in DOMAIN rooms
BY LenProperties DEF TypeOK

\* What the lock and the insert of add_member do to the rooms.
LEMMA AddMemberIs ==
  ASSUME TypeOK, Placed, NEW r \in Receivers, LockRoom(r) \/ AddMember(r)
  PROVE  LET k == cur_room[r]
         IN /\ k \in DOMAIN rooms /\ DOMAIN rooms' = DOMAIN rooms
            /\ \A j \in DOMAIN rooms \ {k} : rooms'[j] = rooms[j]
            /\ rooms'[k].room_name = rooms[k].room_name
            /\ rooms'[k].lock = IF LockRoom(r) THEN r ELSE Nobody
            /\ rooms'[k].members = rooms[k].members \cup IF LockRoom(r) THEN {} ELSE {r}
<1> DEFINE k == cur_room[r]
<1>1. k \in DOMAIN rooms /\ DOMAIN rooms = 1 .. Len(rooms)
  BY Held, LenProperties DEF TypeOK, LockRoom, AddMember, Runs, Placed, Inside,
     Workers
<1>2. rooms[k] \in Room
  BY <1>1, ElementOfSeq DEF TypeOK
<1> HIDE DEF k
<1>3. CASE LockRoom(r)
  <2>1. rooms' = [rooms EXCEPT ![k] = [rooms[k] EXCEPT !.lock = r]]
    BY <1>1, <1>3 DEF LockRoom, k
  <2> QED
    BY <1>1, <1>2, <1>3, <2>1 DEF Room, k
<1>4. CASE AddMember(r)
  <2>1. rooms' = [rooms EXCEPT ![k] = [rooms[k] EXCEPT !.lock = Nobody, !.members = @ \cup {r}]]
    BY <1>1, <1>2, <1>4 DEF AddMember, Room, k
  <2>2. ~LockRoom(r)
    BY <1>4 DEF AddMember, LockRoom, Runs
  <2> QED
    BY <1>1, <1>2, <2>1, <2>2 DEF Room, k
<1> QED
  BY <1>3, <1>4

\* What the insert of a new room does to the rooms.
LEMMA CreateRoomIs ==
  ASSUME TypeOK, NEW w \in Workers, CreateRoom(w)
  PROVE  LET k == Len(rooms) + 1
         IN /\ k \in Nat \ {0} /\ k \notin DOMAIN rooms /\ DOMAIN rooms' = DOMAIN rooms \cup {k}
            /\ \A j \in DOMAIN rooms : rooms'[j] = rooms[j]
            /\ rooms'[k].room_name = want[w]
            /\ rooms'[k].lock = Nobody
            /\ rooms'[k].members = {}
<1> DEFINE new == [room_name |-> want[w], lock |-> Nobody, members |-> {}]
<1>1. rooms' = Append(rooms, new)
  BY DEF CreateRoom
<1>2. /\ rooms \in Seq(Room \cup {new})
      /\ Len(rooms) \in Nat
      /\ DOMAIN rooms = 1 .. Len(rooms)
  BY SeqMonotonic, LenProperties DEF TypeOK
<1> HIDE DEF new
<1>3. /\ Append(rooms, new) \in Seq(Room \cup {new})
      /\ Len(Append(rooms, new)) = Len(rooms) + 1
      /\ \A j \in 1 .. Len(rooms) : Append(rooms, new)[j] = rooms[j]
      /\ Append(rooms, new)[Len(rooms) + 1] = new
  BY <1>2, AppendProperties
<1>4. DOMAIN rooms' = 1 .. Len(rooms) + 1
  BY <1>1, <1>3, LenProperties
<1>5. new.room_name = want[w] /\ new.lock = Nobody /\ new.members = {}
  BY DEF new
<1> QED
  BY <1>1, <1>2, <1>3, <1>4, <1>5

\* Rooms are never lost and keep their names.
LEMMA RoomsStay ==
  ASSUME TypeOK, Placed, Next
  PROVE  /\ DOMAIN rooms \subseteq DOMAIN rooms'
         /\ \A k \in DOMAIN rooms : rooms'[k].room_name = rooms[k].room_name
<1>1. CASE UNCHANGED rooms
  BY <1>1
<1>2. ASSUME NEW w \in Workers, CreateRoom(w)
      PROVE  /\ DOMAIN rooms \subseteq DOMAIN rooms'
             /\ \A k \in DOMAIN rooms : rooms'[k].room_name = rooms[k].room_name
  BY <1>2, CreateRoomIs
<1>3. ASSUME NEW r \in Receivers, LockRoom(r) \/ AddMember(r)
      PROVE  /\ DOMAIN rooms \subseteq DOMAIN rooms'
             /\ \A k \in DOMAIN rooms : rooms'[k].room_name = rooms[k].room_name
  BY <1>3, AddMemberIs
<1> QED
  BY <1>1, <1>2, <1>3, Frames DEF ChatFrame, FindRoom, Leave, Quit

\* Where a receiver's worker is changes only by steps of its own.
ReceiverPc(r) ==
  \/ pc'[r] = pc[r] /\ want'[r] = want[r] /\ cur_room'[r] = cur_room[r]
  \/ Login(r) \/ LoginRefused(r) \/ Refuse(r) \/ LockRoom(r) \/ AddMember(r)
     \/ Confirm(r) \/ Dequeue(r) \/ Deliver(r) \/ FindRoom(r) \/ CreateRoom(r)
  \/ \E n \in RoomNames : Join(r, n)

\* Each step is among them.
LEMMA ReceiverPcIs ==
  ASSUME TypeOK, Next, NEW r \in Receivers
  PROVE  ReceiverPc(r)
<1> USE DEF ReceiverPc, Goto, chat, walk, pipe
<1>1. /\ pc \in [Workers -> SenderSteps \cup ReceiverSteps]
      /\ cur_room \in [Workers -> 0 .. Len(rooms)]
      /\ want \in [Workers -> RoomNames \cup {NoName}]
      /\ r \in Workers /\ r \notin Senders
  BY ServerAssumption DEF TypeOK, Workers
<1>2. ASSUME NEW w \in Workers, InsertStep(w)
      PROVE  ReceiverPc(r)
  <2>1. CASE w = r
    BY <1>2, <2>1 DEF InsertStep, CrashInMap
  <2>2. ASSUME NEW k, EnterRoom(w, k), want' = want, w # r
        PROVE  ReceiverPc(r)
    BY <1>1, <2>2 DEF EnterRoom
  <2> QED
    BY <1>2, <2>1, <2>2 DEF InsertStep, FindRoom, CreateRoom, CrashInMap
<1>3. ASSUME ClientStep
      PROVE  ReceiverPc(r)
  BY <1>1, <1>3 DEF ClientStep, Login, LoginRefused, LoginFails, Join, Leave,
              Sendall, Quit, Refuse, Read, Hangup
<1>4. ASSUME NEW s \in Senders, SenderStep(s)
      PROVE  ReceiverPc(r)
  BY <1>1, <1>2, <1>4 DEF SenderStep, Advance, Enqueue, Finish, Workers
<1>5. ASSUME NEW q \in Receivers, ReceiverStep(q)
      PROVE  ReceiverPc(r)
  <2>1. CASE InsertStep(q)
    BY <1>2, <2>1 DEF Workers
  <2>2. CASE q = r
    BY <1>5, <2>1, <2>2 DEF ReceiverStep
  <2>3. CASE q # r
    BY <1>1, <1>5, <2>1, <2>3 DEF ReceiverStep, LockRoom, AddMember, Confirm,
       Dequeue, Deliver
  <2> QED
    BY <2>2, <2>3
<1> QED
  BY <1>3, <1>4, <1>5 DEF Next

\* The same of a sender's worker.
SenderPc(s) ==
  \/ /\ pc'[s] = pc[s] /\ cur_room'[s] = cur_room[s]
     /\ cursor'[s] = cursor[s] /\ msg'[s] = msg[s]
     /\ s \in in_room' <=> s \in in_room
  \/ Login(s) \/ LoginRefused(s) \/ Leave(s) \/ Quit(s) \/ Sendall(s) \/ Advance(s)
     \/ Enqueue(s) \/ Finish(s) \/ FindRoom(s) \/ CreateRoom(s)
  \/ \E n \in RoomNames : Join(s, n)

\* Each step is among them.
LEMMA SenderPcIs ==
  ASSUME TypeOK, Next, NEW s \in Senders
  PROVE  SenderPc(s)
<1> USE DEF SenderPc, Goto, chat, walk, pipe
<1>1. /\ pc \in [Workers -> SenderSteps \cup ReceiverSteps]
      /\ cur_room \in [Workers -> 0 .. Len(rooms)]
      /\ cursor \in [Senders -> Receivers \cup {0}]
      /\ msg \in [Senders -> Seq(Messages)]
      /\ s \in Workers /\ s \notin Receivers
  BY ServerAssumption DEF TypeOK, Workers
<1>2. ASSUME NEW w \in Workers, InsertStep(w)
      PROVE  SenderPc(s)
  <2>1. CASE w = s
    BY <1>2, <2>1 DEF InsertStep, CrashInMap
  <2>2. ASSUME NEW k, EnterRoom(w, k), UNCHANGED walk, w # s
        PROVE  SenderPc(s)
    BY <1>1, <2>2 DEF EnterRoom
  <2> QED
    BY <1>2, <2>1, <2>2 DEF InsertStep, FindRoom, CreateRoom, CrashInMap
<1>3. ASSUME ClientStep
      PROVE  SenderPc(s)
  BY <1>1, <1>3 DEF ClientStep, Login, LoginRefused, LoginFails, Join, Leave,
              Sendall, Quit, Refuse, Read, Hangup
<1>4. ASSUME NEW q \in Senders, SenderStep(q)
      PROVE  SenderPc(s)
  BY <1>1, <1>2, <1>4 DEF SenderStep, Advance, Enqueue, Finish, Workers
<1>5. ASSUME NEW r \in Receivers, ReceiverStep(r)
      PROVE  SenderPc(s)
  BY <1>1, <1>2, <1>5 DEF ReceiverStep, LockRoom, AddMember, Confirm, Dequeue,
     Deliver, Workers
<1> QED
  BY <1>3, <1>4, <1>5 DEF Next

\* Entries of the map stay named, also those that a race leaves.
LEMMA NamedStep ==
  ASSUME TypeOK, Asked, Placed, Named, Next
  PROVE  Named'
<1>1. PcTypes /\ RoomTypes
  BY TypeParts
<1>2. \A n \in RoomNames : m_rooms[n] # 0 => m_rooms[n] \in DOMAIN rooms
  BY <1>1, LenProperties DEF RoomTypes
<1>3. ASSUME NEW n \in RoomNames, m_rooms'[n] = m_rooms[n], m_rooms'[n] # 0
      PROVE  rooms'[m_rooms'[n]].room_name = n
  BY <1>2, <1>3, RoomsStay DEF Named
<1>4. CASE UNCHANGED m_rooms
  BY <1>3, <1>4 DEF Named
<1>5. ASSUME NEW w \in Workers, CreateRoom(w)
      PROVE  Named'
  <2>1. want[w] \in RoomNames
    BY <1>5 DEF CreateRoom, Runs, Asked
  <2>2. ASSUME NEW n \in RoomNames, m_rooms'[n] # 0, m_rooms'[n] # m_rooms[n]
        PROVE  n = want[w] /\ m_rooms'[n] = Len(rooms) + 1
    <3> DEFINE linked == [m_rooms EXCEPT ![want[w]] = Len(rooms) + 1]
               After(lost) == [x \in RoomNames |-> IF x \in lost
                                 THEN IF x = want[w] THEN m_rooms[want[w]] ELSE 0
                                 ELSE linked[x]]
    <3>1. \A x \in RoomNames : linked[x] = IF x = want[w] THEN Len(rooms) + 1 ELSE m_rooms[x]
      BY <1>1, <2>1 DEF RoomTypes
    <3>2. m_rooms' = linked \/ \E lost \in SUBSET RoomNames : m_rooms' = After(lost)
      BY <1>5 DEF CreateRoom
    <3> HIDE DEF linked
    <3> QED
      BY <2>2, <3>1, <3>2
  <2>3. rooms'[Len(rooms) + 1].room_name = want[w]
    BY <1>5, CreateRoomIs
  <2> QED
    BY <1>3, <2>2, <2>3 DEF Named
<1> QED
  BY <1>4, <1>5, Frames DEF ChatFrame, FindRoom, Leave, Quit, LockRoom,
     AddMember

\* Rooms are held and joined as the workers go through add_member.
LEMMA PlacedStep ==
  ASSUME TypeOK, Asked, Placed, Named, Next
  PROVE  Placed'
<1> USE DEF Goto, Runs
<1>1. PcTypes /\ RoomTypes /\ Senders \cap Receivers = {}
      /\ Senders \subseteq Workers /\ Receivers \subseteq Workers
  BY TypeParts, ServerAssumption DEF Workers
<1>2. ASSUME NEW w \in Workers, FindRoom(w) \/ CreateRoom(w)
      PROVE  /\ cur_room'[w] # 0 /\ rooms'[cur_room'[w]].room_name = want[w]
             /\ want' = want
             /\ w \in Receivers => pc'[w] = "lock"
             /\ w \in Senders => pc'[w] = "ready"
  <2>1. want[w] \in RoomNames
    BY <1>2 DEF FindRoom, CreateRoom, Asked
  <2>2. CASE FindRoom(w)
    BY <1>1, <2>1, <2>2 DEF FindRoom, EnterRoom, Named, RoomTypes, PcTypes
  <2>3. CASE CreateRoom(w)
    <3>1. rooms'[Len(rooms) + 1].room_name = want[w] /\ Len(rooms) + 1 # 0
      BY <2>3, CreateRoomIs
    <3> QED
      BY <1>1, <2>3, <3>1 DEF CreateRoom, EnterRoom, RoomTypes, PcTypes
  <2> QED
    BY <1>2, <2>2, <2>3
<1>3. ASSUME NEW s \in Senders, s \in in_room' \/ pc'[s] \in Walking
      PROVE  cur_room'[s] # 0
  <2>1. CASE FindRoom(s) \/ CreateRoom(s)
    BY <1>1, <1>2, <2>1
  <2>2. CASE ~(FindRoom(s) \/ CreateRoom(s))
    <3>1. ASSUME pc'[s] = pc[s], cur_room'[s] = cur_room[s], s \in in_room' <=> s \in in_room
          PROVE  cur_room'[s] # 0
      BY <1>3, <3>1 DEF Placed
    <3>2. CASE Login(s) \/ LoginRefused(s) \/ Leave(s) \/ Quit(s) \/ Sendall(s)
      BY <1>1, <1>3, <3>2 DEF Placed, Walking, PcTypes, chat, Login,
         LoginRefused,
         Leave, Quit, Sendall
    <3>3. CASE Advance(s) \/ Enqueue(s) \/ Finish(s)
      BY <1>1, <1>3, <3>3 DEF Placed, Walking, PcTypes, chat, Advance, Enqueue,
         Finish
    <3>4. ASSUME NEW n \in RoomNames, Join(s, n)
          PROVE  cur_room'[s] # 0
      BY <1>1, <1>3, <3>4 DEF Placed, Walking, PcTypes, Join
    <3> QED
      BY <2>2, <3>1, <3>2, <3>3, <3>4, SenderPcIs DEF SenderPc
  <2> QED
    BY <2>1, <2>2
<1>4. ASSUME NEW r \in Receivers, pc'[r] \in Inside \cup {"lock"}
      PROVE  cur_room'[r] # 0 /\ rooms'[cur_room'[r]].room_name = want'[r]
  <2>1. CASE FindRoom(r) \/ CreateRoom(r)
    BY <1>1, <1>2, <2>1
  <2>2. CASE ~(FindRoom(r) \/ CreateRoom(r))
    <3>1. /\ pc[r] \in Inside \cup {"lock"}
          /\ want'[r] = want[r]
          /\ cur_room'[r] = cur_room[r]
      BY <1>1, <1>4, <2>2, ReceiverPcIs DEF ReceiverPc, Inside, Member,
         PcTypes, chat,
         Login, LoginRefused, Refuse, LockRoom, AddMember, Confirm, Dequeue,
         Deliver, Join
    <3>2. /\ cur_room[r] # 0
          /\ cur_room[r] \in DOMAIN rooms
          /\ rooms[cur_room[r]].room_name = want[r]
      BY <1>1, <3>1, Held DEF Placed, NameOf
    <3> QED
      BY <3>1, <3>2, RoomsStay
  <2> QED
    BY <2>1, <2>2
<1>5. ASSUME NEW r \in Receivers, NEW k \in DOMAIN rooms'
      PROVE  /\ rooms'[k].lock = r => pc'[r] = "adding" /\ cur_room'[r] = k
             /\ r \in rooms'[k].members <=> pc'[r] \in Member /\ cur_room'[r] = k
  <2>1. 0 \notin Receivers
    BY ServerAssumption
  <2>2. ASSUME ~LockRoom(r), ~AddMember(r)
        PROVE  /\ pc'[r] \in Member <=> pc[r] \in Member
               /\ pc'[r] = "adding" <=> pc[r] = "adding"
               /\ pc[r] \in Inside => cur_room'[r] = cur_room[r]
    BY <1>1, <1>2, <2>2, ReceiverPcIs DEF ReceiverPc, Inside, Member, PcTypes,
       chat,
       Login, LoginRefused, Refuse, Confirm, Dequeue, Deliver, Join, FindRoom,
       CreateRoom
  <2>3. ASSUME k \in DOMAIN rooms, ~LockRoom(r), ~AddMember(r),
               rooms'[k].lock \in {rooms[k].lock, Nobody} \/ rooms'[k].lock # r,
               r \in rooms'[k].members <=> r \in rooms[k].members
        PROVE  /\ rooms'[k].lock = r => pc'[r] = "adding" /\ cur_room'[r] = k
               /\ r \in rooms'[k].members <=> pc'[r] \in Member /\ cur_room'[r] = k
    BY <2>1, <2>2, <2>3 DEF Placed, Inside, Member, Nobody
  <2>4. ASSUME NEW q \in Receivers, LockRoom(q) \/ AddMember(q)
        PROVE  /\ rooms'[k].lock = r => pc'[r] = "adding" /\ cur_room'[r] = k
               /\ r \in rooms'[k].members <=> pc'[r] \in Member /\ cur_room'[r] = k
    <3>1. /\ k \in DOMAIN rooms /\ cur_room'[r] = cur_room[r]
          /\ pc'[r] = IF q # r THEN pc[r] ELSE IF LockRoom(q) THEN "adding" ELSE "confirm"
          /\ pc[q] = IF LockRoom(q) THEN "lock" ELSE "adding"
      BY <1>1, <2>4, AddMemberIs DEF LockRoom, AddMember, PcTypes
    <3>2. CASE k # cur_room[q]
      <4>1. rooms'[k] = rooms[k]
        BY <2>4, <3>1, <3>2, AddMemberIs
      <4> QED
        BY <3>1, <3>2, <4>1 DEF Placed, Member
    <3>3. CASE k = cur_room[q]
      <4>1. /\ rooms'[k].lock = IF LockRoom(q) THEN q ELSE Nobody
            /\ rooms'[k].members = rooms[k].members \cup IF LockRoom(q) THEN {} ELSE {q}
        BY <2>4, <3>3, AddMemberIs
      <4> QED
        BY <2>1, <3>1, <3>3, <4>1 DEF Placed, Member, Nobody
    <3> QED
      BY <3>2, <3>3
  <2>5. ASSUME NEW w \in Workers, CreateRoom(w)
        PROVE  /\ rooms'[k].lock = r => pc'[r] = "adding" /\ cur_room'[r] = k
               /\ r \in rooms'[k].members <=> pc'[r] \in Member /\ cur_room'[r] = k
    <3>1. ~LockRoom(r) /\ ~AddMember(r)
      BY <1>1, <2>5 DEF CreateRoom, EnterRoom, LockRoom, AddMember, PcTypes
    <3>2. CASE k \in DOMAIN rooms
      <4>1. rooms'[k] = rooms[k]
        BY <2>5, <3>2, CreateRoomIs
      <4> QED
        BY <2>3, <3>1, <3>2, <4>1
    <3>3. CASE k \notin DOMAIN rooms
      <4>1. /\ k = Len(rooms) + 1
            /\ rooms'[k].lock = Nobody
            /\ rooms'[k].members = {}
        BY <2>5, <3>3, CreateRoomIs
      <4>2. pc'[r] \in Member => cur_room'[r] = cur_room[r] /\ cur_room[r] # 0
        BY <1>1, <2>2, <3>1 DEF Placed, Inside, Member
      <4>3. pc'[r] \in Member => cur_room'[r] \in DOMAIN rooms
        BY <1>1, <4>2, Held
      <4> QED
        BY <2>1, <3>3, <4>1, <4>3 DEF Nobody
    <3> QED
      BY <3>2, <3>3
  <2>6. CASE UNCHANGED rooms
    <3>1. ~LockRoom(r) /\ ~AddMember(r)
      BY <1>1, <2>1, <2>6, AddMemberIs DEF LockRoom, AddMember, Placed, Member,
         Nobody
    <3> QED
      BY <2>3, <2>6, <3>1
  <2> QED
    BY <2>4, <2>5, <2>6, Frames DEF ChatFrame, FindRoom, Leave, Quit
<1> QED
  BY <1>3, <1>4, <1>5 DEF Placed, NameOf

\* No name gets a second room unless inserts have raced.
LEMMA UniqueStep ==
  ASSUME TypeOK, Asked, Placed, Named, Unique, Next
  PROVE  Unique'
<1>1. PcTypes /\ RoomTypes
  BY TypeParts
<1>2. ASSUME ~mapRaced', NEW w \in Workers, cur_room'[w] = cur_room[w], cur_room[w] # 0, ~mapRaced,
             m_rooms'[NameOf(w)] = m_rooms[NameOf(w)]
      PROVE  m_rooms'[rooms'[cur_room'[w]].room_name] = cur_room'[w]
  BY <1>2, Held, RoomsStay DEF Unique, RoomIsUnique, NameOf
<1>3. ASSUME NEW w \in Workers, FindRoom(w)
      PROVE  Unique'
  <2>1. want[w] \in RoomNames
    BY <1>3 DEF FindRoom, Runs, Asked
  <2>2. /\ cur_room'[w] = m_rooms[want[w]]
        /\ rooms[m_rooms[want[w]]].room_name = want[w]
        /\ UNCHANGED <<m_rooms, rooms, mapRaced>> /\ raced' \subseteq raced
        /\ \A u \in Workers \ {w} : cur_room'[u] = cur_room[u]
    BY <1>1, <1>3, <2>1 DEF FindRoom, EnterRoom, Named, RoomTypes
  <2> QED
    BY <1>2, <2>2 DEF Unique, RoomIsUnique, NameOf
<1>4. ASSUME NEW w \in Workers, CreateRoom(w)
      PROVE  Unique'
  <2>1. want[w] \in RoomNames
    BY <1>4 DEF CreateRoom, Runs, Asked
  <2>2. ~mapRaced' => ~mapRaced /\ raced = {} /\ raced' = {}
    BY <1>4 DEF CreateRoom, Unique
  <2>3. CASE mapRaced'
    BY <2>3 DEF Unique, RoomIsUnique
  <2>4. CASE ~mapRaced'
    <3>1. /\ m_rooms[want[w]] = 0
          /\ m_rooms' = [m_rooms EXCEPT ![want[w]] = Len(rooms) + 1]
      BY <1>4, <2>2, <2>4 DEF CreateRoom, Links
    <3>2. /\ cur_room'[w] = Len(rooms) + 1
          /\ \A u \in Workers \ {w} : cur_room'[u] = cur_room[u]
      BY <1>1, <1>4 DEF CreateRoom, EnterRoom, RoomTypes
    <3>3. rooms'[Len(rooms) + 1].room_name = want[w]
      BY <1>4, CreateRoomIs
    <3>4. m_rooms'[want[w]] = Len(rooms) + 1
      BY <1>1, <2>1, <3>1 DEF RoomTypes
    <3>5. ASSUME NEW u \in Workers \ {w}, cur_room[u] # 0
          PROVE  m_rooms'[NameOf(u)] = m_rooms[NameOf(u)]
      <4>1. m_rooms[NameOf(u)] = cur_room[u]
        BY <2>2, <2>4, <3>5 DEF Unique, RoomIsUnique
      <4> QED
        BY <1>1, <2>1, <3>1, <3>5, <4>1 DEF RoomTypes
    <3> QED
      BY <1>2, <2>2, <2>4, <3>2, <3>3, <3>4, <3>5 DEF Unique, RoomIsUnique,
         NameOf
  <2> QED
    BY <2>3, <2>4
<1>5. ASSUME UNCHANGED <<m_rooms, cur_room, raced, mapRaced>>
      PROVE  Unique'
  BY <1>2, <1>5 DEF Unique, RoomIsUnique, NameOf
<1>6. UNCHANGED <<m_rooms, cur_room, raced, mapRaced>>
      \/ \E w \in Workers : FindRoom(w) \/ CreateRoom(w)
  <2>1. ASSUME NEW w \in Workers, InsertStep(w)
        PROVE  UNCHANGED <<m_rooms, cur_room, raced, mapRaced>> \/ FindRoom(w) \/ CreateRoom(w)
    BY <2>1 DEF InsertStep, CrashInMap, chat
  <2>2. CASE ClientStep
    BY <2>2 DEF ClientStep, Login, LoginRefused, LoginFails, Join, Leave,
       Sendall,
                Quit, Refuse, Read, Hangup, chat
  <2> QED
    BY <2>1, <2>2 DEF Next, SenderStep, ReceiverStep, Advance, Enqueue, Finish,
       LockRoom, AddMember, Confirm, Dequeue, Deliver, chat, Workers
<1> QED
  BY <1>3, <1>4, <1>5, <1>6

\* Dequeue fills the hand, and server_send empties it.
LEMMA InHandStep ==
  ASSUME TypeOK, InHand, Next
  PROVE  InHand'
<1>1. /\ pc \in [Workers -> SenderSteps \cup ReceiverSteps]
      /\ hand \in [Receivers -> Seq(Messages)]
      /\ Receivers \subseteq Workers
  BY DEF TypeOK, Workers
<1>2. SUFFICES ASSUME NEW r \in Receivers
               PROVE  IF pc'[r] = "deliver" THEN Len(hand'[r]) = 1 ELSE hand'[r] = <<>>
  BY DEF InHand
<1>3. CASE Dequeue(r)
  BY <1>1, <1>3 DEF Dequeue, Goto
<1>4. CASE Deliver(r)
  BY <1>1, <1>4 DEF Deliver, Goto
<1>5. CASE ~Dequeue(r) /\ ~Deliver(r)
  <2>1. pc'[r] = "deliver" <=> pc[r] = "deliver"
    BY <1>1, <1>5, ReceiverPcIs DEF ReceiverPc, Goto, Runs, EnterRoom, Login,
       LoginRefused, Refuse,
       LockRoom, AddMember, Confirm, FindRoom, CreateRoom, Join
  <2>2. hand'[r] = hand[r]
    <3>1. ASSUME NEW q \in Receivers, Dequeue(q) \/ Deliver(q)
          PROVE  hand'[r] = hand[r]
      <4>1. q # r
        BY <1>5, <3>1
      <4> QED
        BY <1>1, <3>1, <4>1 DEF Dequeue, Deliver
    <3>2. hand' = hand \/ \E q \in Receivers : Dequeue(q) \/ Deliver(q)
      BY Frames DEF PipeFrame, pipe, Enqueue, Login, LoginRefused, Refuse, Confirm,
         Read
    <3> QED
      BY <3>1, <3>2
  <2> QED
    BY <2>1, <2>2 DEF InHand
<1> QED
  BY <1>3, <1>4, <1>5

\* Whoever is in a room, or about to be, stays there.
LEMMA InsideStays ==
  ASSUME TypeOK, Next, NEW r \in Receivers, pc[r] \in Inside
  PROVE  pc'[r] \in Inside /\ cur_room'[r] = cur_room[r] /\ want'[r] = want[r]
<1>1. /\ pc \in [Workers -> SenderSteps \cup ReceiverSteps] /\ r \in Workers
  BY DEF TypeOK, Workers
<1> QED
  BY <1>1, ReceiverPcIs DEF ReceiverPc, Inside, Member, Goto, Runs, Login,
     LoginRefused, Refuse,
     LockRoom, AddMember, Confirm, Dequeue, Deliver, FindRoom, CreateRoom,
     Join, chat

\* The number of broadcasts never goes down.
LEMMA SendsGrow ==
  ASSUME TypeOK, Next
  PROVE  nsends \in Nat /\ nsends' \in nsends .. nsends + 1
<1>1. nsends \in Nat
  BY ServerAssumption DEF TypeOK
<1> QED
  BY <1>1, Frames DEF WalkFrame, Sendall, Advance, Finish, Join

\* A broadcast keeps to its room.
LEMMA PostedStep ==
  ASSUME TypeOK, Asked, Placed, Posted, Next
  PROVE  Posted'
<1> USE DEF Goto, Runs
<1>1. /\ pc \in [Workers -> SenderSteps \cup ReceiverSteps]
      /\ cursor \in [Senders -> Receivers \cup {0}]
      /\ msg \in [Senders -> Seq(Messages)]
      /\ Senders \subseteq Workers
      /\ Receivers \subseteq Workers
      /\ 0 \notin Receivers
  BY ServerAssumption DEF TypeOK, Workers
<1>2. nsends \in Nat /\ nsends' \in nsends .. nsends + 1
  BY SendsGrow
<1>3. SUFFICES ASSUME NEW s \in Senders
      PROVE  /\ pc'[s] \in Walking =>
                  \E k \in 1 .. nsends' :
                    msg'[s] = <<Delivery(rooms'[cur_room'[s]].room_name, s, k)>>
             /\ pc'[s] = "enqueue" => cursor'[s] # 0
             /\ cursor'[s] # 0 => /\ pc'[s] \in Walking
                                  /\ pc'[cursor'[s]] \in Inside
                                  /\ cur_room'[cursor'[s]] = cur_room'[s]
  BY DEF Posted, NameOf
<1> HIDE DEF Delivery
<1>4. ASSUME pc[s] \in Walking, cur_room'[s] = cur_room[s], msg'[s] = msg[s]
      PROVE  \E k \in 1 .. nsends' :
               msg'[s] = <<Delivery(rooms'[cur_room'[s]].room_name, s, k)>>
  <2>1. PICK k \in 1 .. nsends : msg[s] = <<Delivery(NameOf(s), s, k)>>
    BY <1>4 DEF Posted
  <2>2. cur_room[s] \in DOMAIN rooms
    BY <1>1, <1>4, Held DEF Placed
  <2>3. rooms'[cur_room'[s]].room_name = NameOf(s)
    BY <1>4, <2>2, RoomsStay DEF NameOf
  <2>4. k \in 1 .. nsends'
    BY <1>2
  <2> QED
    BY <1>4, <2>1, <2>3, <2>4
<1>5. ASSUME cursor[s] # 0, cur_room'[s] = cur_room[s]
      PROVE  pc'[cursor[s]] \in Inside /\ cur_room'[cursor[s]] = cur_room'[s]
  <2>1. cursor[s] \in Receivers
    BY <1>1, <1>5
  <2> QED
    BY <1>5, <2>1, InsideStays DEF Posted
<1>6. CASE pc'[s] = pc[s] /\ cur_room'[s] = cur_room[s] /\ cursor'[s] = cursor[s] /\ msg'[s] = msg[s]
  BY <1>4, <1>5, <1>6 DEF Posted
<1>7. ASSUME pc[s] \notin Walking, pc'[s] \notin Walking, cursor'[s] = cursor[s]
      PROVE  cursor'[s] = 0
  BY <1>7 DEF Posted
<1>8. CASE Login(s) \/ LoginRefused(s) \/ Leave(s) \/ Quit(s) \/ FindRoom(s) \/ CreateRoom(s)
             \/ \E n \in RoomNames : Join(s, n)
  <2>1. cursor' = cursor
    BY <1>8 DEF Login, LoginRefused, Leave, Quit, FindRoom, CreateRoom, Join,
       walk
  <2>2. pc[s] \notin Walking
    BY <1>8 DEF Login, LoginRefused, Leave, Quit, FindRoom, CreateRoom, Join,
       Walking
  <2>3. pc'[s] \in {"ready", "done", "insert"}
    BY <1>1, <1>8 DEF Login, LoginRefused, Leave, Quit, FindRoom, CreateRoom,
       EnterRoom, Join
  <2> QED
    BY <1>7, <2>1, <2>2, <2>3 DEF Walking
<1>9. CASE Sendall(s)
  <2>1. cur_room[s] \in DOMAIN rooms /\ UNCHANGED <<rooms, cur_room>>
    BY <1>1, <1>9, Held DEF Sendall, Placed, chat
  <2>2. /\ msg'[s] = <<Delivery(rooms'[cur_room'[s]].room_name, s, nsends')>>
        /\ nsends' = nsends + 1
    BY <1>1, <1>9, <2>1 DEF Sendall
  <2>3. pc'[s] = "walk" /\ pc[s] = "ready" /\ cursor' = cursor
    BY <1>1, <1>9 DEF Sendall
  <2> QED
    BY <1>2, <2>2, <2>3 DEF Posted, Walking
<1>10. CASE Advance(s)
  <2>1. /\ pc[s] = "walk"
        /\ pc'[s] = "enqueue"
        /\ msg' = msg
        /\ UNCHANGED <<rooms, cur_room>>
        /\ cursor'[s] \in Landings(s) \ {0}
        /\ \A r \in Receivers : pc'[r] = pc[r]
    BY <1>1, <1>10, ServerAssumption DEF Advance, chat
  <2>2. cur_room[s] # 0
    BY <2>1 DEF Placed, Walking
  <2>3. cursor'[s] \in Receivers
    <3>1. WalkTypes'
      BY WalkStep
    <3> QED
      BY <2>1, <3>1 DEF WalkTypes
  <2>4. pc[cursor'[s]] \in Inside /\ cur_room[cursor'[s]] = cur_room[s]
    BY <2>1, <2>2, <2>3, LandingsAre DEF Placed, Inside, Member
  <2> QED
    BY <1>4, <2>1, <2>3, <2>4 DEF Walking
<1>11. CASE Enqueue(s)
  BY <1>1, <1>4, <1>5, <1>11 DEF Enqueue, chat, walk, Walking, Posted
<1>12. CASE Finish(s)
  BY <1>1, <1>12 DEF Finish, Walking
<1> QED
  BY <1>6, <1>8, <1>9, <1>10, <1>11, <1>12, SenderPcIs DEF SenderPc

-----------------------------------------------------------------------------
(* What is on its way *)

\* What a message is made of.
LEMMA MessageParts ==
  ASSUME NEW m \in Messages
  PROVE  m[2] \in RoomNames /\ m[3] \in Senders /\ m[4] \in 1 .. MaxSends
<1>1. PICK n \in RoomNames, s \in Senders, k \in 1 .. MaxSends : m = Delivery(n, s, k)
  BY DEF Messages
<1> QED
  BY <1>1, MessageOf

\* The number that Last gives to a sender in a broadcast is that of its message.
LEMMA LastIs ==
  ASSUME TypeOK, Posted, NEW s \in Senders
  PROVE  /\ Last(s) \in Nat /\ Last(s) <= nsends /\ nsends \in Nat
         /\ pc[s] \in Walking => /\ NameOf(s) \in RoomNames => msg[s][1] \in Messages
                                 /\ msg[s] = <<msg[s][1]>>
                                 /\ msg[s][1][2] = NameOf(s) /\ msg[s][1][3] = s
                                 /\ msg[s][1][4] = Last(s)
<1>1. nsends \in 0 .. MaxSends /\ MaxSends \in Nat
  BY ServerAssumption DEF TypeOK
<1>2. CASE pc[s] \in Walking
  <2>1. PICK k \in 1 .. nsends : msg[s] = <<Delivery(NameOf(s), s, k)>>
    BY <1>2 DEF Posted
  <2>2. msg[s][1] = Delivery(NameOf(s), s, k) /\ msg[s] = <<msg[s][1]>>
    <3> HIDE DEF Delivery
    <3> QED BY <2>1
  <2>3. msg[s][1][2] = NameOf(s) /\ msg[s][1][3] = s /\ msg[s][1][4] = k
    BY <2>2 DEF Delivery
  <2>4. NameOf(s) \in RoomNames => msg[s][1] \in Messages
    BY <1>1, <2>2, MessageOf
  <2> QED
    BY <1>1, <1>2, <2>2, <2>3, <2>4 DEF Last
<1>3. CASE pc[s] \notin Walking
  BY <1>1, <1>3 DEF Last
<1> QED
  BY <1>2, <1>3

\* The last number of a sender never goes down.
LEMMA LastGrows ==
  ASSUME TypeOK, Asked, Placed, Posted, Next, NEW s \in Senders
  PROVE  Last(s) \in Nat /\ Last(s)' \in Nat /\ Last(s) <= Last(s)'
<1> USE DEF Goto, Runs
<1>1. /\ pc \in [Workers -> SenderSteps \cup ReceiverSteps]
      /\ msg \in [Senders -> Seq(Messages)] /\ s \in Workers
  BY DEF TypeOK, Workers
<1>2. nsends \in Nat /\ nsends' \in Nat /\ nsends <= nsends'
  BY SendsGrow
<1>3. Last(s) \in Nat /\ Last(s) <= nsends
  BY LastIs
<1>4. CASE pc'[s] \notin Walking
  BY <1>2, <1>3, <1>4 DEF Last
<1>5. CASE pc[s] \in Walking /\ pc'[s] \in Walking /\ msg'[s] = msg[s]
  BY <1>3, <1>5 DEF Last
<1>6. CASE Sendall(s)
  <2>1. msg'[s] = <<Delivery(NameOf(s), s, nsends')>> /\ pc'[s] \in Walking
    BY <1>1, <1>6 DEF Sendall, NameOf, Walking
  <2>2. Delivery(NameOf(s), s, nsends')[4] = nsends'
    BY DEF Delivery
  <2>3. msg'[s][1] = Delivery(NameOf(s), s, nsends')
    <3> HIDE DEF Delivery
    <3> QED BY <2>1
  <2> QED
    BY <1>2, <1>3, <2>1, <2>2, <2>3 DEF Last
<1>7. CASE Advance(s) \/ Enqueue(s)
  BY <1>1, <1>5, <1>7 DEF Advance, Enqueue, Walking, walk
<1>8. CASE Login(s) \/ LoginRefused(s) \/ Leave(s) \/ Quit(s) \/ FindRoom(s) \/ CreateRoom(s)
             \/ Finish(s) \/ \E n \in RoomNames : Join(s, n)
  <2>1. pc'[s] \in {"ready", "done", "insert"}
    BY <1>1, <1>8, ServerAssumption DEF Login, LoginRefused, Leave, Quit,
       FindRoom, CreateRoom, Finish, EnterRoom, Join
  <2> QED
    BY <1>4, <2>1 DEF Walking
<1> QED
  BY <1>4, <1>5, <1>6, <1>7, <1>8, SenderPcIs DEF SenderPc

\* What is allowed stays allowed.
LEMMA AllowedGrows ==
  ASSUME TypeOK, Asked, Placed, Posted, Next, NEW r \in Receivers
  PROVE  Allowed(r) \subseteq Allowed(r)'
<1>1. ASSUME NEW m \in Messages, pc[r] \in Inside, m[2] = want[r], m[4] <= Last(m[3])
      PROVE  m \in Allowed(r)'
  <2>1. m[3] \in Senders /\ m[4] \in Nat
    BY MessageParts, ServerAssumption
  <2>2. m[4] <= Last(m[3])'
    BY <1>1, <2>1, LastGrows
  <2>3. pc'[r] \in Inside /\ want'[r] = want[r]
    BY <1>1, InsideStays
  <2> QED
    BY <1>1, <2>2, <2>3 DEF Allowed
<1> QED
  BY <1>1 DEF Allowed

\* The message of a sender in a broadcast may go to the member it has come to.
LEMMA MessageAllowed ==
  ASSUME TypeOK, Placed, Posted, NEW s \in Senders, Enqueue(s)
  PROVE  /\ cursor[s] \in Receivers
         /\ msg[s] = <<msg[s][1]>>
         /\ msg[s][1] \in Allowed(cursor[s]) \cap Messages
         /\ mqueue' = [mqueue EXCEPT ![cursor[s]] = Append(@, msg[s][1])]
<1>1. pc[s] = "enqueue" /\ cursor[s] \in Receivers
  BY DEF Enqueue, Runs, Posted, TypeOK
<1>2. pc[cursor[s]] \in Inside /\ cur_room[cursor[s]] = cur_room[s]
  BY <1>1, ServerAssumption DEF Posted
<1>3. cur_room[s] # 0 /\ NameOf(s) = want[cursor[s]]
  BY <1>1, <1>2 DEF Placed, NameOf, Walking
<1>4. NameOf(s) \in RoomNames
  <2>1. rooms[cur_room[s]] \in Room
    BY <1>3, LandingsAre
  <2> QED
    BY <2>1 DEF Room, NameOf
<1>5. /\ msg[s] = <<msg[s][1]>> /\ msg[s][1] \in Messages
      /\ msg[s][1][2] = NameOf(s)
      /\ msg[s][1][3] = s
      /\ msg[s][1][4] = Last(s)
      /\ Last(s) \in Nat
  BY <1>1, <1>4, LastIs DEF Walking
<1>6. msg[s][1] \in Allowed(cursor[s])
  BY <1>2, <1>3, <1>5 DEF Allowed
<1>7. mqueue[cursor[s]] \o msg[s] = Append(mqueue[cursor[s]], msg[s][1])
  <2>1. mqueue[cursor[s]] \in Seq(Messages)
    BY <1>1 DEF TypeOK
  <2>2. Append(mqueue[cursor[s]], msg[s][1]) = mqueue[cursor[s]] \o <<msg[s][1]>>
    BY <1>5, <2>1, AppendIsConcat
  <2> QED
    BY <1>5, <2>2
<1> QED
  BY <1>1, <1>5, <1>6, <1>7 DEF Enqueue

\* Only what is allowed is put on its way.
LEMMA CarriedStep ==
  ASSUME TypeOK, Asked, Placed, InHand, Posted, Carried, Next
  PROVE  Carried'
<1>1. /\ sent \in [Receivers -> Seq(Messages \cup {Ok, Err})]
      /\ hand \in [Receivers -> Seq(Messages)]
      /\ mqueue \in [Receivers -> Seq(Messages)]
  BY DEF TypeOK
<1>2. SUFFICES ASSUME NEW r \in Receivers
               PROVE  /\ sent'[r] \in Seq(Allowed(r)')
                      /\ hand'[r] \in Seq(Allowed(r)')
                      /\ mqueue'[r] \in Seq(Allowed(r)')
  BY DEF Carried
<1>3. Allowed(r) \subseteq Allowed(r)' /\ {Ok, Err} \subseteq Allowed(r)'
  BY AllowedGrows DEF Allowed
<1>4. /\ sent[r] \in Seq(Allowed(r)') /\ hand[r] \in Seq(Allowed(r)')
      /\ mqueue[r] \in Seq(Allowed(r)')
  BY <1>3, SeqMonotonic DEF Carried
<1>5. CASE sent'[r] = sent[r] /\ hand'[r] = hand[r] /\ mqueue'[r] = mqueue[r]
  BY <1>4, <1>5
<1>6. ASSUME NEW m \in Allowed(r)', Write(r, m)
      PROVE  sent'[r] \in Seq(Allowed(r)')
  <2>1. Append(sent[r], m) \in Seq(Allowed(r)')
    BY <1>4, <1>6, AppendProperties
  <2>2. sent'[r] \in {sent[r], Append(sent[r], m)}
    BY <1>1, <1>6 DEF Write
  <2> QED
    BY <1>4, <2>1, <2>2
<1>7. CASE Login(r) \/ LoginRefused(r) \/ Refuse(r) \/ Confirm(r)
  <2>1. \E m \in {Ok, Err} : Write(r, m)
    BY <1>7 DEF Login, LoginRefused, Refuse, Confirm
  <2> QED
    BY <1>3, <1>4, <1>6, <1>7, <2>1 DEF Login, LoginRefused, Refuse, Confirm
<1>8. CASE Deliver(r)
  <2>1. hand[r] # <<>>
    BY <1>8 DEF Deliver, Runs, InHand
  <2>2. Head(hand[r]) \in Allowed(r)'
    BY <1>4, <2>1, HeadTailProperties
  <2>3. hand'[r] = <<>> /\ mqueue' = mqueue
    BY <1>1, <1>8 DEF Deliver
  <2> QED
    BY <1>4, <1>6, <1>8, <2>2, <2>3, EmptySeq DEF Deliver
<1>9. CASE Dequeue(r)
  <2>1. Head(mqueue[r]) \in Allowed(r)' /\ Tail(mqueue[r]) \in Seq(Allowed(r)')
    BY <1>4, <1>9, HeadTailProperties DEF Dequeue
  <2>2. <<Head(mqueue[r])>> \in Seq(Allowed(r)')
    BY <2>1
  <2> QED
    BY <1>1, <1>4, <1>9, <2>1, <2>2 DEF Dequeue
<1>10. ASSUME NEW s \in Senders, Enqueue(s)
       PROVE  /\ sent'[r] \in Seq(Allowed(r)') /\ hand'[r] \in Seq(Allowed(r)')
              /\ mqueue'[r] \in Seq(Allowed(r)')
  <2>1. CASE cursor[s] = r
    <3>1. Append(mqueue[r], msg[s][1]) \in Seq(Allowed(r)')
      BY <1>3, <1>4, <1>10, <2>1, MessageAllowed, AppendProperties
    <3>2. mqueue'[r] = Append(mqueue[r], msg[s][1])
      BY <1>1, <1>10, <2>1, MessageAllowed
    <3> QED
      BY <1>4, <1>10, <3>1, <3>2 DEF Enqueue
  <2>2. CASE cursor[s] # r
    BY <1>1, <1>4, <1>10, <2>2 DEF Enqueue
  <2> QED
    BY <2>1, <2>2
<1>11. ASSUME NEW q \in Receivers, q # r,
              Login(q) \/ LoginRefused(q) \/ Refuse(q) \/ Confirm(q) \/ Deliver(q) \/ Dequeue(q)
       PROVE  sent'[r] = sent[r] /\ hand'[r] = hand[r] /\ mqueue'[r] = mqueue[r]
  BY <1>1, <1>11 DEF Login, LoginRefused, Refuse, Confirm, Deliver, Dequeue,
     Write
<1> QED
  BY <1>5, <1>7, <1>8, <1>9, <1>10, <1>11, Frames DEF PipeFrame, pipe, Read

-----------------------------------------------------------------------------
(* The order of what is on its way *)

\* All that server_send writes to a receiver.
Sendable == Messages \cup {Ok, Err}

\* A part stays in order when something is added that nothing in it may follow.
LEMMA OrderedAppend ==
  ASSUME NEW q \in Seq(Sendable), NEW e \in Sendable, Ordered(q),
         \A i \in DOMAIN q : Precedes(q[i], e)
  PROVE  Ordered(Append(q, e))
<1>1. /\ DOMAIN q = 1 .. Len(q) /\ Len(q) \in Nat
      /\ DOMAIN Append(q, e) = 1 .. Len(q) + 1
      /\ \A i \in 1 .. Len(q) : Append(q, e)[i] = q[i]
      /\ Append(q, e)[Len(q) + 1] = e
  BY AppendProperties, LenProperties
<1> HIDE DEF Sendable
<1> QED
  BY <1>1 DEF Ordered

\* ... and stays before another, or after it.
LEMMA BeforeAppend ==
  ASSUME NEW q \in Seq(Sendable), NEW e \in Sendable, NEW t
  PROVE  /\ Before(t, q) /\ (\A i \in DOMAIN t : Precedes(t[i], e)) => Before(t, Append(q, e))
         /\ Before(q, t) /\ (\A j \in DOMAIN t : Precedes(e, t[j])) => Before(Append(q, e), t)
<1>1. /\ DOMAIN q = 1 .. Len(q) /\ Len(q) \in Nat
      /\ DOMAIN Append(q, e) = 1 .. Len(q) + 1
      /\ \A i \in 1 .. Len(q) : Append(q, e)[i] = q[i]
      /\ Append(q, e)[Len(q) + 1] = e
  BY AppendProperties, LenProperties
<1>2. \A i \in DOMAIN Append(q, e) : (i \in DOMAIN q /\ Append(q, e)[i] = q[i]) \/ Append(q, e)[i] = e
  BY <1>1
<1> QED
  BY <1>2 DEF Before

\* Two parts in order, one before the other, are in order together.
LEMMA OrderedConcat ==
  ASSUME NEW p \in Seq(Sendable), NEW q \in Seq(Sendable), Ordered(p), Ordered(q), Before(p, q)
  PROVE  Ordered(p \o q)
<1>1. /\ DOMAIN p = 1 .. Len(p) /\ Len(p) \in Nat
      /\ DOMAIN q = 1 .. Len(q) /\ Len(q) \in Nat
      /\ DOMAIN (p \o q) = 1 .. Len(p) + Len(q)
      /\ \A i \in 1 .. Len(p) + Len(q) : (p \o q)[i] = IF i <= Len(p) THEN p[i] ELSE q[i - Len(p)]
  BY ConcatProperties, LenProperties
<1>2. SUFFICES ASSUME NEW i \in 1 .. Len(p) + Len(q), NEW j \in 1 .. Len(p) + Len(q), i < j
               PROVE  Precedes((p \o q)[i], (p \o q)[j])
  BY <1>1 DEF Ordered
<1>3. CASE j <= Len(p)
  BY <1>1, <1>2, <1>3 DEF Ordered
<1>4. CASE i <= Len(p) /\ ~(j <= Len(p))
  <2>1. i \in DOMAIN p /\ j - Len(p) \in DOMAIN q
    BY <1>1, <1>4
  <2> QED
    BY <1>1, <1>4, <2>1 DEF Before
<1>5. CASE ~(i <= Len(p))
  <2>1. /\ i - Len(p) \in DOMAIN q
        /\ j - Len(p) \in DOMAIN q
        /\ i - Len(p) < j - Len(p)
        /\ ~(j <= Len(p))
    BY <1>1, <1>2, <1>5
  <2> QED
    BY <1>1, <1>5, <2>1 DEF Ordered
<1> QED
  BY <1>1, <1>3, <1>4, <1>5

\* Both parts of a sequence are before what the whole is before.
LEMMA BeforeConcat ==
  ASSUME NEW p \in Seq(Sendable), NEW q \in Seq(Sendable), NEW t,
         Before(p, t), Before(q, t)
  PROVE  Before(p \o q, t)
<1>1. /\ DOMAIN p = 1 .. Len(p) /\ Len(p) \in Nat
      /\ DOMAIN q = 1 .. Len(q) /\ Len(q) \in Nat
      /\ DOMAIN (p \o q) = 1 .. Len(p) + Len(q)
      /\ \A i \in 1 .. Len(p) + Len(q) : (p \o q)[i] = IF i <= Len(p) THEN p[i] ELSE q[i - Len(p)]
  BY ConcatProperties, LenProperties
<1>2. ASSUME NEW i \in DOMAIN (p \o q)
      PROVE  \/ i \in DOMAIN p /\ (p \o q)[i] = p[i]
             \/ i - Len(p) \in DOMAIN q /\ (p \o q)[i] = q[i - Len(p)]
  BY <1>1
<1> QED
  BY <1>2 DEF Before

\* Answers have no place in the order.
LEMMA AnswersPrecede ==
  ASSUME NEW a
  PROVE  /\ Precedes(a, Ok)
         /\ Precedes(a, Err)
         /\ Precedes(Ok, a)
         /\ Precedes(Err, a)
BY AnswersAreNotMessages DEF Precedes

\* InOrder, of one receiver.
OrderOf(r) ==
  /\ Ordered(sent[r]) /\ Ordered(hand[r]) /\ Ordered(mqueue[r])
  /\ Before(sent[r], hand[r])
  /\ Before(sent[r], mqueue[r])
  /\ Before(hand[r], mqueue[r])

\* What is on its way stays in order.
LEMMA InOrderStep ==
  ASSUME TypeOK, Asked, Placed, InHand, Posted, Carried, InOrder, Next
  PROVE  InOrder'
<1>1. /\ sent \in [Receivers -> Seq(Sendable)]
      /\ hand \in [Receivers -> Seq(Messages)]
      /\ mqueue \in [Receivers -> Seq(Messages)]
  BY DEF TypeOK, Sendable
<1>2. SUFFICES ASSUME NEW r \in Receivers
               PROVE  OrderOf(r)'
  BY DEF InOrder, OrderOf
<1>3. OrderOf(r)
  BY DEF InOrder, OrderOf
<1>4. /\ sent[r] \in Seq(Sendable)
      /\ hand[r] \in Seq(Sendable)
      /\ mqueue[r] \in Seq(Sendable)
  BY <1>1, SeqMonotonic DEF Sendable
<1>5. Ordered(<<>>) /\ \A q : Before(q, <<>>) /\ Before(<<>>, q)
  BY DEF Ordered, Before
<1>6. CASE sent'[r] = sent[r] /\ hand'[r] = hand[r] /\ mqueue'[r] = mqueue[r]
  BY <1>3, <1>6 DEF OrderOf
<1>7. ASSUME NEW m \in {Ok, Err}, Write(r, m), hand'[r] = hand[r], mqueue'[r] = mqueue[r]
      PROVE  OrderOf(r)'
  <2>1. sent'[r] = sent[r] \/ sent'[r] = Append(sent[r], m)
    BY <1>1, <1>7 DEF Write
  <2>2. m \in Sendable /\ \A a : Precedes(a, m) /\ Precedes(m, a)
    BY AnswersPrecede DEF Sendable
  <2>3. Ordered(Append(sent[r], m))
    BY <1>3, <1>4, <2>2, OrderedAppend DEF OrderOf
  <2>4. /\ Before(Append(sent[r], m), hand[r])
        /\ Before(Append(sent[r], m), mqueue[r])
    BY <1>3, <1>4, <2>2, BeforeAppend DEF OrderOf
  <2> QED
    BY <1>3, <1>6, <1>7, <2>1, <2>3, <2>4 DEF OrderOf
<1>8. CASE Login(r) \/ LoginRefused(r) \/ Refuse(r) \/ Confirm(r)
  <2>1. \E m \in {Ok, Err} : Write(r, m)
    BY <1>8 DEF Login, LoginRefused, Refuse, Confirm
  <2> QED
    BY <1>7, <1>8, <2>1 DEF Login, LoginRefused, Refuse, Confirm
<1>9. CASE Deliver(r)
  <2>1. Len(hand[r]) = 1 /\ hand[r] # <<>>
    BY <1>9 DEF Deliver, Runs, InHand
  <2>2. /\ Head(hand[r]) = hand[r][1]
        /\ hand[r][1] \in Sendable
        /\ DOMAIN hand[r] = {1}
    BY <1>4, <2>1, ElementOfSeq, LenProperties
  <2>3. hand'[r] = <<>> /\ mqueue' = mqueue
    BY <1>1, <1>9 DEF Deliver
  <2>4. sent'[r] = sent[r] \/ sent'[r] = Append(sent[r], hand[r][1])
    BY <1>1, <1>9, <2>2 DEF Deliver, Write
  <2>5. /\ \A i \in DOMAIN sent[r] : Precedes(sent[r][i], hand[r][1])
        /\ \A j \in DOMAIN mqueue[r] : Precedes(hand[r][1], mqueue[r][j])
    BY <1>3, <2>2 DEF OrderOf, Before
  <2>6. Ordered(Append(sent[r], hand[r][1]))
    BY <1>3, <1>4, <2>2, <2>5, OrderedAppend DEF OrderOf
  <2>7. Before(Append(sent[r], hand[r][1]), mqueue[r])
    BY <1>3, <1>4, <2>2, <2>5, BeforeAppend DEF OrderOf
  <2> QED
    BY <1>3, <1>5, <2>3, <2>4, <2>6, <2>7 DEF OrderOf
<1>10. CASE Dequeue(r)
  <2>1. mqueue[r] # <<>> /\ hand[r] = <<>>
    BY <1>10 DEF Dequeue, Runs, InHand
  <2>2. /\ Head(mqueue[r]) = mqueue[r][1]
        /\ 1 \in DOMAIN mqueue[r]
        /\ DOMAIN mqueue[r] = 1 .. Len(mqueue[r])
        /\ Len(mqueue[r]) \in Nat
        /\ DOMAIN Tail(mqueue[r]) = 1 .. Len(mqueue[r]) - 1
        /\ \A i \in 1 .. Len(mqueue[r]) - 1 : Tail(mqueue[r])[i] = mqueue[r][i + 1]
    BY <1>4, <2>1, HeadTailProperties, LenProperties, EmptySeq
  <2>3. /\ hand'[r] = <<mqueue[r][1]>>
        /\ mqueue'[r] = Tail(mqueue[r])
        /\ sent' = sent
    BY <1>1, <1>10, <2>2 DEF Dequeue
  <2>4. DOMAIN <<mqueue[r][1]>> = {1} /\ <<mqueue[r][1]>>[1] = mqueue[r][1]
    OBVIOUS
  <2>5. Ordered(<<mqueue[r][1]>>) /\ Before(sent[r], <<mqueue[r][1]>>)
    BY <1>3, <2>2, <2>4 DEF Ordered, Before, OrderOf
  <2>6. Ordered(Tail(mqueue[r])) /\ Before(<<mqueue[r][1]>>, Tail(mqueue[r]))
    <3>1. \A i, j \in 1 .. Len(mqueue[r]) : i < j => Precedes(mqueue[r][i], mqueue[r][j])
      BY <1>3, <2>2 DEF Ordered, OrderOf
    <3>2. ASSUME NEW i \in DOMAIN Tail(mqueue[r]), NEW j \in DOMAIN Tail(mqueue[r]), i < j
          PROVE  Precedes(Tail(mqueue[r])[i], Tail(mqueue[r])[j])
      <4>1. /\ i + 1 \in 1 .. Len(mqueue[r])
            /\ j + 1 \in 1 .. Len(mqueue[r])
            /\ i + 1 < j + 1
        BY <2>2, <3>2
      <4>2. /\ Tail(mqueue[r])[i] = mqueue[r][i + 1]
            /\ Tail(mqueue[r])[j] = mqueue[r][j + 1]
        BY <2>2
      <4> QED
        BY <3>1, <4>1, <4>2
    <3>3. \A j \in DOMAIN Tail(mqueue[r]) : Precedes(mqueue[r][1], Tail(mqueue[r])[j])
      BY <2>2, <3>1
    <3> QED
      BY <2>4, <3>2, <3>3 DEF Ordered, Before
  <2>7. Before(sent[r], Tail(mqueue[r]))
    BY <1>3, <2>2 DEF Before, OrderOf
  <2> QED
    BY <1>3, <2>3, <2>5, <2>6, <2>7 DEF OrderOf
<1>11. ASSUME NEW s \in Senders, Enqueue(s)
       PROVE  OrderOf(r)'
  <2>1. CASE cursor[s] = r
    <3> DEFINE e == msg[s][1]
    <3>1. e \in Messages /\ e[3] = s /\ e[4] = Last(s)
      BY <1>11, MessageAllowed, LastIs DEF Enqueue, Runs, Walking
    <3>2. mqueue'[r] = Append(mqueue[r], e) /\ sent' = sent /\ hand' = hand
      BY <1>1, <1>11, <2>1, MessageAllowed DEF Enqueue
    <3> HIDE DEF e
    <3>3. \A a \in Allowed(r) : Precedes(a, e)
      BY <3>1, AnswersPrecede DEF Allowed, Precedes
    <3>4. /\ \A i \in DOMAIN sent[r] : Precedes(sent[r][i], e)
          /\ \A i \in DOMAIN hand[r] : Precedes(hand[r][i], e)
          /\ \A i \in DOMAIN mqueue[r] : Precedes(mqueue[r][i], e)
      <4>1. /\ sent[r] \in Seq(Allowed(r))
            /\ hand[r] \in Seq(Allowed(r))
            /\ mqueue[r] \in Seq(Allowed(r))
        BY DEF Carried
      <4>2. \A q \in Seq(Allowed(r)) : \A i \in DOMAIN q : q[i] \in Allowed(r)
        BY ElementOfSeq, LenProperties
      <4> QED BY <3>3, <4>1, <4>2
    <3>5. e \in Sendable
      BY <3>1 DEF Sendable
    <3>6. Ordered(Append(mqueue[r], e))
      BY <1>3, <1>4, <3>4, <3>5, OrderedAppend DEF OrderOf
    <3>7. /\ Before(sent[r], Append(mqueue[r], e))
          /\ Before(hand[r], Append(mqueue[r], e))
      BY <1>3, <1>4, <3>4, <3>5, BeforeAppend DEF OrderOf
    <3> QED
      BY <1>3, <3>2, <3>6, <3>7 DEF OrderOf
  <2>2. CASE cursor[s] # r
    BY <1>1, <1>6, <1>11, <2>2 DEF Enqueue
  <2> QED
    BY <2>1, <2>2
<1>12. ASSUME NEW q \in Receivers, q # r,
              Login(q) \/ LoginRefused(q) \/ Refuse(q) \/ Confirm(q) \/ Deliver(q) \/ Dequeue(q)
       PROVE  sent'[r] = sent[r] /\ hand'[r] = hand[r] /\ mqueue'[r] = mqueue[r]
  BY <1>1, <1>12 DEF Login, LoginRefused, Refuse, Confirm, Deliver, Dequeue,
     Write
<1> QED
  BY <1>6, <1>8, <1>9, <1>10, <1>11, <1>12, Frames DEF PipeFrame, pipe, Read

-----------------------------------------------------------------------------
(* The answers *)

\* The answers are written as the worker goes on.
LEMMA GreetedStep ==
  ASSUME TypeOK, Greeted, Next
  PROVE  Greeted'
<1>1. /\ sent \in [Receivers -> Seq(Sendable)]
      /\ alive \subseteq Receivers
      /\ alive' \subseteq alive
      /\ pc \in [Workers -> SenderSteps \cup ReceiverSteps]
      /\ Receivers \subseteq Workers
  <2>1. alive' \subseteq alive
    BY DEF Next, SenderStep, ReceiverStep, InsertStep, ClientStep, Login,
       LoginRefused, LoginFails, Join,
      Leave, Sendall, Quit, Refuse, Read, Hangup, FindRoom, CreateRoom,
      CrashInMap, Advance, Enqueue, Finish,
      LockRoom, AddMember, Confirm, Dequeue, Deliver
  <2> QED
    BY <2>1 DEF TypeOK, Sendable, Workers
<1>2. SUFFICES ASSUME NEW r \in alive, r \in alive', r \in Receivers, r \in Workers
      PROVE  /\ pc'[r] = "login" => sent'[r] = <<>>
             /\ pc'[r] \in {"ready", "insert", "lock", "adding", "confirm"} => sent'[r] = <<Ok>>
             /\ pc'[r] \in {"loop", "deliver"} =>
                  Len(sent'[r]) >= 2 /\ sent'[r][1] = Ok /\ sent'[r][2] = Ok
  BY <1>1 DEF Greeted
<1>3. ASSUME NEW m, Write(r, m)
      PROVE  sent'[r] = Append(sent[r], m)
  BY <1>1, <1>2, <1>3 DEF Write
<1>4. CASE Login(r)
  <2>1. pc[r] = "login" /\ pc'[r] = "ready" /\ Write(r, Ok)
    BY <1>1, <1>2, <1>4 DEF Login, Runs, Goto
  <2> QED
    BY <1>2, <1>3, <2>1 DEF Greeted
<1>5. CASE LoginRefused(r) \/ Refuse(r)
  BY <1>1, <1>2, <1>5 DEF LoginRefused, Refuse, Goto
<1>6. CASE Confirm(r)
  <2>1. pc[r] = "confirm" /\ pc'[r] = "loop" /\ Write(r, Ok)
    BY <1>1, <1>2, <1>6 DEF Confirm, Runs, Goto
  <2>2. sent[r] = <<Ok>> /\ sent'[r] = Append(sent[r], Ok)
    BY <1>2, <1>3, <2>1 DEF Greeted
  <2>3. Len(sent[r]) = 1 /\ sent[r][1] = Ok /\ sent[r] \in Seq({Ok})
    BY <2>2
  <2>4. Len(sent'[r]) = 2 /\ sent'[r][1] = Ok /\ sent'[r][2] = Ok
    BY <2>2, <2>3, AppendProperties
  <2> QED
    BY <2>1, <2>4
<1>7. CASE Deliver(r)
  <2>1. /\ pc[r] = "deliver"
        /\ pc'[r] = "loop"
        /\ sent'[r] = Append(sent[r], Head(hand[r]))
    BY <1>1, <1>2, <1>3, <1>7 DEF Deliver, Runs, Goto
  <2>2. /\ Len(sent[r]) >= 2
        /\ sent[r][1] = Ok
        /\ sent[r][2] = Ok
        /\ sent[r] \in Seq(Sendable \cup {Head(hand[r])})
    BY <1>1, <1>2, <2>1, SeqMonotonic DEF Greeted
  <2>3. /\ Len(sent[r]) \in Nat
        /\ Len(sent'[r]) = Len(sent[r]) + 1
        /\ \A i \in 1 .. Len(sent[r]) : sent'[r][i] = sent[r][i]
    BY <2>1, <2>2, AppendProperties, LenProperties
  <2> QED
    BY <2>1, <2>2, <2>3
<1>8. CASE ~(Login(r) \/ LoginRefused(r) \/ Refuse(r) \/ Confirm(r) \/ Deliver(r))
  <2>1. sent'[r] = sent[r]
    <3>1. ASSUME NEW q \in Receivers, q # r,
                 Login(q) \/ LoginRefused(q) \/ Refuse(q) \/ Confirm(q) \/ Deliver(q)
          PROVE  sent'[r] = sent[r]
      BY <1>1, <1>2, <3>1 DEF Login, LoginRefused, Refuse, Confirm, Deliver,
         Write
    <3> QED
      BY <1>2, <1>8, <3>1, Frames DEF PipeFrame, pipe, Enqueue, Dequeue, Read
  <2>2. \/ pc'[r] = pc[r]
        \/ pc'[r] \in {"ready", "insert", "lock", "adding", "confirm"}
           /\ pc[r] \in {"ready", "insert", "lock", "adding", "confirm"}
        \/ pc'[r] \in {"loop", "deliver"} /\ pc[r] \in {"loop", "deliver"}
    BY <1>1, <1>2, <1>8, ReceiverPcIs, ServerAssumption DEF ReceiverPc, Goto,
       Runs, EnterRoom, LockRoom, AddMember,
       Dequeue, FindRoom, CreateRoom, Join
  <2> QED
    BY <1>2, <2>1, <2>2 DEF Greeted
<1> QED
  BY <1>4, <1>5, <1>6, <1>7, <1>8

\* No delivery is written before the answers.
LEMMA AnsweredFirstStep ==
  ASSUME TypeOK, InHand, Greeted, AnsweredFirst, Next
  PROVE  AnsweredFirst'
<1>1. /\ sent \in [Receivers -> Seq(Sendable)]
      /\ hand \in [Receivers -> Seq(Messages)]
  BY DEF TypeOK, Sendable
<1>2. SUFFICES ASSUME NEW r \in Receivers
      PROVE  \A i \in DOMAIN sent'[r] : sent'[r][i] \in Messages =>
               i > 2 /\ sent'[r][1] = Ok /\ sent'[r][2] = Ok
  BY DEF AnsweredFirst
<1>3. CASE sent'[r] = sent[r]
  BY <1>3 DEF AnsweredFirst
<1>4. ASSUME NEW m \in Sendable, r \in alive, sent'[r] = Append(sent[r], m),
             m \in Messages => pc[r] = "deliver"
      PROVE  \A i \in DOMAIN sent'[r] : sent'[r][i] \in Messages =>
               i > 2 /\ sent'[r][1] = Ok /\ sent'[r][2] = Ok
  <2>1. /\ DOMAIN sent[r] = 1 .. Len(sent[r]) /\ Len(sent[r]) \in Nat
        /\ DOMAIN sent'[r] = 1 .. Len(sent[r]) + 1
        /\ \A i \in 1 .. Len(sent[r]) : sent'[r][i] = sent[r][i]
        /\ sent'[r][Len(sent[r]) + 1] = m
    BY <1>1, <1>4, AppendProperties, LenProperties
  <2>2. ASSUME NEW i \in 1 .. Len(sent[r]), sent[r][i] \in Messages
        PROVE  i > 2 /\ sent'[r][1] = Ok /\ sent'[r][2] = Ok
    BY <2>1, <2>2 DEF AnsweredFirst
  <2>3. ASSUME m \in Messages
        PROVE  Len(sent[r]) >= 2 /\ sent'[r][1] = Ok /\ sent'[r][2] = Ok
    BY <1>4, <2>1, <2>3 DEF Greeted
  <2> QED
    BY <2>1, <2>2, <2>3
<1>5. ASSUME NEW m \in Sendable, Write(r, m), m \in Messages => pc[r] = "deliver"
      PROVE  \A i \in DOMAIN sent'[r] : sent'[r][i] \in Messages =>
               i > 2 /\ sent'[r][1] = Ok /\ sent'[r][2] = Ok
  BY <1>1, <1>3, <1>4, <1>5 DEF Write
<1>6. CASE Login(r) \/ LoginRefused(r) \/ Refuse(r) \/ Confirm(r)
  <2>1. \E m \in {Ok, Err} : Write(r, m)
    BY <1>6 DEF Login, LoginRefused, Refuse, Confirm
  <2> QED
    BY <1>5, <2>1, AnswersAreNotMessages DEF Sendable
<1>7. CASE Deliver(r)
  <2>1. pc[r] = "deliver" /\ hand[r] # <<>>
    BY <1>7 DEF Deliver, Runs, InHand
  <2>2. Head(hand[r]) \in Sendable
    BY <1>1, <2>1, HeadTailProperties DEF Sendable
  <2> QED
    BY <1>5, <1>7, <2>1, <2>2 DEF Deliver
<1>8. ASSUME NEW q \in Receivers, q # r,
             Login(q) \/ LoginRefused(q) \/ Refuse(q) \/ Confirm(q) \/ Deliver(q)
      PROVE  sent'[r] = sent[r]
  BY <1>1, <1>2, <1>8 DEF Login, LoginRefused, Refuse, Confirm, Deliver, Write
<1> QED
  BY <1>3, <1>6, <1>7, <1>8, Frames DEF PipeFrame, pipe, Enqueue, Dequeue, Read

-----------------------------------------------------------------------------
(* The theorems *)

\* The initial state has the invariant ...
LEMMA InitInv == Init => IInv
<1> SUFFICES ASSUME Init PROVE IInv
  OBVIOUS
<1> USE DEF Init
<1>1. rooms = <<>> /\ <<>> \in Seq(Room) /\ Len(<<>>) = 0 /\ DOMAIN <<>> = {}
      /\ \A S : <<>> \in Seq(S)
  BY EmptySeq
<1>2. TypeOK
  <2>1. PcTypes
    BY DEF PcTypes, Asked, At, SenderSteps, Workers
  <2>2. RoomTypes
    BY <1>1 DEF RoomTypes
  <2>3. WalkTypes
    BY <1>1, ServerAssumption DEF WalkTypes
  <2>4. PipeTypes
    BY <1>1, ServerAssumption DEF PipeTypes
  <2> QED
    BY <2>1, <2>2, <2>3, <2>4, TypeParts
<1>3. Asked /\ Placed /\ Named /\ Unique /\ InHand /\ Posted
  BY <1>1 DEF Asked, Placed, Named, Unique, RoomIsUnique, InHand, Posted,
     Workers, Inside, Member, Walking
<1>4. Carried /\ InOrder
  BY <1>1 DEF Carried, InOrder, Ordered, Before
<1>5. Greeted /\ AnsweredFirst
  BY <1>1 DEF Greeted, AnsweredFirst, Workers
<1> QED
  BY <1>2, <1>3, <1>4, <1>5 DEF IInv

\* ... and every step keeps it.
LEMMA InvStep == IInv /\ [Next]_vars => IInv'
<1> SUFFICES ASSUME IInv, [Next]_vars PROVE IInv'
  OBVIOUS
<1> USE DEF IInv
<1>1. CASE Next
  BY <1>1, TypeInv, PlacedStep, NamedStep, UniqueStep, InHandStep, PostedStep,
     CarriedStep, InOrderStep, GreetedStep,
     AnsweredFirstStep
<1>2. CASE UNCHANGED vars
  <2> USE <1>2 DEF vars, chat, walk, pipe
  <2>1. TypeOK' /\ Asked' /\ Placed' /\ Named' /\ Unique' /\ InHand' /\ Posted'
    BY DEF TypeOK, At, Asked, Placed, NameOf, Named, Unique, RoomIsUnique,
       InHand, Posted
  <2>2. Carried' /\ InOrder' /\ Greeted' /\ AnsweredFirst'
    BY DEF Carried, Allowed, Last, InOrder, Greeted, AnsweredFirst
  <2> QED
    BY <2>1, <2>2
<1> QED
  BY <1>1, <1>2

\* The inductive invariant holds of every behaviour of the server.
THEOREM Invariance == Spec => []IInv
BY InitInv, InvStep, PTL DEF Spec

\* The variables keep their types: every iterator is at a receiver or at the end,
\* every Room* at a room, and no queue is longer than QUEUE_MAX.
THEOREM TypeCorrect == Spec => []TypeOK
BY Invariance, PTL DEF IInv

\* The worker of a member never returns, so the User* that a broadcast follows
\* always points at a live User.
THEOREM MembersAreThere == Spec => []MembersStay
<1>1. IInv => MembersStay
  <2> SUFFICES ASSUME IInv, NEW k \in DOMAIN rooms, NEW r \in rooms[k].members
               PROVE  pc[r] # "done"
    BY DEF MembersStay
  <2>1. r \in Receivers
    <3>1. rooms[k] \in Room
      BY ElementOfSeq, LenProperties DEF IInv, TypeOK
    <3> QED
      BY <3>1 DEF Room
  <2> QED
    BY <2>1 DEF IInv, Placed, Member
<1> QED
  BY <1>1, Invariance, PTL

\* The answers to login and join precede every delivery on the socket, although
\* the receiver is a member before it is answered.
THEOREM AnswersComeFirst == Spec => []AnsweredFirst
BY Invariance, PTL DEF IInv

\* While no two inserts into m_rooms have raced, a name has one room, whoever
\* holds it.
THEOREM OneRoomForAName == Spec => []RoomIsUnique
<1>1. IInv => RoomIsUnique
  BY DEF IInv, Unique
<1> QED
  BY <1>1, Invariance, PTL

\* While no two inserts have raced, a receiver whose join was answered is among
\* the members that every sender in a room of that name sends to.
THEOREM AnsweredAreMembers == Spec => []AnsweredIsMember
<1>1. IInv => AnsweredIsMember
  <2> SUFFICES ASSUME IInv, ~mapRaced, NEW r \in Receivers, NEW s \in in_room,
                      pc[r] \in {"loop", "deliver"}, NameOf(r) = NameOf(s)
               PROVE  r \in rooms[cur_room[s]].members
    BY DEF AnsweredIsMember
  <2>1. s \in Senders /\ s \in Workers /\ r \in Workers
    BY DEF IInv, TypeOK, Workers
  <2>2. cur_room[s] # 0 /\ cur_room[r] # 0
    BY <2>1 DEF IInv, Placed, Inside, Member
  <2>3. cur_room[r] = cur_room[s]
    BY <2>1, <2>2 DEF IInv, Unique, RoomIsUnique
  <2>4. cur_room[r] \in DOMAIN rooms
    BY <2>1, <2>2, Held DEF IInv
  <2> QED
    BY <2>3, <2>4 DEF IInv, Placed, Member
<1> QED
  BY <1>1, Invariance, PTL

\* What is on its way, put together.
LEMMA StreamIs ==
  ASSUME IInv, NEW r \in Receivers
  PROVE  /\ Stream(r) \in Seq(Allowed(r))
         /\ Ordered(Stream(r))
         /\ DOMAIN Stream(r) = 1 .. Len(Stream(r))
<1>1. /\ sent[r] \in Seq(Allowed(r))
      /\ hand[r] \in Seq(Allowed(r))
      /\ mqueue[r] \in Seq(Allowed(r))
  BY DEF IInv, Carried
<1>2. sent[r] \o hand[r] \in Seq(Allowed(r))
  BY <1>1, ConcatProperties
<1>3. Stream(r) \in Seq(Allowed(r))
  BY <1>1, <1>2, ConcatProperties DEF Stream
<1>4. Allowed(r) \subseteq Sendable
  BY DEF Allowed, Sendable
<1>5. /\ sent[r] \in Seq(Sendable)
      /\ hand[r] \in Seq(Sendable)
      /\ mqueue[r] \in Seq(Sendable)
      /\ sent[r] \o hand[r] \in Seq(Sendable)
  BY <1>1, <1>2, <1>4, SeqMonotonic
<1>6. Ordered(sent[r] \o hand[r])
  BY <1>5, OrderedConcat DEF IInv, InOrder
<1>7. Before(sent[r] \o hand[r], mqueue[r])
  BY <1>5, BeforeConcat DEF IInv, InOrder
<1>8. Ordered(Stream(r))
  BY <1>5, <1>6, <1>7, OrderedConcat DEF IInv, InOrder, Stream
<1> QED
  BY <1>3, <1>8, LenProperties

\* A receiver is sent messages of its own room only, also when inserts into the
\* map have raced and iterators have been torn.
THEOREM RoomsAreSeparate == Spec => []OnlyOwnRoom
<1>1. IInv => OnlyOwnRoom
  <2> SUFFICES ASSUME IInv, NEW r \in Receivers, NEW i \in DOMAIN Stream(r), Stream(r)[i] \in Messages
               PROVE  Stream(r)[i][2] = want[r]
    BY DEF OnlyOwnRoom
  <2>1. Stream(r)[i] \in Allowed(r)
    BY StreamIs, ElementOfSeq
  <2> QED
    BY <2>1, AnswersAreNotMessages DEF Allowed
<1> QED
  BY <1>1, Invariance, PTL

\* The messages of a sender reach the socket of every receiver in the order of its
\* broadcasts, however they overlap.
THEOREM OrderIsKept == Spec => []SenderOrderKept
<1>1. IInv => SenderOrderKept
  BY StreamIs DEF SenderOrderKept, Ordered, Precedes
<1> QED
  BY <1>1, Invariance, PTL

-----------------------------------------------------------------------------
(* Copies of a message *)

\* Where a message is in a sequence.
Hits(m, q) == {i \in DOMAIN q : q[i] = m}

\* A sequence has a number of copies of a message.
LEMMA CopiesIs ==
  ASSUME NEW q \in Seq(Sendable), NEW m
  PROVE  /\ IsFiniteSet(Hits(m, q)) /\ Cardinality(Hits(m, q)) \in Nat
         /\ Copies(m, q) = Cardinality(Hits(m, q))
         /\ Hits(m, q) = {i \in 1 .. Len(q) : q[i] = m}
<1>1. Len(q) \in Nat /\ DOMAIN q = 1 .. Len(q)
  BY LenProperties
<1>2. IsFiniteSet(1 .. Len(q))
  BY <1>1, FS_Interval
<1>3. Hits(m, q) = {i \in 1 .. Len(q) : q[i] = m}
  BY <1>1 DEF Hits
<1>4. IsFiniteSet(Hits(m, q))
  BY <1>2, <1>3, FS_Subset
<1> QED
  BY <1>3, <1>4, FS_CardinalityType DEF Copies, Hits

\* The copies in two sequences add up when they are joined.
LEMMA CopiesConcat ==
  ASSUME NEW p \in Seq(Sendable), NEW q \in Seq(Sendable), NEW m
  PROVE  Copies(m, p \o q) = Copies(m, p) + Copies(m, q)
<1> DEFINE n == Len(p)
           P == Hits(m, p)
           Q == Hits(m, q)
           R == {i \in n + 1 .. n + Len(q) : q[i - n] = m}
           f == [i \in Q |-> i + n]
<1>1. /\ n \in Nat /\ Len(q) \in Nat /\ p \o q \in Seq(Sendable)
      /\ Len(p \o q) = n + Len(q)
      /\ \A i \in 1 .. n + Len(q) : (p \o q)[i] = IF i <= n THEN p[i] ELSE q[i - n]
  BY LenProperties, ConcatProperties
<1>2. /\ P = {i \in 1 .. n : p[i] = m}
      /\ Q = {i \in 1 .. Len(q) : q[i] = m}
      /\ Hits(m, p \o q) = {i \in 1 .. n + Len(q) : (p \o q)[i] = m}
      /\ IsFiniteSet(P) /\ IsFiniteSet(Q)
      /\ Cardinality(P) \in Nat /\ Cardinality(Q) \in Nat
  BY <1>1, CopiesIs
<1> HIDE DEF n, P, Q
<1>3. Hits(m, p \o q) = P \cup R /\ P \cap R = {}
  BY <1>1, <1>2
<1>4. f \in Bijection(Q, R)
  <2>1. f \in [Q -> R]
    BY <1>1, <1>2
  <2>2. \A i, j \in Q : f[i] = f[j] => i = j
    BY <1>1, <1>2
  <2>3. ASSUME NEW j \in R PROVE \E i \in Q : f[i] = j
    <3>1. j - n \in Q /\ (j - n) + n = j
      BY <1>1, <1>2
    <3> QED
      BY <3>1
  <2> HIDE DEF f, R
  <2> QED
    BY <2>1, <2>2, <2>3 DEF Bijection, Injection, Surjection, IsInjective
<1> HIDE DEF f, R
<1>5. IsFiniteSet(R) /\ Cardinality(R) = Cardinality(Q)
  BY <1>2, <1>4, FS_Bijection DEF ExistsBijection
<1>6. Cardinality(P \cup R) = Cardinality(P) + Cardinality(R) - Cardinality(P \cap R)
  BY <1>2, <1>5, FS_Union
<1>7. Cardinality(P \cap R) = 0
  BY <1>3, FS_EmptySet
<1>8. /\ Copies(m, p) = Cardinality(P) /\ Copies(m, q) = Cardinality(Q)
      /\ Copies(m, p \o q) = Cardinality(Hits(m, p \o q))
  BY <1>1, CopiesIs DEF P, Q
<1> QED
  BY <1>2, <1>3, <1>5, <1>6, <1>7, <1>8

\* Of nothing, and of one message.
LEMMA CopiesOfOne ==
  ASSUME NEW x \in Sendable, NEW m
  PROVE  Copies(m, <<>>) = 0 /\ Copies(m, <<x>>) = IF x = m THEN 1 ELSE 0
<1>1. <<>> \in Seq(Sendable) /\ Len(<<>>) = 0
  BY EmptySeq
<1>2. <<x>> \in Seq(Sendable) /\ Len(<<x>>) = 1 /\ <<x>>[1] = x
  OBVIOUS
<1>3. Hits(m, <<>>) = {}
  <2>1. Hits(m, <<>>) = {i \in 1 .. Len(<<>>) : <<>>[i] = m}
    BY <1>1, CopiesIs
  <2> QED
    BY <1>1, <2>1
<1>4. Hits(m, <<x>>) = IF x = m THEN {1} ELSE {}
  <2>1. Hits(m, <<x>>) = {i \in 1 .. 1 : <<x>>[i] = m}
    BY <1>2, CopiesIs
  <2> QED
    BY <1>2, <2>1
<1>5. /\ Copies(m, <<>>) = Cardinality(Hits(m, <<>>))
      /\ Copies(m, <<x>>) = Cardinality(Hits(m, <<x>>))
  BY <1>1, <1>2, CopiesIs
<1>6. Cardinality({}) = 0 /\ Cardinality({1}) = 1
  BY FS_EmptySet, FS_Singleton
<1> QED
  BY <1>3, <1>4, <1>5, <1>6

\* One more when it is appended ...
LEMMA CopiesAppend ==
  ASSUME NEW q \in Seq(Sendable), NEW x \in Sendable, NEW m
  PROVE  Copies(m, Append(q, x)) = Copies(m, q) + (IF x = m THEN 1 ELSE 0)
<1>1. Append(q, x) = q \o <<x>> /\ <<x>> \in Seq(Sendable)
  BY AppendIsConcat
<1>2. Copies(m, q \o <<x>>) = Copies(m, q) + Copies(m, <<x>>)
  BY <1>1, CopiesConcat
<1> QED
  BY <1>1, <1>2, CopiesOfOne

\* ... and those of a queue are in its head and its tail.
LEMMA CopiesTail ==
  ASSUME NEW q \in Seq(Sendable), q # <<>>, NEW m
  PROVE  Copies(m, q) = Copies(m, <<Head(q)>>) + Copies(m, Tail(q))
<1>1. /\ Head(q) \in Sendable /\ Tail(q) \in Seq(Sendable)
      /\ Len(Tail(q)) = Len(q) - 1 /\ Len(q) \in Nat \ {0} /\ Head(q) = q[1]
      /\ \A i \in 1 .. Len(Tail(q)) : Tail(q)[i] = q[i + 1]
  BY HeadTailProperties, LenProperties, EmptySeq
<1> DEFINE h == <<Head(q)>>
           t == Tail(q)
<1>2. /\ h \in Seq(Sendable) /\ Len(h) = 1 /\ h[1] = Head(q)
      /\ t \in Seq(Sendable) /\ Len(t) \in Nat
  BY <1>1
<1> HIDE DEF h, t
<1>3. /\ h \o t \in Seq(Sendable) /\ Len(h \o t) = 1 + Len(t)
      /\ \A i \in 1 .. 1 + Len(t) : (h \o t)[i] = IF i <= 1 THEN h[i] ELSE t[i - 1]
  <2>1. /\ h \o t \in Seq(Sendable) /\ Len(h \o t) = Len(h) + Len(t)
        /\ \A i \in 1 .. Len(h) + Len(t) : (h \o t)[i] = IF i <= Len(h) THEN h[i] ELSE t[i - Len(h)]
    BY <1>2, ConcatProperties
  <2> QED
    BY <1>2, <2>1
<1>4. q = h \o t
  <2>1. \A i \in 1 .. Len(q) : q[i] = (h \o t)[i]
    <3> SUFFICES ASSUME NEW i \in 1 .. Len(q) PROVE q[i] = (h \o t)[i]
      OBVIOUS
    <3>1. CASE i = 1
      BY <1>1, <1>2, <1>3, <3>1 DEF t
    <3>2. CASE i # 1
      <4>1. i - 1 \in 1 .. Len(t) /\ (i - 1) + 1 = i
        BY <1>1, <3>2 DEF t
      <4>2. t[i - 1] = q[i]
        BY <1>1, <4>1 DEF t
      <4> QED
        BY <1>1, <1>3, <3>2, <4>1, <4>2 DEF t
    <3> QED BY <3>1, <3>2
  <2> QED
    BY <1>1, <1>3, <2>1, SeqEqual DEF t
<1>5. Copies(m, h \o t) = Copies(m, h) + Copies(m, t)
  BY <1>2, CopiesConcat
<1> QED
  BY <1>4, <1>5 DEF h, t

-----------------------------------------------------------------------------
(* Whom a broadcast has reached *)

\* The copies of a message on their way to a receiver.
Count(m, r) == Copies(m, sent[r]) + Copies(m, hand[r]) + Copies(m, mqueue[r])

\* The iterator of sender s is past receiver r: its queue has the message.
Passed(s, r) == r < cursor[s] \/ (r = cursor[s] /\ pc[s] = "walk")

\* The broadcast of sender s has one copy of its message on its way to, or at,
\* every receiver that it has passed, and none for those which are still to come.
ReachedBy(s) ==
  /\ audience[s] \subseteq rooms[cur_room[s]].members
  /\ \A r \in audience[s] \cap alive :
       Count(msg[s][1], r) = IF Passed(s, r) THEN 1 ELSE 0

\* So it is of every broadcast that is not torn.
Reached == \A s \in Senders : (pc[s] \in Walking /\ s \notin torn) => ReachedBy(s)

\* NextMember is the least member after an iterator; at the end, there is none.
LEMMA NextMemberLeast ==
  ASSUME NEW members \in SUBSET Receivers, NEW i \in Receivers \cup {0}, NEW r \in members
  PROVE  LET n == NextMember(members, i)
         IN r <= i <=> (n = 0 \/ r < n)
<1> DEFINE later == {q \in members : q > i}
           n == NextMember(members, i)
<1>1. members \subseteq Nat \ {0} /\ i \in Nat /\ r \in Nat \ {0}
  BY ServerAssumption
<1>2. CASE later = {}
  BY <1>1, <1>2 DEF NextMember
<1>3. CASE later # {}
  <2>1. later \subseteq Nat
    BY <1>1
  <2>2. PICK j \in later : \A k \in later : ~(<<k, j>> \in OpToRel(<, Nat))
    BY <1>3, <2>1, NatLessThanWellFounded, WFMin, Zenon
  <2>3. \A k \in later : ~(k < j)
    BY <2>1, <2>2, Zenon DEF OpToRel
  <2>4. \E k \in later : \A q \in later : k <= q
    BY <2>1, <2>3
  <2>5. n \in later /\ \A q \in later : n <= q
    BY <1>3, <2>4 DEF NextMember
  <2> HIDE DEF n
  <2>6. n \in Nat \ {0} /\ n > i /\ (r > i => n <= r)
    BY <1>1, <2>5
  <2>7. r <= i <=> (n = 0 \/ r < n)
    BY <1>1, <2>6
  <2> QED
    BY <2>7 DEF n
<1> QED
  BY <1>2, <1>3

\* A client that is gone does not come back.
LEMMA AliveShrinks ==
  ASSUME Next
  PROVE  alive' \subseteq alive
<1>1. ASSUME NEW w \in Workers, InsertStep(w) PROVE alive' \subseteq alive
  BY <1>1 DEF InsertStep, FindRoom, CreateRoom, CrashInMap
<1>2. ASSUME ClientStep PROVE alive' \subseteq alive
  BY <1>2 DEF ClientStep, Login, LoginRefused, LoginFails, Join, Leave, Sendall,
              Quit, Refuse, Read, Hangup
<1>3. ASSUME NEW s \in Senders, SenderStep(s) PROVE alive' \subseteq alive
  BY <1>1, <1>3 DEF SenderStep, Advance, Enqueue, Finish, Workers
<1>4. ASSUME NEW r \in Receivers, ReceiverStep(r) PROVE alive' \subseteq alive
  BY <1>1, <1>4 DEF ReceiverStep, LockRoom, AddMember, Confirm, Dequeue, Deliver, Workers
<1> QED
  BY <1>2, <1>3, <1>4 DEF Next

\* Members stay members.
LEMMA MembersGrow ==
  ASSUME TypeOK, Placed, Next, NEW k \in DOMAIN rooms
  PROVE  rooms[k].members \subseteq rooms'[k].members
<1>1. CASE UNCHANGED rooms
  BY <1>1
<1>2. ASSUME NEW w \in Workers, CreateRoom(w)
      PROVE  rooms[k].members \subseteq rooms'[k].members
  BY <1>2, CreateRoomIs
<1>3. ASSUME NEW r \in Receivers, LockRoom(r) \/ AddMember(r)
      PROVE  rooms[k].members \subseteq rooms'[k].members
  BY <1>3, AddMemberIs
<1> QED
  BY <1>1, <1>2, <1>3, Frames DEF ChatFrame, FindRoom, Leave, Quit

\* A broadcast is changed by its sender only.
LEMMA WalkKept ==
  ASSUME TypeOK, Next, NEW s \in Senders, ~Sendall(s), ~Advance(s), ~Finish(s)
  PROVE  /\ cursor'[s] = cursor[s] /\ msg'[s] = msg[s] /\ audience'[s] = audience[s]
         /\ s \in torn' <=> s \in torn
<1>1. /\ cursor \in [Senders -> Receivers \cup {0}]
      /\ msg \in [Senders -> Seq(Messages)]
      /\ audience \in [Senders -> SUBSET Receivers]
  BY DEF TypeOK
<1> QED
  BY <1>1, Frames DEF WalkFrame, Sendall, Advance, Finish, Join

\* What is on its way to a receiver is what Copies counts.
LEMMA PipesAre ==
  ASSUME TypeOK, NEW r \in Receivers
  PROVE  /\ sent[r] \in Seq(Sendable) /\ hand[r] \in Seq(Sendable)
         /\ mqueue[r] \in Seq(Sendable)
<1>1. Messages \subseteq Sendable
  BY DEF Sendable
<1> QED
  BY <1>1, SeqMonotonic DEF TypeOK, Sendable

\* Counts are numbers.
LEMMA CopiesNat ==
  ASSUME NEW q \in Seq(Sendable), NEW m
  PROVE  Copies(m, q) \in Nat
BY CopiesIs

\* On the way from a queue to the socket no copy is made, and none is lost while
\* the client is there; only a broadcast adds one.
LEMMA CountKept ==
  ASSUME TypeOK, InHand, Next, NEW r \in Receivers, r \in alive', NEW m \in Messages,
         \A s \in Senders : Enqueue(s) => cursor[s] # r
  PROVE  Count(m, r)' = Count(m, r)
<1>1. /\ sent \in [Receivers -> Seq(Messages \cup {Ok, Err})]
      /\ hand \in [Receivers -> Seq(Messages)]
      /\ mqueue \in [Receivers -> Seq(Messages)]
      /\ r \in alive
  BY AliveShrinks DEF TypeOK
<1>2. /\ sent[r] \in Seq(Sendable) /\ hand[r] \in Seq(Sendable)
      /\ mqueue[r] \in Seq(Sendable)
  BY PipesAre
<1>3. /\ Copies(m, sent[r]) \in Nat /\ Copies(m, hand[r]) \in Nat
      /\ Copies(m, mqueue[r]) \in Nat
  BY <1>2, CopiesNat
<1>4. SUFFICES Copies(m, sent'[r]) + Copies(m, hand'[r]) + Copies(m, mqueue'[r])
                 = Copies(m, sent[r]) + Copies(m, hand[r]) + Copies(m, mqueue[r])
  BY DEF Count
<1>5. ASSUME NEW x \in Sendable, Write(r, x)
      PROVE  Copies(m, sent'[r]) = Copies(m, sent[r]) + (IF x = m THEN 1 ELSE 0)
  <2>1. sent'[r] = Append(sent[r], x)
    BY <1>1, <1>5 DEF Write
  <2> QED
    BY <1>2, <2>1, CopiesAppend
<1>6. CASE sent'[r] = sent[r] /\ hand'[r] = hand[r] /\ mqueue'[r] = mqueue[r]
  BY <1>6
<1>7. CASE Login(r) \/ LoginRefused(r) \/ Refuse(r) \/ Confirm(r)
  <2>1. PICK x \in {Ok, Err} : Write(r, x)
    BY <1>7 DEF Login, LoginRefused, Refuse, Confirm
  <2>2. x \in Sendable /\ x # m
    BY <2>1, AnswersAreNotMessages DEF Sendable
  <2>3. Copies(m, sent'[r]) = Copies(m, sent[r])
    BY <1>3, <1>5, <2>1, <2>2
  <2>4. hand' = hand /\ mqueue' = mqueue
    BY <1>7 DEF Login, LoginRefused, Refuse, Confirm
  <2> QED
    BY <2>3, <2>4
<1>8. CASE Deliver(r)
  <2> DEFINE x == Head(hand[r])
  <2>1. hand[r] = <<x>> /\ x \in Sendable
    <3>1. Len(hand[r]) = 1
      BY <1>8 DEF Deliver, Runs, InHand
    <3> QED
      BY <1>2, <3>1
  <2>2. Write(r, x) /\ hand'[r] = <<>> /\ mqueue' = mqueue
    BY <1>1, <1>8 DEF Deliver
  <2> HIDE DEF x
  <2>3. Copies(m, <<>>) = 0 /\ Copies(m, <<x>>) = IF x = m THEN 1 ELSE 0
    BY <2>1, CopiesOfOne
  <2>4. Copies(m, sent'[r]) = Copies(m, sent[r]) + (IF x = m THEN 1 ELSE 0)
    BY <1>5, <2>1, <2>2
  <2>5. /\ Copies(m, hand[r]) = IF x = m THEN 1 ELSE 0
        /\ Copies(m, hand'[r]) = 0 /\ mqueue'[r] = mqueue[r]
    BY <2>1, <2>2, <2>3
  <2> QED
    BY <1>3, <2>4, <2>5
<1>9. CASE Dequeue(r)
  <2>1. /\ hand[r] = <<>> /\ hand'[r] = <<Head(mqueue[r])>> /\ sent' = sent
        /\ mqueue'[r] = Tail(mqueue[r]) /\ mqueue[r] # <<>>
    BY <1>1, <1>9 DEF Dequeue, Runs, InHand
  <2>2. Copies(m, mqueue[r]) = Copies(m, <<Head(mqueue[r])>>) + Copies(m, Tail(mqueue[r]))
    BY <1>2, <2>1, CopiesTail
  <2>3. Copies(m, hand[r]) = 0
    BY <2>1, CopiesOfOne DEF Sendable
  <2>4. Copies(m, <<Head(mqueue[r])>>) \in Nat /\ Copies(m, Tail(mqueue[r])) \in Nat
    <3>1. Head(mqueue[r]) \in Sendable /\ Tail(mqueue[r]) \in Seq(Sendable)
      BY <1>2, <2>1, HeadTailProperties
    <3>2. <<Head(mqueue[r])>> \in Seq(Sendable)
      BY <3>1
    <3> QED
      BY <3>1, <3>2, CopiesNat
  <2> QED
    BY <1>3, <2>1, <2>2, <2>3, <2>4
<1>10. ASSUME NEW s \in Senders, Enqueue(s)
       PROVE  sent'[r] = sent[r] /\ hand'[r] = hand[r] /\ mqueue'[r] = mqueue[r]
  BY <1>1, <1>10 DEF Enqueue
<1>11. ASSUME NEW q \in Receivers, q # r,
              Login(q) \/ LoginRefused(q) \/ Refuse(q) \/ Confirm(q) \/ Deliver(q) \/ Dequeue(q)
       PROVE  sent'[r] = sent[r] /\ hand'[r] = hand[r] /\ mqueue'[r] = mqueue[r]
  BY <1>1, <1>11 DEF Login, LoginRefused, Refuse, Confirm, Deliver, Dequeue, Write
<1> QED
  BY <1>6, <1>7, <1>8, <1>9, <1>10, <1>11, Frames DEF PipeFrame, pipe, Read

\* The broadcast that has come to a receiver adds one copy of its message.
LEMMA CountEnqueued ==
  ASSUME TypeOK, Placed, Posted, NEW s \in Senders, Enqueue(s), NEW m
  PROVE  Count(m, cursor[s])' = Count(m, cursor[s]) + (IF msg[s][1] = m THEN 1 ELSE 0)
<1>1. PICK r \in Receivers : r = cursor[s]
  BY MessageAllowed
<1>2. /\ sent[r] \in Seq(Sendable) /\ hand[r] \in Seq(Sendable)
      /\ mqueue[r] \in Seq(Sendable)
  BY PipesAre
<1>3. /\ Copies(m, sent[r]) \in Nat /\ Copies(m, hand[r]) \in Nat
      /\ Copies(m, mqueue[r]) \in Nat
  BY <1>2, CopiesNat
<1>4. mqueue'[r] = Append(mqueue[r], msg[s][1]) /\ msg[s][1] \in Sendable
  BY <1>1, MessageAllowed DEF TypeOK, Sendable
<1>5. Copies(m, mqueue'[r]) = Copies(m, mqueue[r]) + (IF msg[s][1] = m THEN 1 ELSE 0)
  BY <1>2, <1>4, CopiesAppend
<1>6. sent' = sent /\ hand' = hand /\ cursor' = cursor
  BY DEF Enqueue, walk
<1> QED
  BY <1>1, <1>3, <1>5, <1>6 DEF Count

\* What is not allowed to a receiver is not on its way.
LEMMA CountOfNew ==
  ASSUME TypeOK, Carried, NEW r \in Receivers, NEW m, m \notin Allowed(r)
  PROVE  Count(m, r) = 0
<1>1. ASSUME NEW q \in Seq(Sendable), q \in Seq(Allowed(r))
      PROVE  Copies(m, q) = 0
  <2>1. \A i \in 1 .. Len(q) : q[i] \in Allowed(r)
    BY <1>1, ElementOfSeq
  <2>2. Hits(m, q) = {}
    BY <2>1, CopiesIs
  <2> QED
    BY <2>2, CopiesIs, FS_EmptySet
<1>2. /\ Copies(m, sent[r]) = 0 /\ Copies(m, hand[r]) = 0
      /\ Copies(m, mqueue[r]) = 0
  BY <1>1, PipesAre DEF Carried
<1> QED
  BY <1>2 DEF Count

\* The message of a broadcast.
LEMMA OwnMessage ==
  ASSUME TypeOK, Placed, Posted, NEW s \in Senders, pc[s] \in Walking
  PROVE  msg[s][1] \in Messages /\ msg[s][1][3] = s
<1>1. cur_room[s] # 0
  BY DEF Placed
<1>2. rooms[cur_room[s]] \in Room
  BY <1>1, LandingsAre
<1>3. NameOf(s) \in RoomNames
  BY <1>2 DEF Room, NameOf
<1> QED
  BY <1>3, LastIs

\* A broadcast begins: nothing has its message.
LEMMA ReachedAtStart ==
  ASSUME IInv, Next, NEW s \in Senders, Sendall(s)
  PROVE  ReachedBy(s)'
<1> USE DEF Goto, Runs
<1>1. /\ TypeOK /\ Placed /\ Posted /\ Carried
      /\ pc \in [Workers -> SenderSteps \cup ReceiverSteps] /\ s \in Workers
      /\ msg \in [Senders -> Seq(Messages)] /\ audience \in [Senders -> SUBSET Receivers]
  BY DEF IInv, TypeOK, Workers
<1>2. nsends \in Nat
  BY <1>1, SendsGrow
<1>3. /\ pc[s] = "ready" /\ pc'[s] = "walk" /\ cursor' = cursor /\ cursor[s] = 0
      /\ audience'[s] = rooms[cur_room[s]].members
      /\ rooms' = rooms /\ cur_room' = cur_room /\ alive' = alive
      /\ UNCHANGED <<sent, hand, mqueue>> /\ nsends' = nsends + 1
  BY <1>1 DEF Sendall, Posted, Walking, chat, pipe
<1>4. msg'[s] = <<Delivery(NameOf(s), s, nsends')>>
  BY <1>1 DEF Sendall, NameOf
<1>5. msg'[s][1][4] = nsends + 1 /\ msg'[s][1][3] = s
  <2>1. msg'[s][1] = Delivery(NameOf(s), s, nsends')
    <3> HIDE DEF Delivery
    <3> QED BY <1>4
  <2> QED
    BY <1>3, <2>1 DEF Delivery
<1>6. PICK m : m = msg'[s][1]
  OBVIOUS
<1>7. \A r \in Receivers : m \notin Allowed(r)
  <2>1. Last(s) = nsends
    BY <1>3 DEF Last, Walking
  <2>2. m[3] = s /\ m[4] = nsends + 1
    BY <1>5, <1>6
  <2>3. m \notin {Ok, Err}
    <3>1. msg'[s][1] \in Messages
      <4>1. msg' \in [Senders -> Seq(Messages)]
        BY WalkStep DEF IInv, WalkTypes
      <4>2. Len(msg'[s]) = 1
        BY <1>4 DEF Delivery
      <4>3. msg'[s] \in Seq(Messages) /\ 1 \in 1 .. Len(msg'[s])
        BY <4>1, <4>2
      <4> HIDE DEF Messages
      <4> QED
        BY <4>3, ElementOfSeq
    <3> QED
      BY <1>6, <3>1, AnswersAreNotMessages
  <2> QED
    BY <1>1, <1>2, <2>1, <2>2, <2>3 DEF Allowed
<1>8. \A r \in Receivers : Count(m, r) = 0
  BY <1>1, <1>7, CountOfNew
<1>9. \A r \in Receivers : Count(m, r)' = 0
  BY <1>3, <1>8 DEF Count
<1>10. \A r \in Receivers : ~Passed(s, r)'
  BY <1>3, ServerAssumption DEF Passed
<1> QED
  BY <1>1, <1>3, <1>6, <1>9, <1>10 DEF ReachedBy, TypeOK

\* It goes on to the next member: none is left out.
LEMMA ReachedAdvance ==
  ASSUME IInv, Next, NEW s \in Senders, Advance(s), s \notin torn', ReachedBy(s)
  PROVE  ReachedBy(s)'
<1> USE DEF Goto, Runs
<1>1. /\ TypeOK /\ Placed
      /\ pc \in [Workers -> SenderSteps \cup ReceiverSteps] /\ s \in Workers
      /\ cursor \in [Senders -> Receivers \cup {0}]
      /\ audience \in [Senders -> SUBSET Receivers]
  BY DEF IInv, TypeOK, Workers
<1>2. /\ pc[s] = "walk" /\ pc'[s] = "enqueue" /\ alive' = alive
      /\ rooms' = rooms /\ cur_room' = cur_room
      /\ msg' = msg /\ audience' = audience
      /\ UNCHANGED <<sent, hand, mqueue>>
      /\ ~Overlaps(s) /\ cursor'[s] \in Landings(s) \ {0}
  BY <1>1 DEF Advance, chat, pipe
<1>3. rooms[cur_room[s]].members \in SUBSET Receivers
  <2>1. cur_room[s] # 0
    BY <1>1, <1>2 DEF Placed, Walking
  <2> QED
    BY <1>1, <2>1, LandingsAre DEF Room
<1>4. cursor'[s] = NextMember(rooms[cur_room[s]].members, cursor[s]) /\ cursor'[s] # 0
  BY <1>2 DEF Landings
<1>5. ASSUME NEW r \in audience[s]
      PROVE  Passed(s, r)' <=> Passed(s, r)
  <2>1. r \in rooms[cur_room[s]].members /\ cursor[s] \in Receivers \cup {0}
    BY <1>1 DEF ReachedBy
  <2>2. r <= cursor[s] <=> r < cursor'[s]
    BY <1>3, <1>4, <2>1, NextMemberLeast
  <2>3. r \in Nat /\ cursor[s] \in Nat
    <3>1. r \in Receivers
      BY <1>3, <2>1
    <3>2. Receivers \subseteq Nat
      BY ServerAssumption
    <3>3. cursor[s] \in Nat
      <4>1. Receivers \cup {0} \subseteq Nat
        BY <3>2
      <4> QED
        BY <2>1, <4>1, Zenon
    <3> QED
      BY <3>1, <3>2, <3>3
  <2> QED
    BY <1>2, <2>2, <2>3 DEF Passed
<1>6. \A m, r : Count(m, r)' = Count(m, r)
  BY <1>2 DEF Count
<1> QED
  BY <1>2, <1>5, <1>6 DEF ReachedBy

\* The queue of the member takes the message: it has been passed.
LEMMA ReachedEnqueue ==
  ASSUME IInv, Next, NEW s \in Senders, Enqueue(s), ReachedBy(s)
  PROVE  ReachedBy(s)'
<1> USE DEF Goto, Runs
<1>1. /\ TypeOK /\ Placed /\ Posted /\ InHand
      /\ pc \in [Workers -> SenderSteps \cup ReceiverSteps] /\ s \in Workers
      /\ audience \in [Senders -> SUBSET Receivers]
      /\ mqueue \in [Receivers -> Seq(Messages)]
  BY DEF IInv, TypeOK, Workers
<1>2. /\ pc[s] = "enqueue" /\ pc'[s] = "walk" /\ alive' = alive
      /\ rooms' = rooms /\ cur_room' = cur_room /\ cursor' = cursor
      /\ msg' = msg /\ audience' = audience
      /\ UNCHANGED <<sent, hand>>
  BY <1>1 DEF Enqueue, chat, walk
<1>3. PICK m : m = msg[s][1]
  OBVIOUS
<1>4. ASSUME NEW r \in audience[s] \cap alive
      PROVE  Count(m, r)' = (IF Passed(s, r)' THEN 1 ELSE 0)
  <2>1. r \in Receivers /\ r \in Nat /\ cursor[s] \in Nat
    BY <1>1, ServerAssumption, MessageAllowed
  <2>2. Count(m, r) = (IF Passed(s, r) THEN 1 ELSE 0)
    BY <1>3 DEF ReachedBy
  <2>3. CASE r = cursor[s]
    <3>1. Count(m, cursor[s])' = Count(m, cursor[s]) + (IF msg[s][1] = m THEN 1 ELSE 0)
      BY <1>1, CountEnqueued
    <3>2. Count(m, r)' = Count(m, r) + 1
      BY <1>2, <1>3, <2>3, <3>1 DEF Count
    <3> QED
      BY <1>2, <2>1, <2>2, <2>3, <3>2 DEF Passed
  <2>4. CASE r # cursor[s]
    <3>1. Count(m, r)' = Count(m, r)
      BY <1>1, <1>2, <2>1, <2>4 DEF Count, Enqueue
    <3> QED
      BY <1>2, <2>1, <2>2, <2>4, <3>1 DEF Passed
  <2> QED
    BY <2>3, <2>4
<1> QED
  BY <1>2, <1>3, <1>4 DEF ReachedBy

\* What others do makes no copy of its message.
LEMMA ReachedStays ==
  ASSUME IInv, Next, NEW s \in Senders, pc[s] \in Walking, pc'[s] = pc[s],
         cur_room'[s] = cur_room[s], cursor'[s] = cursor[s], msg'[s] = msg[s],
         audience'[s] = audience[s], ~Enqueue(s), ReachedBy(s)
  PROVE  ReachedBy(s)'
<1>1. TypeOK /\ Placed /\ Posted /\ InHand /\ s \in Workers
      /\ audience \in [Senders -> SUBSET Receivers]
  BY DEF IInv, TypeOK, Workers
<1>2. PICK m : m = msg[s][1]
  OBVIOUS
<1>3. m \in Messages /\ m[3] = s
  BY <1>1, <1>2, OwnMessage
<1>4. rooms[cur_room[s]].members \subseteq rooms'[cur_room[s]].members
  BY <1>1, Held, MembersGrow DEF Placed
<1>5. ASSUME NEW r \in Receivers, r \in alive'
      PROVE  Count(m, r)' = Count(m, r)
  <2>1. ASSUME NEW t \in Senders, Enqueue(t), cursor[t] = r
        PROVE  Count(m, r)' = Count(m, r)
    <3>1. pc[t] \in Walking /\ t # s /\ cursor' = cursor
      BY <2>1 DEF Enqueue, Runs, Walking, walk
    <3>2. msg[t][1] # m
      BY <1>1, <1>3, <3>1, OwnMessage
    <3>3. Count(m, cursor[t])' = Count(m, cursor[t]) + (IF msg[t][1] = m THEN 1 ELSE 0)
      BY <1>1, <2>1, CountEnqueued
    <3>4. Count(m, r) \in Nat
      BY <1>1, PipesAre, CopiesNat DEF Count
    <3>5. Count(m, r)' = Count(m, r) + (IF msg[t][1] = m THEN 1 ELSE 0)
      BY <2>1, <3>1, <3>3 DEF Count
    <3> QED
      BY <3>2, <3>4, <3>5
  <2>2. CASE \A t \in Senders : Enqueue(t) => cursor[t] # r
    BY <1>1, <1>3, <1>5, <2>2, CountKept
  <2> QED
    BY <2>1, <2>2
<1>6. \A r : Passed(s, r)' <=> Passed(s, r)
  BY DEF Passed
<1>7. audience[s] \subseteq Receivers /\ alive' \subseteq alive
  BY <1>1, AliveShrinks
<1> QED
  BY <1>2, <1>4, <1>5, <1>6, <1>7 DEF ReachedBy

\* Every step keeps Reached.
LEMMA ReachedStep ==
  ASSUME IInv, Reached, Next
  PROVE  Reached'
<1> USE DEF Goto, Runs
<1>1. /\ TypeOK
      /\ pc \in [Workers -> SenderSteps \cup ReceiverSteps] /\ Senders \subseteq Workers
      /\ cursor \in [Senders -> Receivers \cup {0}]
      /\ Senders \cap Receivers = {}
  BY ServerAssumption DEF IInv, TypeOK, Workers
<1>2. SUFFICES ASSUME NEW s \in Senders, pc'[s] \in Walking, s \notin torn'
               PROVE  ReachedBy(s)'
  BY DEF Reached
<1>3. pc[s] \in Walking /\ s \notin torn => ReachedBy(s)
  BY DEF Reached
<1>4. CASE Sendall(s)
  BY <1>4, ReachedAtStart
<1>5. CASE Advance(s)
  <2>1. pc[s] \in Walking /\ s \notin torn
    BY <1>2, <1>5 DEF Advance, Walking
  <2> QED
    BY <1>2, <1>3, <1>5, <2>1, ReachedAdvance
<1>6. CASE Enqueue(s)
  <2>1. pc[s] \in Walking /\ s \notin torn
    BY <1>2, <1>6 DEF Enqueue, Walking, walk
  <2> QED
    BY <1>3, <1>6, <2>1, ReachedEnqueue
<1>7. CASE ~Sendall(s) /\ ~Advance(s) /\ ~Enqueue(s)
  <2>1. ~Finish(s)
    BY <1>1, <1>2 DEF Finish, Walking
  <2>2. pc'[s] = pc[s] /\ cur_room'[s] = cur_room[s]
    BY <1>1, <1>2, <1>7, <2>1, SenderPcIs DEF SenderPc, Login, LoginRefused, Leave, Quit,
       FindRoom, CreateRoom, EnterRoom, Join, Walking
  <2>3. /\ cursor'[s] = cursor[s] /\ msg'[s] = msg[s] /\ audience'[s] = audience[s]
        /\ s \in torn' <=> s \in torn
    BY <1>1, <1>7, <2>1, WalkKept
  <2> QED
    BY <1>2, <1>3, <1>7, <2>2, <2>3, ReachedStays
<1> QED
  BY <1>4, <1>5, <1>6, <1>7

\* A broadcast that no rotating insert overlaps reaches every client that was a
\* member when it began, once, unless it has gone.
THEOREM EveryoneIsReached == Spec => BroadcastReachesAll
<1> DEFINE Exact(s) == (Finish(s) /\ s \notin torn /\ ~Overlaps(s)) =>
             \A r \in audience[s] \cap alive : Copies(msg[s][1], Stream(r)) = 1
<1>1. Init => Reached
  BY DEF Init, Reached, Walking, Workers
<1>2. IInv /\ Reached /\ [Next]_vars => Reached'
  <2> SUFFICES ASSUME IInv, Reached, [Next]_vars PROVE Reached'
    OBVIOUS
  <2>1. CASE Next
    BY <2>1, ReachedStep
  <2>2. CASE UNCHANGED vars
    BY <2>2 DEF vars, chat, walk, pipe, Reached, ReachedBy, Count, Passed
  <2> QED
    BY <2>1, <2>2
<1>3. ASSUME IInv, Reached, NEW s \in Senders
      PROVE  Exact(s)
  <2> SUFFICES ASSUME Finish(s), s \notin torn, ~Overlaps(s), NEW r \in audience[s] \cap alive
               PROVE  Copies(msg[s][1], Stream(r)) = 1
    OBVIOUS
  <2>1. TypeOK /\ Placed /\ pc[s] = "walk" /\ 0 \in Landings(s) /\ r \in Receivers
    BY <1>3 DEF IInv, TypeOK, Finish, Runs
  <2>2. /\ r \in rooms[cur_room[s]].members
        /\ Count(msg[s][1], r) = IF Passed(s, r) THEN 1 ELSE 0
    BY <1>3, <2>1 DEF Reached, ReachedBy, Walking
  <2>3. rooms[cur_room[s]].members \in SUBSET Receivers
    <3>1. cur_room[s] # 0
      BY <2>1 DEF Placed, Walking
    <3> QED
      BY <2>1, <3>1, LandingsAre DEF Room
  <2>4. NextMember(rooms[cur_room[s]].members, cursor[s]) = 0
    BY <2>1 DEF Landings
  <2>5. cursor[s] \in Receivers \cup {0}
    BY <2>1 DEF TypeOK
  <2>6. r <= cursor[s]
    BY <2>2, <2>3, <2>4, <2>5, NextMemberLeast
  <2>7. Passed(s, r)
    BY <2>1, <2>5, <2>6, ServerAssumption DEF Passed
  <2>8. /\ sent[r] \in Seq(Sendable) /\ hand[r] \in Seq(Sendable)
        /\ mqueue[r] \in Seq(Sendable)
    BY <2>1, PipesAre
  <2>9. sent[r] \o hand[r] \in Seq(Sendable)
    BY <2>8, ConcatProperties
  <2>10. Copies(msg[s][1], Stream(r)) = Count(msg[s][1], r)
    <3>1. Copies(msg[s][1], Stream(r))
            = Copies(msg[s][1], sent[r] \o hand[r]) + Copies(msg[s][1], mqueue[r])
      BY <2>8, <2>9, CopiesConcat DEF Stream
    <3>2. Copies(msg[s][1], sent[r] \o hand[r]) = Copies(msg[s][1], sent[r]) + Copies(msg[s][1], hand[r])
      BY <2>8, CopiesConcat
    <3> QED
      BY <3>1, <3>2 DEF Count
  <2> QED
    BY <2>2, <2>7, <2>10
<1>4. IInv /\ Reached => [\A s \in Senders : Exact(s)]_vars
  BY <1>3
<1> HIDE DEF Exact
<1>5. Spec => [][\A s \in Senders : Exact(s)]_vars
  BY <1>1, <1>2, <1>4, Invariance, PTL DEF Spec
<1> QED
  BY <1>5 DEF BroadcastReachesAll, Exact
=============================================================================
