---------------------------- MODULE MCChatServer ----------------------------
(***************************************************************************)
(* ChatServer for TLC.  Senders and room names are interchangeable, and    *)
(* their permutations a symmetry set, where only safety is checked;        *)
(* receivers are not, because the walk follows their order.                *)
(***************************************************************************)
EXTENDS ChatServer, TLC

Symmetry == Permutations(Senders) \cup Permutations(RoomNames)

(***************************************************************************)
(* Later starting points, for the runs that are about broadcasts and leave *)
(* the rooms alone: everybody has logged in, the senders have joined the   *)
(* one room, and the receivers have read the answer to their login and are *)
(* about to join.  The state is reached when the clients act in that       *)
(* order.                                                                  *)
(***************************************************************************)
TheRoom == CHOOSE n \in RoomNames : TRUE

SendersInRoom ==
  /\ up = TRUE
  /\ pc = [w \in Workers |-> "ready"]
  /\ alive = Receivers
  /\ rooms = <<[room_name |-> TheRoom, lock |-> Nobody, members |-> {}]>>
  /\ m_rooms = [n \in RoomNames |-> IF n = TheRoom THEN 1 ELSE 0]
  /\ want = [w \in Workers |-> IF w \in Senders THEN TheRoom ELSE NoName]
  /\ raced = {} /\ mapRaced = FALSE
  /\ cur_room = [w \in Workers |-> IF w \in Senders THEN 1 ELSE 0]
  /\ in_room = Senders
  /\ cursor = [s \in Senders |-> 0]
  /\ mqueue = [r \in Receivers |-> <<>>]
  /\ hand = [r \in Receivers |-> <<>>]
  /\ sent = [r \in Receivers |-> <<Ok>>]
  /\ nread = [r \in Receivers |-> 1]
  /\ nsends = 0 /\ njoins = MaxJoins
  /\ msg = [s \in Senders |-> <<>>]
  /\ audience = [s \in Senders |-> {}]
  /\ torn = {}

WalkSpec == SendersInRoom /\ [][Next]_vars

FairWalkSpec == SendersInRoom /\ [][Next]_vars /\ Fairness
=============================================================================
