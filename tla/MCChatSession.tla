---------------------------- MODULE MCChatSession ----------------------------
(***************************************************************************)
(* ChatSession for TLC.  Lengths on both sides of the limits: a text of    *)
(* 246 fills a sendall (247 does not fit), and one of 240 makes only its   *)
(* delivery too long; a name of 248 does not fit into a login, and a room  *)
(* name of 241 makes the answer to its join too long.  What is cut off may *)
(* look like a message.                                                    *)
(***************************************************************************)
EXTENDS ChatSession

Payload(id, len, rest) == [id |-> id, len |-> len, rest |-> rest]

Ann      == Payload("ann", 3, Junk)
LongName == Payload("long name", 248, Junk)

Lobby    == Payload("lobby", 5, Junk)
OkRoom   == Payload("ok room", 241, "ok")

Hello    == Payload("hello", 5, Junk)
FakeText == Payload("fake text", 240, "delivery")
FullText == Payload("full text", 246, Junk)
TooLongText == Payload("long text", 247, Junk)

Names == [sender |-> {Ann, LongName}, receiver |-> {Ann}]

Rooms == [sender |-> {Lobby, OkRoom}, receiver |-> {Lobby}]

Lengths == {Hello, FakeText, FullText, TooLongText}

ShortNames == [c \in Clients |-> {Ann}]

ShortRooms == [c \in Clients |-> {Lobby}]

LegalTexts == {Hello, FullText}
=============================================================================
