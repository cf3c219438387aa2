------------------------- MODULE ChatSessionProofs -------------------------
(***************************************************************************)
(* The protocol of ChatSession: for all names, rooms and texts, of any     *)
(* lengths, any number of requests and any of the clients killed at any    *)
(* time, a sound session stays in step.                                    *)
(*                                                                         *)
(* The types hold of every session.  Of a sound one the inductive          *)
(* invariant IInv has Talk, which says for each client                     *)
(*                                                                         *)
(*   Ended    an end that was closed is that of a process that has ended;  *)
(*   Wire     what is under way at each place of the client;               *)
(*   Counts   the numbers of requests, done or returned from, are those    *)
(*            of requests that were made, and send has told the truth      *)
(*            unless the server has ended before an answer;                *)
(*   Pending  a request that was not received yet is the only and the      *)
(*            last one, and was not carried out;                           *)
(*   Tagged   what a client asks for is what it may ask for;               *)
(*   Stage    while the server runs, the worker is at the place that its   *)
(*            client takes it to be at, or will be when it has answered;   *)
(*                                                                         *)
(* and of the sender's room, Rooms.                                        *)
(***************************************************************************)
EXTENDS ChatSession, FiniteSetTheorems, SequenceTheorems, TLAPS

Deliveries(s) == \A i \in DOMAIN s : s[i].tag = "delivery"

\* The request of a client that waits for an answer is on its way, or was
\* received and is to be answered (which the server may not live to do), or was
\* answered (what comes behind the answer are deliveries, to a receiver that has
\* joined), or was lost because there was no server any more.
Asked(c) == req[c] = <<out[c]>> /\ ans[c] = <<>> /\ sent[c] \notin done[c]

Acting(c) ==
  /\ wpc[c] = "answer" /\ req[c] = <<>> /\ ans[c] = <<>>
  /\ reply[c].line.request = sent[c]
  /\ reply[c].line.tag = IF sent[c] \in done[c] THEN "ok" ELSE "err"

Answered(c) ==
  /\ req[c] = <<>> /\ ans[c] # <<>>
  /\ Head(ans[c]).request = sent[c]
  /\ Head(ans[c]).tag = IF sent[c] \in done[c] THEN "ok" ELSE "err"
  /\ Tail(ans[c]) # <<>> => c = "receiver" /\ out[c].tag = "join"
  /\ Deliveries(Tail(ans[c]))

Unheard(c) == ~up /\ req[c] = <<>> /\ ans[c] = <<>> /\ sent[c] \notin done[c]

Ended(c) ==
  /\ left[c] # "no" => pc[c] = "gone"
  /\ lost[c] # "no" => ~up
  /\ lost[c] = "closed" => req[c] = <<>>

Wire(c) ==
  /\ pc[c] \in {"start", "login", "join", "input"} => req[c] = <<>> /\ ans[c] = <<>>
  /\ pc[c] = "listen" => req[c] = <<>> /\ Deliveries(ans[c])
  /\ pc[c] = "confirm" => out[c].request = sent[c] 
       /\ (Asked(c) \/ Acting(c) \/ Answered(c) \/ Unheard(c))

Counts(c) ==
  /\ \A k \in done[c] : k <= sent[c]
  /\ outcome[c].request <= sent[c]
  /\ pc[c] = "confirm" => outcome[c].request < sent[c]
  /\ outcome[c].ok => outcome[c].request \in done[c]
  /\ outcome[c].request \in done[c] => outcome[c].ok \/ Interrupted(c)

Pending(c) ==
  req[c] # <<>> =>
    /\ Len(req[c]) = 1 /\ Head(req[c]).request = sent[c]
    /\ sent[c] \notin done[c] /\ outcome[c].request < sent[c]

\* What a client asks for first, and at all.
LoginTag(c) == IF c = "sender" THEN "slogin" ELSE "rlogin"

ReqTags(c) == IF c = "sender" THEN {"slogin", "join", "leave", "sendall", "quit"}
              ELSE {"rlogin", "join"}

Tagged(c) ==
  /\ pc[c] = "confirm" => out[c].tag \in ReqTags(c)
  /\ req[c] # <<>> => Head(req[c]).tag \in ReqTags(c)
  /\ pc[c] \notin (IF c = "sender" THEN {"join", "listen"} ELSE {"input"})

\* Where the worker goes on when it has answered.
GoesOn(c, w) ==
  IF c = "sender"
  THEN w = "chat" \/ (w = "done" /\ out[c].tag = "quit" /\ sent[c] \in done[c])
  ELSE w = IF out[c].tag = "rlogin" THEN "join" ELSE "deliver"

Stage(c) == up =>
  /\ pc[c] = "start"  => wpc[c] = "none"
  /\ pc[c] = "login"  => wpc[c] = "login"
  /\ pc[c] = "join"   => wpc[c] = "join"
  /\ pc[c] = "input"  => wpc[c] = "chat"
  /\ pc[c] = "listen" => wpc[c] = "deliver"
  /\ pc[c] = "confirm" /\ Asked(c) =>
       wpc[c] = IF out[c].tag = LoginTag(c) THEN "login"
                ELSE IF c = "sender" THEN "chat" ELSE "join"
  /\ pc[c] = "confirm" /\ Acting(c) => GoesOn(c, reply[c].next)
  /\ pc[c] = "confirm" /\ Answered(c) => GoesOn(c, wpc[c])

Local(c) == Ended(c) /\ Wire(c) /\ Counts(c) /\ Pending(c) /\ Tagged(c) /\ Stage(c)

\* The in_room of the sender is right, or will be when it has taken the answer
\* that is under way or to come.
Rooms ==
  /\ pc["sender"] \in {"start", "login"} => ~in_room
  /\ wpc["sender"] \in {"none", "login"} => cur_room["sender"] = NoRoom
  /\ up => LET s == "sender" IN
       /\ pc[s] = "input" => (in_room <=> InARoom)
       /\ pc[s] = "confirm" /\ Asked(s) => (in_room <=> InARoom)
       /\ pc[s] = "confirm" /\ Acting(s) =>
            (InRoom(s, out[s], reply[s].line.tag # "err") <=> InARoom)
       /\ pc[s] = "confirm" /\ Answered(s) =>
            (InRoom(s, out[s], Head(ans[s]).tag # "err") <=> InARoom)

Talk == (\A c \in Clients : Local(c)) /\ Rooms

IInv == TypeOK /\ Deliveries(mqueue) /\ (Sound => Talk)

-----------------------------------------------------------------------------

LEMMA LineType ==
  ASSUME NEW tag \in Tags \ {Junk}, NEW data \in Payloads, NEW len \in Nat,
         NEW request \in Nat
  PROVE  Line(tag, data, len, request) \in Lines
<1>1. TagLen[tag] \in Nat
  BY DEF TagLen, Tags
<1> QED
  BY <1>1 DEF Line, Lines, Tags

LEMMA Constants ==
  NoData \in Payloads /\ Bye \in Payloads /\ NoLine \in Lines
<1>1. NoData \in Payloads
  BY DEF Payloads
<1>2. Bye \in Payloads
  BY DEF Payloads
<1>3. NoLine \in Lines
  BY <1>1 DEF NoLine, Lines, Tags, NoData
<1> QED
  BY <1>1, <1>2, <1>3

LEMMA PieceType ==
  ASSUME NEW l \in Lines
  PROVE  Piece(l) \in Lines
BY DEF Piece, TooLong, Lines, MAX_LEN

LEMMA RestType ==
  ASSUME NEW l \in Lines, TooLong(l)
  PROVE  Rest(l) \in Lines
<1>1. l.len - (MAX_LEN - 1) \in Nat
  BY DEF TooLong, Lines, MAX_LEN
<1>2. l.data.rest \in Tags /\ Junk \in Tags
  BY SessionAssumption DEF Lines, Tags
<1> QED
  BY <1>1, <1>2 DEF Rest, Lines

LEMMA RemainderType ==
  ASSUME NEW q \in Seq(Lines), q # <<>>
  PROVE  Remainder(q) \in Seq(Lines)
<1>1. Head(q) \in Lines /\ Tail(q) \in Seq(Lines)
  BY HeadTailProperties
<1>2. CASE TooLong(Head(q))
  <2>1. Rest(Head(q)) \in Lines
    BY <1>1, <1>2, RestType
  <2> QED
    BY <1>1, <1>2, <2>1 DEF Remainder
<1>3. CASE ~TooLong(Head(q))
  BY <1>1, <1>3 DEF Remainder
<1> QED
  BY <1>2, <1>3

Results == {"INVALID_MSG", "SUCCESS", "EOF_OR_ERROR"}

LEMMA ReceivedType ==
  ASSUME NEW q \in Seq(Lines), NEW far \in Ends, NEW old \in Lines,
         NEW r \in Received(q, far, old)
  PROVE  /\ r.result \in Results /\ r.msg \in Lines /\ r.rest \in Seq(Lines)
         /\ r.far \in Ends /\ r.garbled \in BOOLEAN
<1>1. CASE q # <<>>
  <2>1. Head(q) \in Lines
    BY <1>1, HeadTailProperties
  <2>2. Piece(Head(q)) \in Lines /\ Remainder(q) \in Seq(Lines)
    BY <1>1, <2>1, PieceType, RemainderType
  <2>3. r = [result |-> Result(Head(q)), msg |-> Piece(Head(q)), rest |-> Remainder(q),
             far |-> far, garbled |-> FALSE]
    BY <1>1 DEF Received
  <2> QED
    BY <2>2, <2>3 DEF Results, Result
<1>2. CASE q = <<>> /\ far = "closed"
  <2>1. r = [result |-> "EOF_OR_ERROR", msg |-> NoLine, rest |-> q,
             far |-> far, garbled |-> FALSE]
    BY <1>2 DEF Received
  <2> QED
    BY <2>1, Constants DEF Results
<1>3. CASE q = <<>> /\ far # "closed"
  <2>1. PICK l \in {old, NoLine} :
          r = [result |-> Result(l), msg |-> l, rest |-> q, far |-> "closed", garbled |-> TRUE]
    BY <1>3 DEF Received
  <2>2. l \in Lines
    BY Constants
  <2> QED
    BY <2>1, <2>2 DEF Results, Result, Ends
<1> QED
  BY <1>1, <1>2, <1>3

\* What receive comes back with in a sound session: the first line, or the end
\* of the file.
Overlong(q) == q # <<>> /\ TooLong(Head(q))

Heard(q, far, r) ==
  /\ r.far = far
  /\ \/ /\ q # <<>> /\ r.result = Result(Head(q)) /\ r.msg = Head(q)
        /\ r.rest = Tail(q)
     \/ /\ q = <<>> /\ far = "closed" /\ r.result = "EOF_OR_ERROR"
        /\ r.msg = NoLine /\ r.rest = q

LEMMA ReceivedSound ==
  ASSUME NEW q, NEW far, NEW old, NEW r \in Received(q, far, old),
         ~Overlong(q), r.garbled = FALSE
  PROVE  Heard(q, far, r)
<1> USE DEF Overlong, Heard
<1>1. CASE q # <<>>
  <2>1. r = [result |-> Result(Head(q)), msg |-> Piece(Head(q)), rest |-> Remainder(q),
             far |-> far, garbled |-> FALSE]
    BY <1>1 DEF Received
  <2> QED
    BY <1>1, <2>1 DEF Piece, Remainder
<1>2. CASE q = <<>> /\ far = "closed"
  BY <1>2 DEF Received
<1>3. CASE q = <<>> /\ far # "closed"
  <2>1. PICK l \in {old, NoLine} :
          r = [result |-> Result(l), msg |-> l, rest |-> q, far |-> "closed", garbled |-> TRUE]
    BY <1>3 DEF Received
  <2> QED
    BY <2>1
<1> QED
  BY <1>1, <1>2, <1>3

-----------------------------------------------------------------------------
(* Types *)

WorkerPlaces == {"none", "login", "answer"} \cup Stations

LEMMA InitTypes == Init => TypeOK
<1> SUFFICES ASSUME Init PROVE TypeOK
  OBVIOUS
<1>1. req \in [Clients -> Seq(Lines)] /\ ans \in [Clients -> Seq(Lines)] /\ mqueue \in Seq(Lines)
  BY DEF Init
<1>2. buf \in [{"client", "server"} -> [Clients -> Lines]]
  BY Constants DEF Init
<1>3. out \in [Clients -> Lines] /\ username \in [Clients -> Payloads]
  BY Constants DEF Init
<1>4. outcome \in [Clients -> [request : Nat, ok : BOOLEAN]]
  BY DEF Init
<1>5. up \in BOOLEAN /\ cut \in BOOLEAN /\ garbled \in BOOLEAN /\ in_room \in BOOLEAN
  BY DEF Init
<1>6. done \in [Clients -> SUBSET Nat]
  BY DEF Init
<1>7. reply \in [Clients -> [line : Lines, next : Stations]] /\ wpc \in [Clients -> WorkerPlaces]
  BY Constants DEF Init, NoReply, Stations, WorkerPlaces
<1> QED
  BY <1>1, <1>2, <1>3, <1>4, <1>5, <1>6, <1>7 DEF Init, TypeOK, Ends, WorkerPlaces

LEMMA NoteTypes ==
  ASSUME TypeOK, NEW q, NEW r, Note(q, r)
  PROVE  cut' \in BOOLEAN /\ garbled' \in BOOLEAN
BY DEF Note

LEMMA ClientReceivesTypes ==
  ASSUME TypeOK, NEW c \in Clients, NEW r, ClientReceives(c, r)
  PROVE  /\ ans' \in [Clients -> Seq(Lines)] /\ lost' \in [Clients -> Ends]
         /\ buf' \in [{"client", "server"} -> [Clients -> Lines]]
         /\ cut' \in BOOLEAN /\ garbled' \in BOOLEAN
<1>1. ans[c] \in Seq(Lines) /\ lost[c] \in Ends /\ buf["client"][c] \in Lines
  BY DEF TypeOK
<1>2. r \in Received(ans[c], lost[c], buf["client"][c])
  BY DEF ClientReceives
<1>3. r.msg \in Lines /\ r.rest \in Seq(Lines) /\ r.far \in Ends
  BY <1>1, <1>2, ReceivedType
<1>4. cut' \in BOOLEAN /\ garbled' \in BOOLEAN
  BY NoteTypes DEF ClientReceives
<1> QED
  BY <1>3, <1>4 DEF ClientReceives, TypeOK

LEMMA WorkerReceivesTypes ==
  ASSUME TypeOK, NEW c \in Clients, NEW r, WorkerReceives(c, r)
  PROVE  /\ req' \in [Clients -> Seq(Lines)] /\ left' \in [Clients -> Ends]
         /\ buf' \in [{"client", "server"} -> [Clients -> Lines]]
         /\ cut' \in BOOLEAN /\ garbled' \in BOOLEAN
         /\ r.result \in Results /\ r.msg \in Lines
<1>1. req[c] \in Seq(Lines) /\ left[c] \in Ends /\ buf["server"][c] \in Lines
  BY DEF TypeOK
<1>2. r \in Received(req[c], left[c], buf["server"][c])
  BY DEF WorkerReceives
<1>3. /\ r.msg \in Lines /\ r.rest \in Seq(Lines) /\ r.far \in Ends
      /\ r.result \in Results
  BY <1>1, <1>2, ReceivedType
<1>4. cut' \in BOOLEAN /\ garbled' \in BOOLEAN
  BY NoteTypes DEF WorkerReceives
<1> QED
  BY <1>3, <1>4 DEF WorkerReceives, TypeOK

Places == {"start", "login", "join", "confirm", "input", "listen", "gone"}

LEMMA ExitTypes ==
  ASSUME TypeOK, NEW c \in Clients, Exit(c)
  PROVE  pc' \in [Clients -> Places] /\ left' \in [Clients -> Ends]
BY DEF Exit, TypeOK, Places, Ends

LEMMA ResumeTypes ==
  ASSUME TypeOK, NEW c \in Clients, NEW p \in Places, Resume(c, p)
  PROVE  pc' \in [Clients -> Places] /\ left' \in [Clients -> Ends]
<1>1. CASE p = "gone"
  BY <1>1, ExitTypes DEF Resume
<1>2. CASE p # "gone"
  BY <1>2 DEF Resume, TypeOK, Places
<1> QED
  BY <1>1, <1>2

LEMMA ReturnedTypes ==
  ASSUME TypeOK, NEW c \in Clients, NEW m \in Lines, NEW ok \in BOOLEAN,
         Returned(c, m, ok)
  PROVE  /\ pc' \in [Clients -> Places] /\ left' \in [Clients -> Ends]
         /\ in_room' \in BOOLEAN /\ out' \in [Clients -> Lines]
         /\ outcome' \in [Clients -> [request : Nat, ok : BOOLEAN]]
<1>1. Succeeds(c, m) \in Places /\ Fails(c, m) \in Places
  BY DEF Succeeds, Fails, Places
<1>2. PICK p \in Places : p = IF ok THEN Succeeds(c, m) ELSE Fails(c, m)
  BY <1>1
<1>3. pc' \in [Clients -> Places] /\ left' \in [Clients -> Ends]
  BY <1>2, ResumeTypes DEF Returned
<1>4. in_room' \in BOOLEAN
  BY DEF Returned, InRoom, TypeOK
<1>5. out' \in [Clients -> Lines]
  BY Constants DEF Returned, TypeOK
<1>6. m.request \in Nat
  BY DEF Lines
<1>7. outcome' \in [Clients -> [request : Nat, ok : BOOLEAN]]
  BY <1>6 DEF Returned, TypeOK
<1> QED
  BY <1>3, <1>4, <1>5, <1>7

LEMMA SendTypes ==
  ASSUME TypeOK, NEW c \in Clients, NEW tag \in Tags \ {Junk}, NEW data \in Payloads,
         Send(c, tag, data)
  PROVE  TypeOK'
<1>1. PICK m \in Lines : m = Line(tag, data, data.len, sent[c] + 1)
  <2>1. data.len \in Nat /\ sent[c] + 1 \in Nat
    BY SessionAssumption DEF TypeOK
  <2> QED
    BY <2>1, LineType
<1>2. sent' \in [Clients -> Nat]
  BY DEF Send, TypeOK
<1>3. CASE m.len > MAX_LEN
  <2>1. UNCHANGED <<req, ans>> /\ Returned(c, m, FALSE)
    BY <1>1, <1>3 DEF Send
  <2> QED
    BY <1>2, <2>1, ReturnedTypes DEF Send, TypeOK, Places, workerVars
<1>4. CASE ~(m.len > MAX_LEN)
  <2>1. WriteRequest(c, m)
    BY <1>1, <1>4 DEF Send
  <2>2. pc' \in [Clients -> Places] /\ left' \in [Clients -> Ends]
    BY <2>1, ExitTypes DEF WriteRequest, TypeOK, Places
  <2>3. /\ ans' = ans /\ in_room' = in_room /\ outcome' = outcome
        /\ req' = req \/ req' = [req EXCEPT ![c] = Append(@, m)]
        /\ out' = out \/ out' = [out EXCEPT ![c] = m]
    BY <2>1 DEF WriteRequest
  <2>4. req' \in [Clients -> Seq(Lines)]
    <3>1. req \in [Clients -> Seq(Lines)] /\ Append(req[c], m) \in Seq(Lines)
      BY DEF TypeOK
    <3> QED
      BY <2>3, <3>1
  <2>5. out' \in [Clients -> Lines]
    BY <2>3 DEF TypeOK
  <2> QED
    BY <1>2, <2>2, <2>3, <2>4, <2>5 DEF Send, TypeOK, Places, workerVars
<1> QED
  BY <1>3, <1>4

LEMMA ConfirmTypes ==
  ASSUME TypeOK, NEW c \in Clients, Confirm(c)
  PROVE  TypeOK'
<1>1. PICK r \in Received(ans[c], lost[c], buf["client"][c]) :
        /\ ClientReceives(c, r)
        /\ Returned(c, out[c], r.result = "SUCCESS" /\ r.msg.tag # "err")
  BY DEF Confirm
<1>2. PICK ok \in BOOLEAN : ok = (r.result = "SUCCESS" /\ r.msg.tag # "err")
  OBVIOUS
<1>3. Returned(c, out[c], ok)
  BY <1>1, <1>2
<1>4. out[c] \in Lines
  BY DEF TypeOK
<1>5. /\ pc' \in [Clients -> Places] /\ left' \in [Clients -> Ends]
      /\ in_room' \in BOOLEAN /\ out' \in [Clients -> Lines]
      /\ outcome' \in [Clients -> [request : Nat, ok : BOOLEAN]]
  BY <1>3, <1>4, ReturnedTypes
<1> QED
  BY <1>1, <1>5, ClientReceivesTypes DEF Confirm, TypeOK, Places, workerVars

LEMMA ConnectTypes ==
  ASSUME TypeOK, NEW c \in Clients, Connect(c) \/ ConnectFails(c)
  PROVE  TypeOK'
BY DEF Connect, ConnectFails, TypeOK, wireVars, workerVars, Stations

LEMMA GoneTypes ==
  ASSUME TypeOK, NEW c \in Clients, Exit(c),
         UNCHANGED <<in_room, out, sent, outcome, req, ans, buf, lost,
                     workerVars, cut, garbled>>
  PROVE  TypeOK'
BY ExitTypes DEF TypeOK, Places, workerVars

LEMMA ListenTypes ==
  ASSUME TypeOK, Listen
  PROVE  TypeOK'
<1>1. PICK r \in Received(ans["receiver"], lost["receiver"], buf["client"]["receiver"]) :
        /\ ClientReceives("receiver", r)
        /\ Resume("receiver", IF r.result = "SUCCESS" /\ r.msg.tag = "delivery"
                              THEN "listen" ELSE "gone")
  BY DEF Listen
<1>2. PICK p \in Places : p = IF r.result = "SUCCESS" /\ r.msg.tag = "delivery"
                              THEN "listen" ELSE "gone"
  BY DEF Places
<1>3. "receiver" \in Clients
  BY DEF Clients
<1>4. pc' \in [Clients -> Places] /\ left' \in [Clients -> Ends]
  BY <1>1, <1>2, <1>3, ResumeTypes
<1> QED
  BY <1>1, <1>3, <1>4, ClientReceivesTypes DEF Listen, TypeOK, Places, workerVars

LEMMA WriteTypes ==
  ASSUME TypeOK, NEW c \in Clients, NEW l \in Lines, Write(c, l)
  PROVE  ans' \in [Clients -> Seq(Lines)]
BY DEF Write, TypeOK

LEMMA AnswerTypes ==
  ASSUME TypeOK, NEW c \in Clients, NEW tag \in Tags \ {Junk}, NEW text \in Nat,
         NEW data \in Payloads, NEW l \in Lines, NEW next \in Stations,
         Answer(c, tag, text, data, l, next)
  PROVE  /\ wpc' \in [Clients -> WorkerPlaces] /\ ans' = ans
         /\ reply' \in [Clients -> [line : Lines, next : Stations]]
<1>1. text + data.len \in Nat /\ l.request \in Nat
  BY SessionAssumption DEF Lines
<1>2. Line(tag, data, text + data.len, l.request) \in Lines
  BY <1>1, LineType
<1> QED
  BY <1>2 DEF Answer, TypeOK, WorkerPlaces

LEMMA ReplyTypes ==
  ASSUME TypeOK, NEW c \in Clients, Reply(c)
  PROVE  TypeOK'
<1>1. reply[c].line \in Lines /\ reply[c].next \in Stations
  BY DEF TypeOK
<1>2. ans' \in [Clients -> Seq(Lines)]
  BY <1>1, WriteTypes DEF Reply
<1>3. NoReply \in [line : Lines, next : Stations]
  BY Constants DEF NoReply, Stations
<1>4. wpc' \in [Clients -> WorkerPlaces] /\ reply' \in [Clients -> [line : Lines, next : Stations]]
  BY <1>1, <1>3 DEF Reply, TypeOK, WorkerPlaces
<1> QED
  BY <1>2, <1>4 DEF Reply, TypeOK, clientVars, WorkerPlaces

LEMMA DoneTypes ==
  ASSUME TypeOK, NEW c \in Clients, NEW l \in Lines, Done(c, l)
  PROVE  done' \in [Clients -> SUBSET Nat]
BY DEF Done, TypeOK, Lines

LEMMA ServeTypes ==
  ASSUME TypeOK, NEW r, NEW tag \in {"ok", "err"}, NEW text \in Nat, NEW data \in Payloads,
         NEW room \in Payloads \cup {NoRoom}, NEW next \in Stations,
         Serve(r, tag, text, data, room, next), mqueue' \in Seq(Lines)
  PROVE  TypeOK'
<1>1. "sender" \in Clients /\ tag \in Tags \ {Junk}
  BY DEF Clients, Tags, Junk
<1>2. /\ req' \in [Clients -> Seq(Lines)] /\ left' \in [Clients -> Ends]
      /\ buf' \in [{"client", "server"} -> [Clients -> Lines]]
      /\ cut' \in BOOLEAN /\ garbled' \in BOOLEAN /\ r.msg \in Lines
  BY <1>1, WorkerReceivesTypes DEF Serve
<1>3. /\ wpc' \in [Clients -> WorkerPlaces] /\ ans' = ans
      /\ reply' \in [Clients -> [line : Lines, next : Stations]]
  BY <1>1, <1>2, AnswerTypes DEF Serve
<1>4. done' \in [Clients -> SUBSET Nat]
  <2>1. CASE tag = "ok"
    BY <1>1, <1>2, <2>1, DoneTypes DEF Serve
  <2>2. CASE tag # "ok"
    BY <2>2 DEF Serve, TypeOK
  <2> QED
    BY <2>1, <2>2
<1>5. cur_room' \in [Clients -> Payloads \cup {NoRoom}]
  BY DEF Serve, TypeOK
<1> QED
  BY <1>2, <1>3, <1>4, <1>5 DEF Serve, TypeOK, clientVars, WorkerPlaces

LEMMA Given ==
  /\ \A c \in Clients : UserNames[c] \subseteq Payloads /\ RoomNames[c] \subseteq Payloads
  /\ Texts \subseteq Payloads
BY DEF Payloads

\* Every request of a client is a call of send.
LEMMA AskTypes ==
  ASSUME TypeOK, NEW c \in Clients,
         \/ \E name \in UserNames[c] : Login(c, name)
         \/ SenderStep /\ ~EmptyLine
         \/ \E room \in RoomNames["receiver"] : ReceiverJoin(room)
  PROVE  TypeOK'
<1> USE Given, Constants
<1>0. {"slogin", "rlogin", "join", "leave", "quit", "sendall"} \subseteq Tags \ {Junk}
  BY DEF Tags, Junk
<1>1. ASSUME NEW name \in UserNames[c], Login(c, name) PROVE TypeOK'
  <2>1. PICK tag \in Tags \ {Junk} : Send(c, tag, name)
    BY <1>0, <1>1 DEF Login
  <2>2. name \in Payloads
    OBVIOUS
  <2> QED
    BY <2>1, <2>2, SendTypes
<1>2. ASSUME NEW room \in RoomNames["sender"], CommandJoin(room) PROVE TypeOK'
  <2>1. Send("sender", "join", room) /\ "sender" \in Clients /\ "join" \in Tags \ {Junk}
    BY <1>0, <1>2 DEF CommandJoin, Clients
  <2>2. room \in Payloads
    BY <2>1
  <2> QED
    BY <2>1, <2>2, SendTypes
<1>3. ASSUME CommandLeave \/ CommandQuit \/ EndOfInput PROVE TypeOK'
  <2>1. PICK tag \in Tags \ {Junk}, data \in Payloads : Send("sender", tag, data)
    BY <1>0, <1>3 DEF CommandLeave, CommandQuit, EndOfInput
  <2>2. "sender" \in Clients
    BY DEF Clients
  <2> QED
    BY <2>1, <2>2, SendTypes
<1>4. ASSUME NEW text \in Texts, Text(text) PROVE TypeOK'
  <2>1. Send("sender", "sendall", text) /\ "sender" \in Clients /\ "sendall" \in Tags \ {Junk}
    BY <1>0, <1>4 DEF Text, Clients
  <2>2. text \in Payloads
    OBVIOUS
  <2> QED
    BY <2>1, <2>2, SendTypes
<1>5. ASSUME NEW room \in RoomNames["receiver"], ReceiverJoin(room) PROVE TypeOK'
  <2>1. Send("receiver", "join", room) /\ "receiver" \in Clients /\ "join" \in Tags \ {Junk}
    BY <1>0, <1>5 DEF ReceiverJoin, Clients
  <2>2. room \in Payloads
    BY <2>1
  <2> QED
    BY <2>1, <2>2, SendTypes
<1> QED
  BY <1>1, <1>2, <1>3, <1>4, <1>5 DEF SenderStep

LEMMA FatalTypes ==
  ASSUME TypeOK, Fatal
  PROVE  /\ lost' \in [Clients -> Ends] /\ up' \in BOOLEAN
         /\ cur_room' \in [Clients -> Payloads \cup {NoRoom}]
         /\ username' \in [Clients -> Payloads] /\ mqueue' \in Seq(Lines)
         /\ UNCHANGED <<ans, wpc, reply, done>>
<1>1. username' \in [Clients -> Payloads] /\ mqueue' \in Seq(Lines)
  BY Constants DEF Fatal
<1>2. lost' \in [Clients -> Ends] /\ up' \in BOOLEAN
  BY DEF Fatal, Ends
<1>3. cur_room' \in [Clients -> Payloads \cup {NoRoom}]
  BY DEF Fatal
<1> QED
  BY <1>1, <1>2, <1>3 DEF Fatal

LEMMA OtherFatalTypes ==
  ASSUME TypeOK, OtherFatal
  PROVE  TypeOK'
BY FatalTypes DEF OtherFatal, TypeOK, clientVars

LEMMA LoginTypes ==
  ASSUME TypeOK, NEW c \in Clients, WorkerLogin(c)
  PROVE  TypeOK'
<1>1. PICK r \in Received(req[c], left[c], buf["server"][c]) :
        /\ WorkerReceives(c, r)
        /\ IF r.result = "SUCCESS"
           THEN /\ Answer(c, "ok", 9, NoData, r.msg,
                          IF r.msg.tag = "slogin" THEN "chat" ELSE "join")
                /\ username' = [username EXCEPT ![c] = r.msg.data]
                /\ Done(c, r.msg)
                /\ UNCHANGED <<up, lost, cur_room, mqueue>>
           ELSE Fatal
  BY DEF WorkerLogin
<1>2. /\ req' \in [Clients -> Seq(Lines)] /\ left' \in [Clients -> Ends]
      /\ buf' \in [{"client", "server"} -> [Clients -> Lines]]
      /\ cut' \in BOOLEAN /\ garbled' \in BOOLEAN /\ r.msg \in Lines
  BY <1>1, WorkerReceivesTypes
<1>3. UNCHANGED clientVars
  BY DEF WorkerLogin
<1>4. CASE r.result = "SUCCESS"
  <2>1. done' \in [Clients -> SUBSET Nat]
    BY <1>1, <1>2, <1>4, DoneTypes
  <2>2. /\ wpc' \in [Clients -> WorkerPlaces] /\ ans' = ans
        /\ reply' \in [Clients -> [line : Lines, next : Stations]]
    <3>1. "ok" \in Tags \ {Junk}
      BY DEF Tags, Junk
    <3>2. PICK next \in Stations : next = IF r.msg.tag = "slogin" THEN "chat" ELSE "join"
      BY DEF Stations
    <3>3. Answer(c, "ok", 9, NoData, r.msg, next)
      BY <1>1, <1>4, <3>2
    <3> QED
      BY <1>2, <3>1, <3>3, AnswerTypes, Constants
  <2>3. username' \in [Clients -> Payloads]
    <3>1. r.msg.data \in Payloads
      BY <1>2 DEF Lines
    <3> QED
      BY <1>1, <1>4, <3>1 DEF TypeOK
  <2>4. UNCHANGED <<up, lost, cur_room, mqueue>>
    BY <1>1, <1>4
  <2> QED
    BY <1>2, <1>3, <2>1, <2>2, <2>3, <2>4 DEF TypeOK, clientVars, WorkerPlaces
<1>5. CASE r.result # "SUCCESS"
  <2>1. Fatal
    BY <1>1, <1>5
  <2> QED
    BY <1>2, <1>3, <2>1, FatalTypes DEF TypeOK, clientVars
<1> QED
  BY <1>4, <1>5

LEMMA JoinTypes ==
  ASSUME TypeOK, WorkerJoin
  PROVE  TypeOK'
<1> DEFINE c == "receiver"
<1>0. c \in Clients
  BY DEF Clients
<1>1. PICK r \in Received(req[c], left[c], buf["server"][c]) :
        /\ WorkerReceives(c, r)
        /\ IF r.result = "SUCCESS" /\ r.msg.tag = "join"
           THEN /\ cur_room' = [cur_room EXCEPT ![c] = r.msg.data]
                /\ Answer(c, "ok", 12, r.msg.data, r.msg, "deliver")
                /\ Done(c, r.msg)
           ELSE /\ Answer(c, "err", 24, NoData, r.msg, "done")
                /\ UNCHANGED <<cur_room, done>>
  BY DEF WorkerJoin
<1>2. /\ req' \in [Clients -> Seq(Lines)] /\ left' \in [Clients -> Ends]
      /\ buf' \in [{"client", "server"} -> [Clients -> Lines]]
      /\ cut' \in BOOLEAN /\ garbled' \in BOOLEAN /\ r.msg \in Lines
  BY <1>0, <1>1, WorkerReceivesTypes
<1>3. UNCHANGED <<clientVars, lost, up, username, mqueue>>
  BY DEF WorkerJoin
<1>4. /\ "ok" \in Tags \ {Junk} /\ "err" \in Tags \ {Junk} /\ r.msg.data \in Payloads
      /\ "deliver" \in Stations /\ "done" \in Stations
  BY <1>2 DEF Tags, Junk, Lines, Stations
<1> HIDE DEF c
<1>5. CASE r.result = "SUCCESS" /\ r.msg.tag = "join"
  <2>1. /\ wpc' \in [Clients -> WorkerPlaces] /\ ans' = ans
        /\ reply' \in [Clients -> [line : Lines, next : Stations]]
    BY <1>0, <1>1, <1>2, <1>4, <1>5, AnswerTypes
  <2>2. done' \in [Clients -> SUBSET Nat]
    BY <1>0, <1>1, <1>2, <1>5, DoneTypes
  <2>3. cur_room' \in [Clients -> Payloads \cup {NoRoom}]
    BY <1>1, <1>4, <1>5 DEF TypeOK
  <2> QED
    BY <1>2, <1>3, <2>1, <2>2, <2>3 DEF TypeOK, clientVars, WorkerPlaces
<1>6. CASE ~(r.result = "SUCCESS" /\ r.msg.tag = "join")
  <2>1. /\ wpc' \in [Clients -> WorkerPlaces] /\ ans' = ans
        /\ reply' \in [Clients -> [line : Lines, next : Stations]]
    BY <1>0, <1>1, <1>2, <1>4, <1>6, AnswerTypes, Constants
  <2>2. UNCHANGED <<cur_room, done>>
    BY <1>1, <1>6
  <2> QED
    BY <1>2, <1>3, <2>1, <2>2 DEF TypeOK, clientVars, WorkerPlaces
<1> QED
  BY <1>5, <1>6

LEMMA DeliverTypes ==
  ASSUME TypeOK, Deliver
  PROVE  TypeOK'
<1>1. "receiver" \in Clients /\ mqueue # <<>> /\ Head(mqueue) \in Lines /\ Tail(mqueue) \in Seq(Lines)
  BY HeadTailProperties DEF Deliver, TypeOK, Clients
<1>2. ans' \in [Clients -> Seq(Lines)] /\ mqueue' \in Seq(Lines)
  BY <1>1, WriteTypes DEF Deliver
<1> QED
  BY <1>2 DEF Deliver, TypeOK, clientVars

LEMMA ChatTypes ==
  ASSUME TypeOK, Chat
  PROVE  TypeOK'
<1> USE Constants
<1>1. PICK r \in Received(req["sender"], left["sender"], buf["server"]["sender"]) :
        ChatInvalid(r) \/ ChatOther(r) \/ ChatEnd(r) \/ ChatJoin(r) \/ ChatSendall(r)
          \/ ChatLeave(r) \/ ChatQuit(r)
  BY DEF Chat
<1>2. WorkerReceives("sender", r)
  BY <1>1 DEF ChatInvalid, ChatOther, ChatEnd, ChatJoin, ChatSendall, ChatLeave, ChatQuit,
              Grant, Refuse, Serve
<1>3. /\ r.msg \in Lines /\ r.msg.data \in Payloads /\ "sender" \in Clients
      /\ cur_room["sender"] \in Payloads \cup {NoRoom}
      /\ InARoom => cur_room["sender"] \in Payloads
  BY <1>2, WorkerReceivesTypes DEF Clients, Lines, TypeOK, InARoom
<1>4. mqueue' \in Seq(Lines)
  <2>1. CASE ~ChatSendall(r)
    BY <1>1, <2>1 DEF ChatInvalid, ChatOther, ChatEnd, ChatJoin, ChatLeave, ChatQuit, TypeOK
  <2>2. CASE ChatSendall(r) /\ InARoom
    <3> DEFINE room == cur_room["sender"]
               n == room.len + 1 + username["sender"].len + 1 + r.msg.data.len
    <3>1. n \in Nat
      <4>1. username["sender"] \in Payloads
        BY <1>3 DEF TypeOK
      <4>2. room.len \in Nat /\ username["sender"].len \in Nat /\ r.msg.data.len \in Nat
        BY <1>3, <2>2, <4>1, SessionAssumption
      <4> QED
        BY <4>2
    <3>2. "delivery" \in Tags \ {Junk} /\ r.msg.request \in Nat
      BY <1>3 DEF Tags, Junk, Lines
    <3> HIDE DEF n
    <3>3. Line("delivery", r.msg.data, n, r.msg.request) \in Lines
      BY <1>3, <3>1, <3>2, LineType
    <3>4. Delivery(room, r.msg) \in Lines
      BY <3>3 DEF Delivery, n
    <3> QED
      BY <2>2, <3>4 DEF ChatSendall, TypeOK
  <2>3. CASE ChatSendall(r) /\ ~InARoom
    BY <2>3 DEF ChatSendall, TypeOK
  <2> QED
    BY <2>1, <2>2, <2>3
<1>5. PICK tag \in {"ok", "err"}, text \in Nat, data \in Payloads,
           room \in Payloads \cup {NoRoom}, next \in Stations :
        Serve(r, tag, text, data, room, next)
  <2>1. {"chat", "done"} \subseteq Stations /\ 7 \in Nat /\ 8 \in Nat /\ 10 \in Nat
        /\ 12 \in Nat /\ 13 \in Nat /\ 15 \in Nat
    BY DEF Stations
  <2>2. CASE ChatInvalid(r) \/ ChatOther(r) \/ ChatEnd(r)
    BY <1>3, <2>1, <2>2 DEF ChatInvalid, ChatOther, ChatEnd, Refuse
  <2>3. CASE ChatJoin(r) \/ ChatQuit(r)
    BY <1>3, <2>1, <2>3 DEF ChatJoin, ChatQuit, Grant
  <2>4. CASE ChatSendall(r)
    BY <1>3, <2>1, <2>4 DEF ChatSendall, Grant, Refuse
  <2>5. CASE ChatLeave(r)
    BY <1>3, <2>1, <2>5 DEF ChatLeave, Grant, Refuse
  <2> QED
    BY <1>1, <2>2, <2>3, <2>4, <2>5
<1> QED
  BY <1>4, <1>5, ServeTypes

LEMMA StepTypes ==
  ASSUME TypeOK, [Next]_vars
  PROVE  TypeOK'
<1>1. ASSUME NEW c \in Clients, ClientStep(c) PROVE TypeOK'
  <2>1. ASSUME Killed(c) PROVE TypeOK'
    BY <2>1, GoneTypes DEF Killed
  <2> QED
    BY <1>1, <2>1, ConnectTypes, ConfirmTypes, AskTypes DEF ClientStep
<1>2. ASSUME SenderStep PROVE TypeOK'
  <2>1. "sender" \in Clients
    BY DEF Clients
  <2>2. CASE EmptyLine
    BY <2>1, <2>2, GoneTypes DEF EmptyLine
  <2>3. CASE ~EmptyLine
    BY <1>2, <2>1, <2>3, AskTypes
  <2> QED
    BY <2>2, <2>3
<1>3. ASSUME ReceiverStep PROVE TypeOK'
  <2>1. "receiver" \in Clients
    BY DEF Clients
  <2> QED
    BY <1>3, <2>1, ListenTypes, AskTypes DEF ReceiverStep
<1>4. ASSUME WorkerStep PROVE TypeOK'
  BY <1>4, LoginTypes, ReplyTypes, OtherFatalTypes, ChatTypes, JoinTypes, DeliverTypes DEF WorkerStep
<1>5. CASE UNCHANGED vars
  BY <1>5 DEF vars, clientVars, wireVars, workerVars, TypeOK
<1> QED
  BY <1>1, <1>2, <1>3, <1>4, <1>5 DEF Next

\* Types of a session: for all names, rooms and texts of any lengths, and also
\* after lines were cut or errors taken for messages.
THEOREM TypeCorrect == Spec => []TypeOK
<1>1. Init => TypeOK
  BY InitTypes
<1>2. TypeOK /\ [Next]_vars => TypeOK'
  BY StepTypes
<1> QED
  BY <1>1, <1>2, PTL DEF Spec

-----------------------------------------------------------------------------
(* Sound sessions *)

LEMMA SoundBefore ==
  ASSUME TypeOK, NEW q, NEW r, Note(q, r), Sound'
  PROVE  Sound /\ ~Overlong(q) /\ ~r.garbled
BY DEF Note, Sound, TypeOK, Overlong

LEMMA ClientHears ==
  ASSUME TypeOK, NEW c \in Clients, NEW r, ClientReceives(c, r), Sound'
  PROVE  /\ Sound /\ lost' = lost
         /\ \/ /\ ans[c] # <<>> /\ r.result = Result(Head(ans[c])) /\ r.msg = Head(ans[c])
               /\ ans' = [ans EXCEPT ![c] = Tail(ans[c])]
            \/ /\ ans[c] = <<>> /\ lost[c] = "closed" /\ r.result = "EOF_OR_ERROR"
               /\ ans' = ans
<1>1. /\ r \in Received(ans[c], lost[c], buf["client"][c]) /\ Note(ans[c], r)
      /\ ans' = [ans EXCEPT ![c] = r.rest] /\ lost' = [lost EXCEPT ![c] = r.far]
  BY DEF ClientReceives
<1>2. Sound /\ ~Overlong(ans[c]) /\ ~r.garbled
  BY <1>1, SoundBefore
<1>3. r.garbled = FALSE
  <2>1. ans[c] \in Seq(Lines) /\ lost[c] \in Ends /\ buf["client"][c] \in Lines
    BY DEF TypeOK
  <2> QED
    BY <1>1, <1>2, <2>1, ReceivedType
<1>4. Heard(ans[c], lost[c], r)
  BY <1>1, <1>2, <1>3, ReceivedSound
<1> QED
  BY <1>1, <1>2, <1>4 DEF TypeOK, Heard

LEMMA WorkerHears ==
  ASSUME TypeOK, NEW c \in Clients, NEW r, WorkerReceives(c, r), Sound'
  PROVE  /\ Sound /\ up /\ left' = left
         /\ \/ /\ req[c] # <<>> /\ r.result = Result(Head(req[c])) /\ r.msg = Head(req[c])
               /\ req' = [req EXCEPT ![c] = Tail(req[c])]
            \/ /\ req[c] = <<>> /\ left[c] = "closed" /\ r.result = "EOF_OR_ERROR"
               /\ r.msg = NoLine /\ req' = req
<1>1. /\ r \in Received(req[c], left[c], buf["server"][c]) /\ Note(req[c], r) /\ up
      /\ req' = [req EXCEPT ![c] = r.rest] /\ left' = [left EXCEPT ![c] = r.far]
  BY DEF WorkerReceives
<1>2. Sound /\ ~Overlong(req[c]) /\ ~r.garbled
  BY <1>1, SoundBefore
<1>3. r.garbled = FALSE
  <2>1. req[c] \in Seq(Lines) /\ left[c] \in Ends /\ buf["server"][c] \in Lines
    BY DEF TypeOK
  <2> QED
    BY <1>1, <1>2, <2>1, ReceivedType
<1>4. Heard(req[c], left[c], r)
  BY <1>1, <1>2, <1>3, ReceivedSound
<1> QED
  BY <1>1, <1>2, <1>4 DEF TypeOK, Heard

\* What a step leaves alone of client d and its worker.
Same(d) ==
  /\ pc'[d] = pc[d] /\ out'[d] = out[d] /\ sent'[d] = sent[d] /\ outcome'[d] = outcome[d]
  /\ left'[d] = left[d] /\ req'[d] = req[d] /\ ans'[d] = ans[d]
  /\ wpc'[d] = wpc[d] /\ reply'[d] = reply[d] /\ done'[d] = done[d]

LEMMA Elsewhere ==
  ASSUME NEW d \in Clients, Local(d), Same(d),
         \/ up' = up /\ lost'[d] = lost[d]
         \/ ~up' /\ lost'[d] = IF req'[d] = <<>> THEN "closed" ELSE "reset"
  PROVE  Local(d)'
<1>1. Ended(d)' /\ Counts(d)' /\ Pending(d)' /\ Tagged(d)'
  BY DEF Local, Same, Ended, Counts, Pending, Tagged, Interrupted
<1>2. Wire(d)'
  BY DEF Local, Same, Wire, Asked, Acting, Answered, Unheard
<1>3. Stage(d)'
  BY DEF Local, Same, Stage, Asked, Acting, Answered, GoesOn
<1> QED
  BY <1>1, <1>2, <1>3 DEF Local

LEMMA RoomsElsewhere ==
  ASSUME Rooms, Same("sender"), in_room' = in_room, up' => up,
         cur_room'["sender"] = cur_room["sender"]
  PROVE  Rooms'
BY DEF Rooms, Same, Asked, Acting, Answered, InARoom, InRoom

LEMMA ConnectLocal ==
  ASSUME TypeOK, NEW c \in Clients, Local(c), Connect(c) \/ ConnectFails(c)
  PROVE  Local(c)'
<1>1. \/ pc' = [pc EXCEPT ![c] = "login"] /\ wpc' = [wpc EXCEPT ![c] = "login"]
      \/ pc' = [pc EXCEPT ![c] = "gone"] /\ wpc' = wpc
  BY DEF Connect, ConnectFails, workerVars
<1>2. /\ pc[c] = "start" /\ UNCHANGED <<out, sent, outcome, wireVars, up, done>>
      /\ up \/ wpc' = wpc
  BY DEF Connect, ConnectFails, workerVars
<1> QED
  BY <1>1, <1>2 DEF Local, Ended, Wire, Counts, Pending, Tagged, Stage, Interrupted, TypeOK, wireVars

LEMMA GoneLocal ==
  ASSUME TypeOK, NEW c \in Clients, Local(c), Exit(c),
         UNCHANGED <<in_room, out, sent, outcome, req, ans, buf, lost,
                     workerVars, cut, garbled>>
  PROVE  Local(c)'
<1>1. pc' = [pc EXCEPT ![c] = "gone"] /\ UNCHANGED <<out, sent, outcome, req, ans, lost, up, wpc, done>>
  BY DEF Exit, workerVars
<1> QED
  BY <1>1 DEF Local, Ended, Wire, Counts, Pending, Tagged, Stage, Interrupted, TypeOK

LEMMA SendLocal ==
  ASSUME TypeOK, NEW c \in Clients, NEW tag \in ReqTags(c), NEW data, Local(c),
         pc[c] \in {"login", "join", "input"}, tag = LoginTag(c) <=> pc[c] = "login",
         Send(c, tag, data)
  PROVE  Local(c)'
<1>1. PICK m : m = Line(tag, data, data.len, sent[c] + 1)
  OBVIOUS
<1>2. m.tag = tag /\ m.request = sent[c] + 1
  BY <1>1 DEF Line
<1>3. /\ sent' = [sent EXCEPT ![c] = @ + 1] /\ sent[c] \in Nat /\ sent'[c] = sent[c] + 1
      /\ UNCHANGED <<lost, up, wpc, done>>
  BY DEF Send, workerVars, TypeOK
<1>4. req[c] = <<>> /\ ans[c] = <<>> /\ left[c] = "no"
  BY DEF Local, Wire, Ended
<1>5. sent'[c] \notin done[c]
  BY <1>3 DEF Local, Counts, TypeOK
<1>6. /\ outcome[c].request \in Nat /\ outcome[c].request < sent'[c]
      /\ outcome[c].ok => outcome[c].request \in done'[c]
      /\ outcome[c].request \in done'[c] => outcome[c].ok \/ Interrupted(c)'
  BY <1>3 DEF Local, Counts, Interrupted, TypeOK
<1>10. \A k \in done'[c] : k <= sent'[c]
  <2>1. \A k \in done[c] : k \in Nat /\ k <= sent[c]
    BY DEF Local, Counts, TypeOK
  <2> QED
    BY <1>3, <2>1
<1>7. ASSUME UNCHANGED <<req, ans>>, Returned(c, m, FALSE)
      PROVE  Local(c)'
  <2>1. outcome'[c] = [request |-> m.request, ok |-> FALSE]
    BY <1>7 DEF Returned, TypeOK
  <2>2. Counts(c)'
    <3>1. pc'[c] # "confirm"
      BY <1>7 DEF Returned, Resume, Exit, TypeOK, Succeeds, Fails
    <3> QED
      BY <1>2, <1>3, <1>5, <1>10, <2>1, <3>1 DEF Counts
  <2>3. Fails(c, m) \in {"gone", "input"} /\ (Fails(c, m) = "input" => c = "sender" /\ pc[c] = "input")
    BY <1>2 DEF Fails, Local, Tagged, LoginTag, Clients
  <2>4. pc'[c] = Fails(c, m) /\ (Fails(c, m) # "gone" => left' = left)
    BY <1>7, <2>3 DEF Returned, Resume, Exit, TypeOK
  <2>5. Ended(c)' /\ Wire(c)' /\ Pending(c)' /\ Tagged(c)'
    BY <1>3, <1>4, <1>7, <2>3, <2>4 DEF Ended, Wire, Pending, Tagged, Local
  <2>6. Stage(c)'
    BY <1>3, <2>3, <2>4 DEF Stage, Local
  <2> QED
    BY <2>2, <2>5, <2>6 DEF Local
<1>8. ASSUME WriteRequest(c, m)
      PROVE  Local(c)'
  <2>1. ans' = ans /\ outcome' = outcome
    BY <1>8 DEF WriteRequest
  <2>2. CASE ~up /\ UNCHANGED <<out, req>> /\ Exit(c)
    <3>1. pc'[c] = "gone"
      BY <2>2 DEF Exit, TypeOK
    <3>2. Counts(c)'
      BY <1>3, <1>6, <1>10, <2>1, <3>1 DEF Counts
    <3> QED
      BY <1>3, <1>4, <2>1, <2>2, <3>1, <3>2
         DEF Local, Ended, Wire, Pending, Tagged, Stage
  <2>3. CASE /\ pc' = [pc EXCEPT ![c] = "confirm"] /\ out' = [out EXCEPT ![c] = m]
             /\ req' = IF up THEN [req EXCEPT ![c] = Append(@, m)] ELSE req
             /\ left' = left
    <3>1. /\ pc'[c] = "confirm" /\ out'[c] = m /\ left'[c] = "no"
          /\ req'[c] = (IF up THEN <<m>> ELSE <<>>)
      BY <1>4, <2>3 DEF TypeOK
    <3>5. Counts(c)'
      BY <1>3, <1>6, <1>10, <2>1, <3>1 DEF Counts
    <3>2. Ended(c)' /\ Tagged(c)'
      BY <1>2, <1>3, <1>4, <2>1, <3>1 DEF Local, Ended, Tagged
    <3>3. Pending(c)' /\ Wire(c)'
      BY <1>2, <1>3, <1>4, <1>5, <1>6, <2>1, <3>1
         DEF Pending, Wire, Asked, Unheard
    <3>4. Stage(c)'
      BY <1>2, <1>3, <1>4, <2>1, <3>1 DEF Stage, Asked, Acting, Answered, Local, Tagged, Clients
    <3> QED
      BY <3>2, <3>3, <3>4, <3>5 DEF Local
  <2> QED
    BY <1>8, <2>2, <2>3 DEF WriteRequest
<1> QED
  BY <1>1, <1>7, <1>8 DEF Send

LEMMA ConfirmLocal ==
  ASSUME TypeOK, NEW c \in Clients, Local(c), Confirm(c), Sound'
  PROVE  Local(c)'
<1>1. PICK r \in Received(ans[c], lost[c], buf["client"][c]) :
        /\ ClientReceives(c, r)
        /\ Returned(c, out[c], r.result = "SUCCESS" /\ r.msg.tag # "err")
  BY DEF Confirm
<1>2. PICK ok \in BOOLEAN : ok = (r.result = "SUCCESS" /\ r.msg.tag # "err")
  OBVIOUS
<1>3. Returned(c, out[c], ok)
  BY <1>1, <1>2
<1>4. /\ pc[c] = "confirm" /\ UNCHANGED <<sent, req, up, wpc, done>>
      /\ out[c].request = sent[c] /\ sent[c] \in Nat
  BY DEF Confirm, workerVars, Local, Wire, TypeOK
<1>5. lost' = lost
  BY <1>1, ClientHears
<1>6. PICK p \in Places : p = IF ok THEN Succeeds(c, out[c]) ELSE Fails(c, out[c])
  BY DEF Places, Succeeds, Fails
<1>7. /\ outcome'[c] = [request |-> sent[c], ok |-> ok]
      /\ pc'[c] = p /\ (p # "gone" => left' = left)
  BY <1>3, <1>4, <1>6 DEF Returned, Resume, Exit, TypeOK
<1>8. /\ p \in {"gone", "join", "input", "listen"}
      /\ p = "join" => ok /\ c = "receiver" /\ out[c].tag = "rlogin"
      /\ p = "listen" => ok /\ c = "receiver" /\ out[c].tag = "join"
      /\ p = "input" => c = "sender" /\ (ok => out[c].tag # "quit")
  BY <1>4, <1>6 DEF Succeeds, Fails, Local, Tagged, ReqTags, Clients
<1>9. /\ req[c] = <<>>
      /\ ok => sent[c] \in done[c]
      /\ sent[c] \in done[c] => ok \/ Interrupted(c)
      /\ p \in {"join", "input"} => ans'[c] = <<>>
      /\ p = "listen" => Deliveries(ans'[c])
      /\ up => Answered(c)
  <2>1. CASE ans[c] # <<>>
    <3>1. Answered(c)
      BY <1>4, <2>1 DEF Local, Wire, Asked, Acting, Unheard
    <3>2. r.result = "SUCCESS" /\ r.msg = Head(ans[c])
      BY <1>1, <2>1, <3>1, ClientHears DEF Answered, Result, Junk
    <3>3. ok <=> sent[c] \in done[c]
      BY <1>2, <3>1, <3>2 DEF Answered
    <3>4. ans'[c] = Tail(ans[c])
      BY <1>1, <2>1, ClientHears DEF TypeOK
    <3> QED
      BY <1>8, <3>1, <3>3, <3>4 DEF Answered
  <2>2. CASE ans[c] = <<>>
    <3>1. lost[c] = "closed" /\ r.result = "EOF_OR_ERROR" /\ ans' = ans
      BY <1>1, <2>2, ClientHears
    <3>2. ~ok /\ ~up /\ req[c] = <<>>
      BY <1>2, <3>1 DEF Local, Ended
    <3>3. Unheard(c) \/ Acting(c)
      BY <1>4, <2>2, <3>2 DEF Local, Wire, Asked, Answered
    <3>4. sent[c] \in done[c] => Interrupted(c)
      BY <3>2, <3>3 DEF Unheard, Acting, Interrupted
    <3> QED
      BY <1>8, <2>2, <3>1, <3>2, <3>4
  <2> QED
    BY <2>1, <2>2
<1>10. Counts(c)'
  <2>1. outcome'[c].ok = ok /\ outcome'[c].request = sent[c]
    BY <1>7
  <2>2. /\ outcome'[c].ok => outcome'[c].request \in done'[c]
        /\ outcome'[c].request \in done'[c] => outcome'[c].ok \/ Interrupted(c)'
    BY <1>4, <1>9, <2>1 DEF Interrupted
  <2> QED
    BY <1>4, <1>7, <1>8, <2>1, <2>2 DEF Local, Counts
<1>11. Ended(c)' /\ Pending(c)' /\ Tagged(c)'
  BY <1>4, <1>5, <1>7, <1>8, <1>9 DEF Local, Ended, Pending, Tagged
<1>12. Wire(c)'
  BY <1>4, <1>7, <1>8, <1>9 DEF Wire
<1>13. Stage(c)'
  BY <1>4, <1>7, <1>8, <1>9, "join" # "rlogin" DEF Local, Stage, GoesOn, Interrupted
<1> QED
  BY <1>10, <1>11, <1>12, <1>13 DEF Local

LEMMA ListenLocal ==
  ASSUME TypeOK, Local("receiver"), Listen, Sound'
  PROVE  Local("receiver")'
<1>1. PICK r \in Received(ans["receiver"], lost["receiver"], buf["client"]["receiver"]) :
        /\ ClientReceives("receiver", r)
        /\ Resume("receiver", IF r.result = "SUCCESS" /\ r.msg.tag = "delivery"
                              THEN "listen" ELSE "gone")
  BY DEF Listen
<1>2. /\ pc["receiver"] = "listen" /\ "receiver" \in Clients
      /\ UNCHANGED <<in_room, out, sent, outcome, req, up, wpc, done>>
  BY DEF Listen, workerVars, Clients
<1>3. lost' = lost /\ (ans["receiver"] # <<>> => ans'["receiver"] = Tail(ans["receiver"]))
      /\ (ans["receiver"] = <<>> => ans' = ans)
  BY <1>1, <1>2, ClientHears DEF TypeOK
<1>4. /\ pc'["receiver"] \in {"listen", "gone"}
      /\ pc'["receiver"] = "listen" => left' = left
  BY <1>1, <1>2 DEF Resume, Exit, TypeOK
<1>5. Deliveries(ans'["receiver"])
  <2>1. CASE ans["receiver"] = <<>>
    BY <1>3, <2>1 DEF Deliveries
  <2>2. CASE ans["receiver"] # <<>>
    <3>1. PICK s \in Seq(Lines) : s = ans["receiver"]
      BY <1>2 DEF TypeOK
    <3>2. Deliveries(s) /\ s # <<>>
      BY <1>2, <2>2, <3>1 DEF Local, Wire
    <3>3. Deliveries(Tail(s))
      BY <3>2, HeadTailProperties DEF Deliveries
    <3> QED
      BY <1>3, <2>2, <3>1, <3>3
  <2> QED
    BY <2>1, <2>2
<1> QED
  BY <1>2, <1>3, <1>4, <1>5
     DEF Local, Ended, Counts, Pending, Tagged, Stage, Wire, Interrupted

\* A worker has a request carried out, or refuses it, and is to answer.
LEMMA ActLocal ==
  ASSUME TypeOK, NEW c \in Clients, Local(c), up, up' = up, left' = left, lost' = lost,
         UNCHANGED clientVars, NEW tag \in {"ok", "err"}, NEW text, NEW data, NEW next,
         wpc[c] # "answer", req[c] # <<>>, req' = [req EXCEPT ![c] = Tail(req[c])],
         Answer(c, tag, text, data, Head(req[c]), next),
         IF tag = "ok" THEN Done(c, Head(req[c])) ELSE UNCHANGED done,
         pc[c] = "confirm" /\ Asked(c) =>
           IF c = "sender" THEN next = "chat" \/ (next = "done" /\ out[c].tag = "quit" /\ tag = "ok")
           ELSE next = IF out[c].tag = "rlogin" THEN "join" ELSE "deliver"
  PROVE  /\ Local(c)'
         /\ pc[c] \in {"confirm", "gone"}
         /\ pc[c] = "confirm" => Asked(c) /\ Acting(c)' /\ reply'[c].line.tag = tag
<1>1. /\ Len(req[c]) = 1 /\ Head(req[c]).request = sent[c] /\ Head(req[c]) \in Lines
      /\ sent[c] \notin done[c] /\ outcome[c].request < sent[c]
      /\ sent[c] \in Nat /\ outcome[c].request \in Nat
  BY HeadTailProperties DEF Local, Pending, TypeOK
<1>2. req'[c] = <<>>
  <2>1. PICK q \in Seq(Lines) : q = req[c]
    BY DEF TypeOK
  <2>2. Len(Tail(q)) = 0 /\ Tail(q) \in Seq(Lines)
    BY <1>1, <2>1, HeadTailProperties
  <2>3. Tail(q) = <<>>
    BY <2>2, EmptySeq
  <2> QED
    BY <2>1, <2>3 DEF TypeOK
<1>3. done'[c] = IF tag = "ok" THEN done[c] \cup {sent[c]} ELSE done[c]
  <2>1. CASE tag = "ok"
    <3>1. done' = [done EXCEPT ![c] = @ \cup {Head(req[c]).request}]
      BY <2>1 DEF Done
    <3> QED
      BY <1>1, <2>1, <3>1 DEF TypeOK
  <2>2. CASE tag # "ok"
    BY <2>2
  <2> QED
    BY <2>1, <2>2
<1>4. /\ pc' = pc /\ out' = out /\ sent' = sent /\ outcome' = outcome /\ ans' = ans
  BY DEF clientVars, Answer
<1>5. sent[c] \in done'[c] <=> tag = "ok"
  BY <1>1, <1>3
<1>6. Counts(c)'
  <2>1. outcome[c].request # sent[c]
    BY <1>1
  <2>2. outcome[c].request \in done'[c] <=> outcome[c].request \in done[c]
    BY <1>3, <2>1
  <2>3. \A k \in done'[c] : k <= sent[c]
    BY <1>1, <1>3 DEF Local, Counts
  <2> QED
    BY <1>4, <2>2, <2>3 DEF Local, Counts, Interrupted
<1>7. pc[c] \in {"confirm", "gone"}
  BY DEF Local, Wire, TypeOK
<1>8. Ended(c)' /\ Pending(c)' /\ Tagged(c)'
  BY <1>2, <1>4 DEF Local, Ended, Pending, Tagged
<1>9. CASE pc[c] = "gone"
  BY <1>4, <1>6, <1>8, <1>9 DEF Local, Wire, Stage
<1>10. CASE pc[c] = "confirm"
  <2>1. Asked(c)
    BY <1>10 DEF Local, Wire, Acting, Answered, Unheard
  <2>2. PICK l : l = Line(tag, data, text + data.len, Head(req[c]).request)
    OBVIOUS
  <2>3. l.tag = tag /\ l.request = sent[c]
    BY <1>1, <2>2 DEF Line
  <2>4. wpc'[c] = "answer" /\ reply'[c] = [line |-> l, next |-> next]
    BY <2>2 DEF Answer, TypeOK
  <2>5. ans'[c] = <<>>
    BY <1>4, <2>1 DEF Asked
  <2>6. Acting(c)'
    BY <1>2, <1>4, <1>5, <2>3, <2>4, <2>5 DEF Acting
  <2>7. Wire(c)'
    BY <1>4, <1>10, <2>6 DEF Wire, Local
  <2>8. GoesOn(c, next)'
    BY <1>4, <1>5, <1>10, <2>1 DEF GoesOn
  <2>9. Stage(c)'
    BY <1>2, <1>4, <1>10, <2>4, <2>5, <2>8 DEF Stage, Asked, Answered
  <2> QED
    BY <1>6, <1>8, <1>10, <2>1, <2>3, <2>4, <2>6, <2>7, <2>9 DEF Local
<1> QED
  BY <1>7, <1>9, <1>10

\* A worker finds the end of the file: its client has gone.
LEMMA EndLocal ==
  ASSUME TypeOK, NEW c \in Clients, Local(c), left[c] = "closed", up, up' = up, left' = left,
         lost' = lost, req' = req, UNCHANGED clientVars, ans' = ans, UNCHANGED done
  PROVE  Local(c)' /\ pc[c] = "gone"
<1>1. pc[c] = "gone"
  BY DEF Local, Ended
<1>2. /\ pc' = pc /\ out' = out /\ sent' = sent /\ outcome' = outcome
  BY DEF clientVars
<1> QED
  BY <1>1, <1>2 DEF Local, Ended, Wire, Counts, Pending, Tagged, Stage, Interrupted

\* A worker answers, if its client is still there.
LEMMA ReplyLocal ==
  ASSUME TypeOK, NEW c \in Clients, Local(c), Reply(c)
  PROVE  /\ Local(c)'
         /\ pc[c] \in {"confirm", "gone"}
         /\ pc[c] = "confirm" =>
              Acting(c) /\ Answered(c)' /\ Head(ans'[c]) = reply[c].line
<1>1. /\ up /\ wpc[c] = "answer" /\ Write(c, reply[c].line)
      /\ wpc'[c] = reply[c].next
      /\ UNCHANGED <<pc, out, sent, outcome, req, left, lost, up, done>>
  BY DEF Reply, clientVars, TypeOK
<1>2. pc[c] \in {"confirm", "gone"}
  BY <1>1 DEF Local, Stage, TypeOK
<1>3. Ended(c)' /\ Counts(c)' /\ Pending(c)' /\ Tagged(c)'
  BY <1>1 DEF Local, Ended, Counts, Pending, Tagged, Interrupted
<1>4. CASE pc[c] = "gone"
  BY <1>1, <1>3, <1>4 DEF Local, Wire, Stage
<1>5. CASE pc[c] = "confirm"
  <2>1. Acting(c)
    <3>1. ~Asked(c)
      BY <1>1, <1>5 DEF Local, Stage
    <3>2. ~Answered(c)
      BY <1>1, <1>5 DEF Local, Stage, GoesOn
    <3> QED
      BY <1>1, <1>5, <3>1, <3>2 DEF Local, Wire, Unheard
  <2>2. ans'[c] = <<reply[c].line>>
    BY <1>1, <1>5, <2>1 DEF Write, Acting, TypeOK
  <2>3. Head(ans'[c]) = reply[c].line /\ Tail(ans'[c]) = <<>> /\ ans'[c] # <<>>
    BY <2>2
  <2>4. Answered(c)'
    BY <1>1, <2>1, <2>3 DEF Acting, Answered, Deliveries
  <2>5. Wire(c)'
    BY <1>1, <1>5, <2>4 DEF Wire, Local
  <2>6. GoesOn(c, reply[c].next)
    BY <1>1, <1>5, <2>1 DEF Local, Stage
  <2>7. Stage(c)'
    BY <1>1, <1>5, <2>3, <2>6 DEF Stage, Asked, Acting, GoesOn
  <2> QED
    BY <1>2, <1>3, <2>1, <2>3, <2>4, <2>5, <2>7 DEF Local
<1> QED
  BY <1>2, <1>4, <1>5

LEMMA DeliverLocal ==
  ASSUME TypeOK, Local("receiver"), Deliveries(mqueue), Deliver
  PROVE  Local("receiver")'
<1> DEFINE c == "receiver"
<1>1. /\ c \in Clients /\ mqueue # <<>> /\ Head(mqueue) \in Lines
      /\ Head(mqueue).tag = "delivery"
  <2>1. PICK q \in Seq(Lines) : q = mqueue /\ q # <<>>
    BY DEF TypeOK, Deliver
  <2>2. 1 \in DOMAIN q /\ Head(q) = q[1]
    BY <2>1
  <2> QED
    BY <2>1, <2>2, HeadTailProperties DEF Deliveries, Clients
<1>2. /\ wpc[c] = "deliver" /\ up
      /\ UNCHANGED <<pc, out, sent, outcome, req, left, lost, up, wpc, reply, done>>
  BY DEF Deliver, clientVars
<1>3. PICK l \in Lines : l.tag = "delivery" /\ Write(c, l)
  BY <1>1 DEF Deliver
<1> HIDE DEF c
<1>4. CASE pc[c] = "gone"
  <2>1. ans' = ans
    BY <1>3, <1>4 DEF Write
  <2> QED
    BY <1>2, <1>4, <2>1 DEF Local, Ended, Wire, Counts, Pending, Tagged, Stage, Interrupted, c
<1>5. CASE pc[c] # "gone"
  <2>1. ans'[c] = Append(ans[c], l)
    BY <1>1, <1>3, <1>5 DEF Write, TypeOK
  <2>2. pc[c] = "listen" \/ (pc[c] = "confirm" /\ Answered(c) /\ out[c].tag = "join")
    <3>1. pc[c] \in {"listen", "confirm"}
      BY <1>1, <1>2, <1>5 DEF Local, Stage, Tagged, TypeOK, c
    <3>2. ASSUME pc[c] = "confirm" PROVE Answered(c) /\ out[c].tag = "join"
      <4>1. ~Asked(c) /\ ~Acting(c) /\ ~Unheard(c)
        BY <1>2, <3>2 DEF Local, Stage, Acting, Unheard, c
      <4>2. Answered(c)
        BY <3>2, <4>1 DEF Local, Wire, c
      <4>3. out[c].tag # "rlogin"
        BY <1>2, <3>2, <4>2 DEF Local, Stage, GoesOn, c
      <4> QED
        BY <3>2, <4>2, <4>3 DEF Local, Tagged, ReqTags, c
    <3> QED
      BY <3>1, <3>2
  <2>3. PICK s \in Seq(Lines) : s = ans[c]
    BY <1>1 DEF TypeOK
  <2>4. CASE pc[c] = "listen"
    <3>1. Deliveries(s)
      BY <2>3, <2>4 DEF Local, Wire, c
    <3>2. Deliveries(Append(s, l))
      BY <1>3, <3>1, AppendProperties DEF Deliveries
    <3> QED
      BY <1>2, <2>1, <2>3, <2>4, <3>2
         DEF Local, Ended, Wire, Counts, Pending, Tagged, Stage, Interrupted, c
  <2>5. CASE pc[c] = "confirm" /\ Answered(c) /\ out[c].tag = "join"
    <3>1. s # <<>> /\ Deliveries(Tail(s))
      BY <2>3, <2>5 DEF Answered
    <3>2. /\ Head(Append(s, l)) = Head(s) /\ Append(s, l) # <<>>
          /\ Tail(Append(s, l)) = Append(Tail(s), l)
      BY <3>1
    <3>3. Tail(s) \in Seq(Lines)
      BY <3>1, HeadTailProperties
    <3>4. Deliveries(Append(Tail(s), l))
      BY <1>3, <3>1, <3>3, AppendProperties DEF Deliveries
    <3>5. Answered(c)'
      BY <1>2, <2>1, <2>3, <2>5, <3>2, <3>4 DEF Answered, c
    <3> QED
      BY <1>2, <2>5, <3>5
         DEF Local, Ended, Wire, Counts, Pending, Tagged, Stage, Interrupted, Asked, Acting,
             Answered, GoesOn, c
  <2> QED
    BY <2>2, <2>4, <2>5
<1> QED
  BY <1>4, <1>5

\* A step of client c, or of its worker, concerns nobody else, and the sender's
\* room only if c is the sender.
LEMMA OnlyOne ==
  ASSUME Talk, NEW c \in Clients, Local(c)', \A d \in Clients \ {c} : Same(d),
         up' = up, \A d \in Clients \ {c} : lost'[d] = lost[d],
         c = "sender" => Rooms',
         c = "receiver" => in_room' = in_room /\ cur_room'["sender"] = cur_room["sender"]
  PROVE  Talk'
<1>1. ASSUME NEW d \in Clients PROVE Local(d)'
  BY Elsewhere DEF Talk
<1>2. ASSUME c = "receiver" PROVE Rooms'
  <2>1. "sender" \in Clients \ {c}
    BY <1>2 DEF Clients
  <2> QED
    BY <1>2, <2>1, RoomsElsewhere DEF Talk
<1> QED
  BY <1>1, <1>2 DEF Talk, Clients

LEMMA ConnectTalk ==
  ASSUME TypeOK, Talk, NEW c \in Clients, Connect(c) \/ ConnectFails(c)
  PROVE  Talk'
<1>1. Local(c)'
  BY ConnectLocal DEF Talk
<1>2. /\ UNCHANGED <<out, sent, outcome, wireVars, up, reply, done, in_room, cur_room>>
      /\ \/ up /\ pc' = [pc EXCEPT ![c] = "login"] /\ wpc' = [wpc EXCEPT ![c] = "login"]
         \/ ~up /\ pc' = [pc EXCEPT ![c] = "gone"] /\ wpc' = wpc
      /\ pc[c] = "start"
  BY DEF Connect, ConnectFails, workerVars
<1>3. \A d \in Clients \ {c} : Same(d) /\ lost'[d] = lost[d]
  BY <1>2 DEF Same, wireVars, TypeOK
<1>4. ASSUME c = "sender" PROVE Rooms'
  <2>1. ~in_room' /\ (up => wpc["sender"] = "none")
    BY <1>2, <1>4 DEF Talk, Rooms, Local, Stage
  <2>2. pc'["sender"] \in {"login", "gone"}
    BY <1>2, <1>4 DEF TypeOK
  <2>3. wpc'["sender"] \in {"none", "login"} => cur_room'["sender"] = NoRoom
    BY <1>2, <1>4, <2>1 DEF Talk, Rooms, TypeOK
  <2> QED
    BY <1>2, <2>1, <2>2, <2>3 DEF Rooms
<1> QED
  BY <1>1, <1>2, <1>3, <1>4, OnlyOne

LEMMA GoneTalk ==
  ASSUME TypeOK, Talk, NEW c \in Clients, Exit(c),
         UNCHANGED <<in_room, out, sent, outcome, req, ans, buf, lost,
                     workerVars, cut, garbled>>
  PROVE  Talk'
<1>1. Local(c)'
  BY GoneLocal DEF Talk
<1>2. pc' = [pc EXCEPT ![c] = "gone"] /\ left' = [left EXCEPT ![c] = left'[c]]
  BY DEF Exit, TypeOK
<1>3. \A d \in Clients \ {c} : Same(d) /\ lost'[d] = lost[d]
  BY <1>2 DEF Same, workerVars, TypeOK
<1>4. ASSUME c = "sender" PROVE Rooms'
  BY <1>2, <1>4 DEF Talk, Rooms, workerVars, TypeOK
<1>5. up' = up /\ in_room' = in_room /\ cur_room' = cur_room
  BY DEF workerVars
<1> QED
  BY <1>1, <1>3, <1>4, <1>5, OnlyOne

LEMMA SendTalk ==
  ASSUME TypeOK, Talk, NEW c \in Clients, NEW tag \in ReqTags(c), NEW data,
         pc[c] \in {"login", "join", "input"}, tag = LoginTag(c) <=> pc[c] = "login",
         Send(c, tag, data)
  PROVE  Talk'
<1>1. Local(c) /\ Local(c)'
  BY SendLocal DEF Talk
<1>2. PICK m : m = Line(tag, data, data.len, sent[c] + 1)
  OBVIOUS
<1>3. /\ sent' = [sent EXCEPT ![c] = @ + 1] /\ UNCHANGED <<lost, workerVars>>
      /\ \/ UNCHANGED <<req, ans>> /\ Returned(c, m, FALSE)
         \/ WriteRequest(c, m)
  BY <1>2 DEF Send
<1>4. /\ ans' = ans /\ in_room' = in_room
      /\ req' = req \/ req' = [req EXCEPT ![c] = Append(@, m)]
      /\ pc' = [pc EXCEPT ![c] = pc'[c]] /\ out' = [out EXCEPT ![c] = out'[c]]
      /\ left' = [left EXCEPT ![c] = left'[c]]
      /\ outcome' = [outcome EXCEPT ![c] = outcome'[c]]
      /\ pc'[c] \in {"confirm", "input", "gone"}
  <2>1. CASE UNCHANGED <<req, ans>> /\ Returned(c, m, FALSE)
    <3>1. Fails(c, m) \in {"input", "gone"}
      BY DEF Fails
    <3> QED
      BY <2>1, <3>1 DEF Returned, Resume, Exit, InRoom, TypeOK
  <2>2. CASE WriteRequest(c, m)
    BY <2>2 DEF WriteRequest, Exit, TypeOK
  <2> QED
    BY <1>3, <2>1, <2>2
<1>5. \A d \in Clients \ {c} : Same(d) /\ lost'[d] = lost[d]
  BY <1>3, <1>4 DEF Same, workerVars, TypeOK
<1>6. ASSUME c = "sender" PROVE Rooms'
  <2>1. pc["sender"] \in {"login", "input"}
    BY <1>1, <1>6 DEF Local, Tagged
  <2>2. up => (in_room <=> InARoom)
    BY <1>1, <1>6, <2>1 DEF Local, Stage, Talk, Rooms, InARoom
  <2>3. InARoom' = InARoom /\ up' = up /\ wpc' = wpc /\ cur_room' = cur_room
    BY <1>3 DEF InARoom, workerVars
  <2>4. ~Answered("sender")'
    BY <1>1, <1>4, <1>6, <2>1 DEF Local, Wire, Answered
  <2>5. up => ~Acting("sender")'
    BY <1>1, <1>6, <2>1, <2>3 DEF Local, Stage, Acting
  <2> QED
    BY <1>4, <1>6, <2>2, <2>3, <2>4, <2>5 DEF Rooms, Talk
<1>7. up' = up /\ cur_room' = cur_room
  BY <1>3 DEF workerVars
<1> QED
  BY <1>1, <1>4, <1>5, <1>6, <1>7, OnlyOne

LEMMA ConfirmTalk ==
  ASSUME TypeOK, Talk, NEW c \in Clients, Confirm(c), Sound'
  PROVE  Talk'
<1>1. Local(c) /\ Local(c)'
  BY ConfirmLocal DEF Talk
<1>2. PICK r \in Received(ans[c], lost[c], buf["client"][c]) :
        /\ ClientReceives(c, r)
        /\ Returned(c, out[c], r.result = "SUCCESS" /\ r.msg.tag # "err")
  BY DEF Confirm
<1>3. PICK ok \in BOOLEAN : ok = (r.result = "SUCCESS" /\ r.msg.tag # "err")
  OBVIOUS
<1>4. Returned(c, out[c], ok)
  BY <1>2, <1>3
<1>5. /\ pc[c] = "confirm" /\ UNCHANGED <<sent, req, workerVars>> /\ lost' = lost
      /\ \/ /\ ans[c] # <<>> /\ r.result = Result(Head(ans[c])) /\ r.msg = Head(ans[c])
            /\ ans' = [ans EXCEPT ![c] = Tail(ans[c])]
         \/ /\ ans[c] = <<>> /\ lost[c] = "closed" /\ r.result = "EOF_OR_ERROR"
            /\ ans' = ans
  BY <1>2, ClientHears DEF Confirm
<1>6. /\ pc' = [pc EXCEPT ![c] = pc'[c]] /\ out' = [out EXCEPT ![c] = out'[c]]
      /\ left' = [left EXCEPT ![c] = left'[c]]
      /\ outcome' = [outcome EXCEPT ![c] = outcome'[c]]
      /\ in_room' = InRoom(c, out[c], ok)
      /\ pc'[c] \in {"join", "listen", "input", "gone"}
  <2>1. Fails(c, out[c]) \in {"input", "gone"} /\ Succeeds(c, out[c]) \in {"join", "listen", "input", "gone"}
    BY DEF Fails, Succeeds
  <2> QED
    BY <1>4, <2>1 DEF Returned, Resume, Exit, TypeOK
<1>7. \A d \in Clients \ {c} : Same(d) /\ lost'[d] = lost[d]
  BY <1>5, <1>6 DEF Same, workerVars, TypeOK
<1>8. up' = up /\ cur_room' = cur_room /\ wpc' = wpc
  BY <1>5 DEF workerVars
<1>9. ASSUME c = "sender" PROVE Rooms'
  <2>1. CASE ans[c] = <<>>
    <3>1. ~up
      BY <1>1, <1>5, <2>1 DEF Local, Ended
    <3> QED
      BY <1>6, <1>8, <1>9, <3>1 DEF Rooms, Talk
  <2>2. CASE ans[c] # <<>>
    <3>1. Answered(c)
      BY <1>1, <1>5, <2>2 DEF Local, Wire, Asked, Acting, Unheard
    <3>2. r.result = "SUCCESS" /\ r.msg = Head(ans[c])
      BY <1>5, <2>2, <3>1 DEF Answered, Result, Junk
    <3>3. ok = (Head(ans[c]).tag # "err")
      BY <1>3, <3>2
    <3>4. up => (InRoom(c, out[c], Head(ans[c]).tag # "err") <=> InARoom)
      BY <1>5, <1>9, <3>1 DEF Talk, Rooms
    <3>5. up => (in_room' <=> InARoom)
      BY <1>6, <3>3, <3>4
    <3> QED
      BY <1>6, <1>8, <1>9, <3>5 DEF Rooms, Talk, InARoom
  <2> QED
    BY <2>1, <2>2
<1>10. c = "receiver" => in_room' = in_room
  BY <1>6 DEF InRoom
<1> QED
  BY <1>1, <1>7, <1>8, <1>9, <1>10, OnlyOne

LEMMA ListenTalk ==
  ASSUME TypeOK, Talk, Listen, Sound'
  PROVE  Talk'
<1>1. PICK r \in Received(ans["receiver"], lost["receiver"], buf["client"]["receiver"]) :
        /\ ClientReceives("receiver", r)
        /\ Resume("receiver", IF r.result = "SUCCESS" /\ r.msg.tag = "delivery"
                              THEN "listen" ELSE "gone")
  BY DEF Listen
<1>2. "receiver" \in Clients /\ UNCHANGED <<in_room, out, sent, outcome, req, workerVars>>
  BY DEF Listen, Clients
<1>3. Local("receiver")'
  BY <1>2, ListenLocal DEF Talk
<1>4. lost' = lost /\ ans' = [ans EXCEPT !["receiver"] = ans'["receiver"]]
  BY <1>1, <1>2, ClientHears DEF TypeOK
<1>5. /\ pc' = [pc EXCEPT !["receiver"] = pc'["receiver"]]
      /\ left' = [left EXCEPT !["receiver"] = left'["receiver"]]
  BY <1>1, <1>2 DEF Resume, Exit, TypeOK
<1>6. \A d \in Clients \ {"receiver"} : Same(d) /\ lost'[d] = lost[d]
  BY <1>2, <1>4, <1>5 DEF Same, workerVars, TypeOK
<1>7. up' = up /\ in_room' = in_room /\ cur_room' = cur_room
  BY <1>2 DEF workerVars
<1> QED
  BY <1>2, <1>3, <1>6, <1>7, OnlyOne

LEMMA DeliverTalk ==
  ASSUME TypeOK, Talk, Deliveries(mqueue), Deliver
  PROVE  Talk'
<1>1. "receiver" \in Clients /\ Local("receiver")'
  BY DeliverLocal DEF Talk, Clients
<1>2. ans' = [ans EXCEPT !["receiver"] = ans'["receiver"]]
  BY <1>1 DEF Deliver, Write, TypeOK
<1>3. UNCHANGED <<clientVars, req, left, lost, up, wpc, reply, cur_room, done>>
  BY DEF Deliver
<1>4. \A d \in Clients \ {"receiver"} : Same(d) /\ lost'[d] = lost[d]
  BY <1>2, <1>3 DEF Same, clientVars, TypeOK
<1> QED
  BY <1>1, <1>3, <1>4, OnlyOne DEF clientVars

\* The answer is under way, if there is anyone to take it.
LEMMA ReplyTalk ==
  ASSUME TypeOK, Talk, NEW c \in Clients, Reply(c)
  PROVE  Talk'
<1>1. /\ Local(c)'
      /\ pc[c] \in {"confirm", "gone"}
      /\ pc[c] = "confirm" => Acting(c) /\ Answered(c)' /\ Head(ans'[c]) = reply[c].line
  BY ReplyLocal DEF Talk
<1>2. /\ UNCHANGED <<clientVars, req, left, lost, up, cur_room, done>> /\ up
      /\ wpc[c] = "answer" /\ wpc' = [wpc EXCEPT ![c] = reply[c].next]
      /\ reply' = [reply EXCEPT ![c] = NoReply]
      /\ ans' = [ans EXCEPT ![c] = ans'[c]]
  BY DEF Reply, Write, TypeOK
<1>3. \A d \in Clients \ {c} : Same(d) /\ lost'[d] = lost[d]
  BY <1>2 DEF Same, clientVars, TypeOK
<1>4. in_room' = in_room /\ pc' = pc /\ out' = out
  BY <1>2 DEF clientVars
<1>5. ASSUME c = "sender" PROVE Rooms'
  <2>1. wpc'[c] \notin {"none", "login"}
    BY <1>2 DEF TypeOK, Stations
  <2>2. pc'[c] \notin {"start", "login", "input"}
    BY <1>1, <1>4
  <2>3. pc[c] = "confirm" => (InRoom(c, out[c], reply[c].line.tag # "err") <=> InARoom)
    BY <1>1, <1>2, <1>5 DEF Talk, Rooms
  <2>4. pc[c] = "confirm" => ~Asked(c)' /\ ~Acting(c)'
    BY <1>1 DEF Asked, Acting, Answered
  <2> QED
    BY <1>1, <1>2, <1>4, <1>5, <2>1, <2>2, <2>3, <2>4 DEF Rooms, InARoom, InRoom
<1> QED
  BY <1>1, <1>2, <1>3, <1>4, <1>5, OnlyOne

\* What is the same of the others when the worker of c has something to answer.
LEMMA WorkerSame ==
  ASSUME TypeOK, NEW c \in Clients, NEW tag, NEW text, NEW data, NEW l, NEW next,
         NEW rest, UNCHANGED clientVars, left' = left, lost' = lost,
         req' = req \/ req' = [req EXCEPT ![c] = rest],
         Answer(c, tag, text, data, l, next), Done(c, l) \/ UNCHANGED done
  PROVE  \A d \in Clients \ {c} : Same(d) /\ lost'[d] = lost[d]
<1>1. /\ ans' = ans /\ wpc' = [wpc EXCEPT ![c] = "answer"]
      /\ reply' = [reply EXCEPT ![c] = reply'[c]]
  BY DEF Answer, TypeOK
<1>2. done' = [done EXCEPT ![c] = done'[c]]
  BY DEF Done, TypeOK
<1> QED
  BY <1>1, <1>2 DEF Same, clientVars, TypeOK

\* The server ends, wherever its workers are.
LEMMA FatalTalk ==
  ASSUME TypeOK, Talk, Fatal, UNCHANGED <<clientVars, req, left>>
  PROVE  Talk'
<1>1. ~up' /\ UNCHANGED <<ans, wpc, reply, done>> /\ cur_room' = [c \in Clients |-> NoRoom]
  BY DEF Fatal
<1>2. ASSUME NEW d \in Clients PROVE Local(d)'
  <2>1. Same(d)
    BY <1>1 DEF Same, clientVars
  <2>2. lost'[d] = IF req'[d] = <<>> THEN "closed" ELSE "reset"
    BY DEF Fatal
  <2> QED
    BY <1>1, <2>1, <2>2, Elsewhere DEF Talk
<1>3. Rooms'
  BY <1>1 DEF Talk, Rooms, clientVars, Clients
<1> QED
  BY <1>2, <1>3 DEF Talk

LEMMA LoginTalk ==
  ASSUME TypeOK, Talk, NEW c \in Clients, WorkerLogin(c), Sound'
  PROVE  Talk'
<1>1. PICK r \in Received(req[c], left[c], buf["server"][c]) :
        /\ WorkerReceives(c, r)
        /\ IF r.result = "SUCCESS"
           THEN /\ Answer(c, "ok", 9, NoData, r.msg,
                          IF r.msg.tag = "slogin" THEN "chat" ELSE "join")
                /\ username' = [username EXCEPT ![c] = r.msg.data]
                /\ Done(c, r.msg)
                /\ UNCHANGED <<up, lost, cur_room, mqueue>>
           ELSE Fatal
  BY DEF WorkerLogin
<1>2. /\ UNCHANGED clientVars /\ wpc[c] = "login" /\ up /\ left' = left
      /\ \/ /\ req[c] # <<>> /\ r.result = Result(Head(req[c])) /\ r.msg = Head(req[c])
            /\ req' = [req EXCEPT ![c] = Tail(req[c])]
         \/ /\ req[c] = <<>> /\ left[c] = "closed" /\ r.result = "EOF_OR_ERROR"
            /\ r.msg = NoLine /\ req' = req
  BY <1>1, WorkerHears DEF WorkerLogin
<1>3. Local(c)
  BY DEF Talk
<1>4. CASE req[c] = <<>>
  <2>1. Fatal
    BY <1>1, <1>2, <1>4
  <2> QED
    BY <1>2, <1>4, <2>1, FatalTalk
<1>5. CASE req[c] # <<>>
  <2>1. Head(req[c]).tag \in ReqTags(c) /\ r.result = "SUCCESS" /\ r.msg = Head(req[c])
    BY <1>2, <1>3, <1>5 DEF Local, Tagged, Result, ReqTags, Junk
  <2>2. PICK next : next = IF Head(req[c]).tag = "slogin" THEN "chat" ELSE "join"
    OBVIOUS
  <2>3. /\ Answer(c, "ok", 9, NoData, Head(req[c]), next) /\ Done(c, Head(req[c]))
        /\ up' = up /\ lost' = lost /\ cur_room' = cur_room
        /\ req' = [req EXCEPT ![c] = Tail(req[c])]
    BY <1>1, <1>2, <1>5, <2>1, <2>2
  <2>4. ASSUME pc[c] = "confirm", Asked(c)
        PROVE  Head(req[c]) = out[c] /\ out[c].tag = LoginTag(c)
    <3>1. Head(req[c]) = out[c]
      BY <2>4 DEF Asked
    <3>2. out[c].tag = LoginTag(c)
      BY <1>2, <1>3, <2>4 DEF Local, Stage, Clients
    <3> QED
      BY <3>1, <3>2
  <2>5. pc[c] = "confirm" /\ Asked(c) =>
          IF c = "sender" THEN next = "chat" \/ (next = "done" /\ out[c].tag = "quit" /\ "ok" = "ok")
          ELSE next = IF out[c].tag = "rlogin" THEN "join" ELSE "deliver"
    BY <2>2, <2>4 DEF LoginTag, Clients
  <2>6. /\ Local(c)'
        /\ pc[c] \in {"confirm", "gone"}
        /\ pc[c] = "confirm" => Asked(c) /\ Acting(c)' /\ reply'[c].line.tag = "ok"
    BY <1>2, <1>3, <1>5, <2>3, <2>5, ActLocal
  <2>7. \A d \in Clients \ {c} : Same(d) /\ lost'[d] = lost[d]
    BY <1>2, <2>3, WorkerSame
  <2>8. in_room' = in_room /\ pc' = pc /\ out' = out
    BY <1>2 DEF clientVars
  <2>9. ASSUME c = "sender" PROVE Rooms'
    <3>1. cur_room'["sender"] = NoRoom
      BY <1>2, <2>3, <2>9 DEF Talk, Rooms
    <3>2. pc["sender"] = "confirm" =>
            out["sender"].tag = "slogin" /\ Acting("sender")' /\ reply'["sender"].line.tag = "ok"
      BY <2>4, <2>6, <2>9 DEF LoginTag
    <3>3. pc["sender"] = "confirm" => ~Asked("sender")' /\ ~Answered("sender")'
      BY <3>2 DEF Asked, Acting, Answered
    <3>4. pc["sender"] = "confirm" => ~InRoom("sender", out["sender"], reply'["sender"].line.tag # "err")
      BY <3>2 DEF InRoom
    <3> QED
      BY <2>6, <2>8, <2>9, <3>1, <3>3, <3>4 DEF Rooms, InARoom, InRoom
  <2> QED
    BY <2>3, <2>6, <2>7, <2>8, <2>9, OnlyOne
<1> QED
  BY <1>4, <1>5

\* What a round of chat_with_sender has done with the room.
Settled(r, tag, room) ==
  \/ tag = "ok" /\ r.msg.tag # "sendall" /\ (r.msg.tag = "join" <=> room # NoRoom)
  \/ (tag = "err" \/ r.msg.tag = "sendall") /\ room = cur_room["sender"]

\* A round of chat_with_sender up to its answer, to the request or to nobody.
LEMMA ServeTalk ==
  ASSUME TypeOK, Talk, Sound', NEW r, NEW tag \in {"ok", "err"}, NEW text, NEW data,
         NEW room, NEW next \in {"chat", "done"}, Serve(r, tag, text, data, room, next),
         r.result = "EOF_OR_ERROR" => tag = "err",
         r.result # "EOF_OR_ERROR" /\ next = "done" => r.msg.tag = "quit" /\ tag = "ok",
         r.result = "SUCCESS" => Settled(r, tag, room)
  PROVE  Talk'
<1> DEFINE s == "sender"
<1>1. /\ s \in Clients /\ WorkerReceives(s, r) /\ Answer(s, tag, text, data, r.msg, next)
      /\ cur_room' = [cur_room EXCEPT ![s] = room] /\ wpc'[s] = "answer" /\ ans' = ans
      /\ IF tag = "ok" THEN Done(s, r.msg) ELSE UNCHANGED done
      /\ UNCHANGED clientVars /\ lost' = lost /\ up' = up /\ wpc[s] = "chat"
  BY DEF Serve, Answer, Clients, TypeOK
<1>2. /\ left' = left /\ up
      /\ \/ /\ req[s] # <<>> /\ r.result = Result(Head(req[s])) /\ r.msg = Head(req[s])
            /\ req' = [req EXCEPT ![s] = Tail(req[s])]
         \/ /\ req[s] = <<>> /\ left[s] = "closed" /\ r.result = "EOF_OR_ERROR"
            /\ r.msg = NoLine /\ req' = req
  BY <1>1, WorkerHears
<1>3. Local(s) /\ cur_room'[s] = room /\ in_room' = in_room /\ pc' = pc /\ out' = out
  BY <1>1 DEF Talk, clientVars, TypeOK
<1>4. CASE req[s] = <<>>
  <2>1. left[s] = "closed" /\ req' = req /\ r.result = "EOF_OR_ERROR" /\ UNCHANGED done
    BY <1>1, <1>2, <1>4
  <2> HIDE DEF s
  <2>2. Local(s)' /\ pc[s] = "gone"
    BY <1>1, <1>2, <1>3, <2>1, EndLocal
  <2>3. \A d \in Clients \ {s} : Same(d) /\ lost'[d] = lost[d]
    BY <1>1, <1>2, <2>1, WorkerSame
  <2>4. Rooms'
    BY <1>1, <1>3, <2>2 DEF Rooms, s
  <2> QED
    BY <1>1, <2>2, <2>3, <2>4, OnlyOne DEF s
<1>5. CASE req[s] # <<>>
  <2>1. Head(req[s]).tag \in ReqTags(s)
    BY <1>3, <1>5 DEF Local, Tagged
  <2>2. /\ r.result = "SUCCESS" /\ r.msg = Head(req[s])
        /\ req' = [req EXCEPT ![s] = Tail(req[s])]
    BY <1>2, <1>5, <2>1 DEF Result, ReqTags, Junk
  <2>3. pc[s] = "confirm" /\ Asked(s) =>
          IF s = "sender" THEN next = "chat" \/ (next = "done" /\ out[s].tag = "quit" /\ tag = "ok")
          ELSE next = IF out[s].tag = "rlogin" THEN "join" ELSE "deliver"
    BY <2>2 DEF Asked
  <2>4. /\ Answer(s, tag, text, data, Head(req[s]), next)
        /\ IF tag = "ok" THEN Done(s, Head(req[s])) ELSE UNCHANGED done
    BY <1>1, <2>2
  <2> HIDE DEF s
  <2>5. /\ Local(s)'
        /\ pc[s] \in {"confirm", "gone"}
        /\ pc[s] = "confirm" => Asked(s) /\ Acting(s)' /\ reply'[s].line.tag = tag
    BY <1>1, <1>2, <1>3, <1>5, <2>2, <2>3, <2>4, ActLocal
  <2>6. \A d \in Clients \ {s} : Same(d) /\ lost'[d] = lost[d]
    <3>1. Done(s, r.msg) \/ UNCHANGED done
      BY <1>1
    <3> QED
      BY <1>1, <1>2, <2>2, <3>1, WorkerSame
  <2>7. ASSUME pc[s] = "confirm"
        PROVE  (InRoom(s, out[s], tag # "err") <=> room # NoRoom)
    <3>1. (in_room <=> InARoom) /\ out[s] = r.msg
      <4>1. Head(req[s]) = out[s]
        BY <2>5, <2>7 DEF Asked
      <4> QED
        BY <1>2, <2>2, <2>5, <2>7, <4>1 DEF Talk, Rooms, s
    <3>2. Settled(r, tag, room)
      BY <2>2
    <3> QED
      BY <3>1, <3>2 DEF Settled, InRoom, InARoom, s
  <2>8. Rooms'
    <3>1. pc[s] = "confirm" => ~Asked(s)' /\ ~Answered(s)'
      <4>1. Acting(s)' => ~Asked(s)' /\ ~Answered(s)'
        BY DEF Asked, Acting, Answered
      <4> QED
        BY <2>5, <4>1
    <3>2. pc[s] = "confirm" => (InRoom(s, out[s], reply'[s].line.tag # "err") <=> room # NoRoom)
      BY <2>5, <2>7
    <3> QED
      BY <1>1, <1>3, <2>5, <3>1, <3>2 DEF Rooms, InARoom, InRoom, s
  <2> QED
    BY <1>1, <2>5, <2>6, <2>8, OnlyOne DEF s
<1> QED
  BY <1>4, <1>5

LEMMA ChatTalk ==
  ASSUME TypeOK, Talk, Chat, Sound'
  PROVE  Talk'
<1>1. PICK r \in Received(req["sender"], left["sender"], buf["server"]["sender"]) :
        ChatInvalid(r) \/ ChatOther(r) \/ ChatEnd(r) \/ ChatJoin(r) \/ ChatSendall(r)
          \/ ChatLeave(r) \/ ChatQuit(r)
  BY DEF Chat
<1>2. CASE ChatInvalid(r)
  BY <1>2, ServeTalk DEF ChatInvalid, Refuse, Settled
<1>3. CASE ChatOther(r)
  BY <1>3, ServeTalk DEF ChatOther, Refuse, Settled
<1>4. CASE ChatEnd(r)
  BY <1>4, ServeTalk DEF ChatEnd, Settled
<1>5. CASE ChatJoin(r)
  <2>1. Serve(r, "ok", 10, r.msg.data, r.msg.data, "chat") /\ r.result = "SUCCESS" /\ r.msg.tag = "join"
    BY <1>5 DEF ChatJoin, Grant, Requests
  <2>2. r.msg.data # NoRoom
    <3>1. r.msg \in Lines
      BY <2>1, WorkerReceivesTypes DEF Serve, Clients
    <3> QED
      BY <3>1, SessionAssumption DEF Lines
  <2>3. Settled(r, "ok", r.msg.data)
    BY <2>1, <2>2 DEF Settled
  <2> QED
    BY <2>1, <2>3, ServeTalk
<1>6. CASE ChatSendall(r) /\ InARoom
  <2>1. Serve(r, "ok", 12, NoData, cur_room["sender"], "chat") /\ r.result = "SUCCESS" /\ r.msg.tag = "sendall"
    BY <1>6 DEF ChatSendall, Grant, Requests
  <2>2. Settled(r, "ok", cur_room["sender"])
    BY <2>1 DEF Settled
  <2> QED
    BY <2>1, <2>2, ServeTalk
<1>7. CASE (ChatSendall(r) \/ ChatLeave(r)) /\ ~InARoom
  <2>1. Serve(r, "err", 13, NoData, cur_room["sender"], "chat") /\ r.result = "SUCCESS"
    BY <1>7 DEF ChatSendall, ChatLeave, Refuse, Requests
  <2>2. Settled(r, "err", cur_room["sender"])
    BY <2>1 DEF Settled
  <2> QED
    BY <2>1, <2>2, ServeTalk
<1>8. CASE ChatLeave(r) /\ InARoom
  <2>1. Serve(r, "ok", 8, cur_room["sender"], NoRoom, "chat") /\ r.result = "SUCCESS" /\ r.msg.tag = "leave"
    BY <1>8 DEF ChatLeave, Grant, Requests
  <2>2. Settled(r, "ok", NoRoom)
    BY <2>1 DEF Settled
  <2> QED
    BY <2>1, <2>2, ServeTalk
<1>9. CASE ChatQuit(r)
  <2>1. Serve(r, "ok", 7, NoData, NoRoom, "done") /\ r.result = "SUCCESS" /\ r.msg.tag = "quit"
    BY <1>9 DEF ChatQuit, Requests
  <2>2. Settled(r, "ok", NoRoom)
    BY <2>1 DEF Settled
  <2> QED
    BY <2>1, <2>2, ServeTalk
<1> QED
  BY <1>1, <1>2, <1>3, <1>4, <1>5, <1>6, <1>7, <1>8, <1>9

\* chat_with_receiver is asked for a join, or its receiver has gone.
LEMMA JoinTalk ==
  ASSUME TypeOK, Talk, WorkerJoin, Sound'
  PROVE  Talk'
<1> DEFINE c == "receiver"
<1>1. PICK r \in Received(req[c], left[c], buf["server"][c]) :
        /\ WorkerReceives(c, r)
        /\ IF r.result = "SUCCESS" /\ r.msg.tag = "join"
           THEN /\ cur_room' = [cur_room EXCEPT ![c] = r.msg.data]
                /\ Answer(c, "ok", 12, r.msg.data, r.msg, "deliver")
                /\ Done(c, r.msg)
           ELSE /\ Answer(c, "err", 24, NoData, r.msg, "done")
                /\ UNCHANGED <<cur_room, done>>
  BY DEF WorkerJoin
<1>2. /\ c \in Clients /\ wpc[c] = "join"
      /\ UNCHANGED clientVars /\ lost' = lost /\ up' = up
  BY DEF WorkerJoin, Clients
<1>3. PICK tag, text, data, w :
        /\ tag \in {"ok", "err"} /\ Answer(c, tag, text, data, r.msg, w)
        /\ IF tag = "ok" THEN Done(c, r.msg) ELSE UNCHANGED done
        /\ IF r.result = "SUCCESS" /\ r.msg.tag = "join"
           THEN tag = "ok" /\ w = "deliver" ELSE tag = "err" /\ w = "done"
  <2>1. CASE r.result = "SUCCESS" /\ r.msg.tag = "join"
    BY <1>1, <2>1
  <2>2. CASE ~(r.result = "SUCCESS" /\ r.msg.tag = "join")
    BY <1>1, <2>2
  <2> QED
    BY <2>1, <2>2
<1>4. /\ left' = left /\ up
      /\ \/ /\ req[c] # <<>> /\ r.result = Result(Head(req[c])) /\ r.msg = Head(req[c])
            /\ req' = [req EXCEPT ![c] = Tail(req[c])]
         \/ /\ req[c] = <<>> /\ left[c] = "closed" /\ r.result = "EOF_OR_ERROR"
            /\ r.msg = NoLine /\ req' = req
  BY <1>1, <1>2, WorkerHears
<1>5. /\ Local(c) /\ in_room' = in_room /\ cur_room'["sender"] = cur_room["sender"]
      /\ Done(c, r.msg) \/ UNCHANGED done
  BY <1>1, <1>2, <1>3 DEF Talk, clientVars, TypeOK, Clients
<1>6. \A d \in Clients \ {c} : Same(d) /\ lost'[d] = lost[d]
  <2> HIDE DEF c
  <2> QED
    BY <1>2, <1>3, <1>4, <1>5, WorkerSame
<1>7. CASE req[c] = <<>>
  <2>1. left[c] = "closed" /\ req' = req /\ UNCHANGED done /\ ans' = ans
    BY <1>3, <1>4, <1>7 DEF Answer
  <2> HIDE DEF c
  <2>2. Local(c)'
    BY <1>2, <1>4, <1>5, <2>1, EndLocal
  <2> QED
    BY <1>2, <1>5, <1>6, <2>2, OnlyOne DEF c
<1>8. CASE req[c] # <<>>
  <2>1. Head(req[c]).tag \in ReqTags(c)
    BY <1>5, <1>8 DEF Local, Tagged
  <2>2. /\ r.result = "SUCCESS" /\ r.msg = Head(req[c])
        /\ req' = [req EXCEPT ![c] = Tail(req[c])]
    BY <1>4, <1>8, <2>1 DEF Result, ReqTags, Junk
  <2>3. pc[c] = "confirm" /\ Asked(c) =>
          IF c = "sender" THEN w = "chat" \/ (w = "done" /\ out[c].tag = "quit" /\ tag = "ok")
          ELSE w = IF out[c].tag = "rlogin" THEN "join" ELSE "deliver"
    <3>1. SUFFICES ASSUME pc[c] = "confirm", Asked(c)
                   PROVE  out[c].tag = "join" /\ w = "deliver"
      OBVIOUS
    <3>2. out[c].tag # "rlogin"
      BY <1>2, <1>4, <1>5, <3>1 DEF Local, Stage, LoginTag
    <3>3. out[c].tag = "join"
      BY <1>5, <3>1, <3>2 DEF Local, Tagged, ReqTags
    <3>4. r.msg = out[c]
      BY <2>2, <3>1 DEF Asked
    <3> QED
      BY <1>3, <2>2, <3>3, <3>4
  <2>4. /\ Answer(c, tag, text, data, Head(req[c]), w)
        /\ IF tag = "ok" THEN Done(c, Head(req[c])) ELSE UNCHANGED done
    BY <1>3, <2>2
  <2> HIDE DEF c
  <2>5. Local(c)'
    <3>1. /\ tag \in {"ok", "err"}
          /\ c \in Clients /\ Local(c) /\ up /\ wpc[c] # "answer" /\ req[c] # <<>>
          /\ req' = [req EXCEPT ![c] = Tail(req[c])]
          /\ up' = up /\ left' = left /\ lost' = lost /\ UNCHANGED clientVars
      BY <1>2, <1>3, <1>4, <1>5, <1>8, <2>2
    <3> QED
      BY <2>3, <2>4, <3>1, ActLocal, ZenonT(30)
  <2> QED
    BY <1>2, <1>5, <1>6, <2>5, OnlyOne DEF c
<1> QED
  BY <1>7, <1>8

-----------------------------------------------------------------------------
(* The invariant *)

\* Only broadcasts put something into the queue.
LEMMA QueueStep ==
  ASSUME TypeOK, Deliveries(mqueue), [Next]_vars
  PROVE  Deliveries(mqueue)'
<1>1. PICK q \in Seq(Lines) : q = mqueue /\ Deliveries(q)
  BY DEF TypeOK
<1>2. CASE UNCHANGED mqueue
  BY <1>2 DEF Deliveries
<1>3. CASE Deliver
  <2>1. q # <<>> /\ mqueue' = Tail(q)
    BY <1>1, <1>3 DEF Deliver
  <2>2. Deliveries(Tail(q))
    BY <1>1, <2>1, HeadTailProperties DEF Deliveries
  <2> QED
    BY <2>1, <2>2 DEF Deliveries
<1>4. CASE Chat
  <2>1. mqueue' = mqueue \/ \E l : l.tag = "delivery" /\ mqueue' = Append(mqueue, l)
    <3>1. \A r : Delivery(cur_room["sender"], r.msg).tag = "delivery"
      BY DEF Delivery, Line
    <3> QED
      BY <1>4, <3>1 DEF Chat, ChatInvalid, ChatOther, ChatEnd, ChatJoin, ChatSendall, ChatLeave, ChatQuit
  <2>2. ASSUME NEW l, l.tag = "delivery", mqueue' = Append(q, l) PROVE Deliveries(mqueue')
    <3>1. \A i \in DOMAIN Append(q, l) : Append(q, l)[i] = (IF i = Len(q) + 1 THEN l ELSE q[i])
      BY <1>1
    <3>2. \A i \in DOMAIN Append(q, l) : i # Len(q) + 1 => i \in DOMAIN q
      BY <1>1
    <3> QED
      BY <1>1, <2>2, <3>1, <3>2 DEF Deliveries
  <2> QED
    BY <1>1, <1>2, <2>1, <2>2 DEF Deliveries
<1>5. UNCHANGED mqueue \/ mqueue' = <<>> \/ Deliver \/ Chat
  <2>1. ASSUME NEW c \in Clients, ClientStep(c) PROVE UNCHANGED mqueue
    BY <2>1 DEF ClientStep, Connect, ConnectFails, Confirm, Killed, Login, Send, workerVars
  <2>2. ASSUME SenderStep PROVE UNCHANGED mqueue
    BY <2>2 DEF SenderStep, CommandJoin, CommandLeave, CommandQuit, EndOfInput, EmptyLine, Text, Send, workerVars
  <2>3. ASSUME ReceiverStep PROVE UNCHANGED mqueue
    BY <2>3 DEF ReceiverStep, Listen, ReceiverJoin, Send, workerVars
  <2>4. ASSUME NEW c \in Clients, WorkerLogin(c) \/ Reply(c) \/ OtherFatal
        PROVE  UNCHANGED mqueue \/ mqueue' = <<>>
    BY <2>4 DEF WorkerLogin, OtherFatal, Fatal, Reply
  <2>5. ASSUME WorkerJoin PROVE UNCHANGED mqueue
    BY <2>5 DEF WorkerJoin
  <2>6. CASE UNCHANGED vars
    BY <2>6 DEF vars, workerVars
  <2> QED
    BY <2>1, <2>2, <2>3, <2>4, <2>5, <2>6 DEF Next, WorkerStep, Clients
<1>6. CASE mqueue' = <<>>
  BY <1>6 DEF Deliveries
<1> QED
  BY <1>2, <1>3, <1>4, <1>5, <1>6

\* A session that is sound after a step was sound before it.
LEMMA SoundStep ==
  ASSUME TypeOK, [Next]_vars, Sound'
  PROVE  Sound
<1>1. (cut' = cut /\ garbled' = garbled) \/ \E q, r : Note(q, r)
  <2>1. ASSUME NEW c \in Clients, ClientStep(c) PROVE (cut' = cut /\ garbled' = garbled) \/ \E q, r : Note(q, r)
    BY <2>1 DEF ClientStep, Connect, ConnectFails, Confirm, ClientReceives, Killed, Login, Send
  <2>2. ASSUME SenderStep PROVE cut' = cut /\ garbled' = garbled
    BY <2>2 DEF SenderStep, CommandJoin, CommandLeave, CommandQuit, EndOfInput, EmptyLine, Text, Send
  <2>3. ASSUME ReceiverStep PROVE (cut' = cut /\ garbled' = garbled) \/ \E q, r : Note(q, r)
    BY <2>3 DEF ReceiverStep, Listen, ClientReceives, ReceiverJoin, Send
  <2>4. ASSUME NEW c \in Clients, WorkerLogin(c) PROVE \E q, r : Note(q, r)
    BY <2>4 DEF WorkerLogin, WorkerReceives
  <2>5. ASSUME WorkerJoin PROVE \E q, r : Note(q, r)
    BY <2>5 DEF WorkerJoin, WorkerReceives
  <2>6. ASSUME Chat PROVE \E q, r : Note(q, r)
    BY <2>6 DEF Chat, ChatInvalid, ChatOther, ChatEnd, ChatJoin, ChatSendall, ChatLeave, ChatQuit,
               Grant, Refuse, Serve, WorkerReceives
  <2>7. ASSUME Deliver \/ OtherFatal \/ \E c \in Clients : Reply(c)
        PROVE  cut' = cut /\ garbled' = garbled
    BY <2>7 DEF Deliver, OtherFatal, Reply
  <2>8. CASE UNCHANGED vars
    BY <2>8 DEF vars
  <2> QED
    BY <2>1, <2>2, <2>3, <2>4, <2>5, <2>6, <2>7, <2>8 DEF Next, WorkerStep
<1> QED
  BY <1>1, SoundBefore DEF Sound

\* Every request is made at its place.
LEMMA AskTalk ==
  ASSUME TypeOK, Talk, NEW c \in Clients,
         \/ \E name \in UserNames[c] : Login(c, name)
         \/ c = "sender" /\ SenderStep /\ ~EmptyLine
         \/ c = "receiver" /\ \E room \in RoomNames["receiver"] : ReceiverJoin(room)
  PROVE  Talk'
<1>1. PICK tag, data :
        /\ tag \in ReqTags(c)
        /\ Send(c, tag, data) /\ pc[c] \in {"login", "join", "input"}
        /\ (tag = LoginTag(c) <=> pc[c] = "login")
  <2>1. CASE \E name \in UserNames[c] : Login(c, name)
    BY <2>1 DEF Login, ReqTags, LoginTag, Clients
  <2>2. CASE c = "sender" /\ SenderStep /\ ~EmptyLine
    BY <2>2 DEF SenderStep, CommandJoin, CommandLeave, CommandQuit, EndOfInput, Text, AtInput,
                ReqTags, LoginTag
  <2>3. CASE c = "receiver" /\ \E room \in RoomNames["receiver"] : ReceiverJoin(room)
    BY <2>3 DEF ReceiverJoin, ReqTags, LoginTag
  <2> QED
    BY <2>1, <2>2, <2>3
<1> QED
  BY <1>1, SendTalk

LEMMA OtherFatalTalk ==
  ASSUME TypeOK, Talk, OtherFatal
  PROVE  Talk'
BY FatalTalk DEF OtherFatal

LEMMA StepTalk ==
  ASSUME TypeOK, Deliveries(mqueue), Talk, Next, Sound'
  PROVE  Talk'
<1>1. ASSUME NEW c \in Clients, ClientStep(c) PROVE Talk'
  <2>1. ASSUME Killed(c) PROVE Talk'
    BY <2>1, GoneTalk DEF Killed
  <2> QED
    BY <1>1, <2>1, ConnectTalk, ConfirmTalk, AskTalk DEF ClientStep
<1>2. ASSUME SenderStep PROVE Talk'
  <2>1. "sender" \in Clients
    BY DEF Clients
  <2>2. CASE EmptyLine
    BY <2>1, <2>2, GoneTalk DEF EmptyLine
  <2>3. CASE ~EmptyLine
    BY <1>2, <2>1, <2>3, AskTalk
  <2> QED
    BY <2>2, <2>3
<1>3. ASSUME ReceiverStep PROVE Talk'
  <2>1. "receiver" \in Clients
    BY DEF Clients
  <2> QED
    BY <1>3, <2>1, ListenTalk, AskTalk DEF ReceiverStep
<1>4. ASSUME WorkerStep PROVE Talk'
  BY <1>4, LoginTalk, ReplyTalk, OtherFatalTalk, ChatTalk, JoinTalk, DeliverTalk DEF WorkerStep
<1> QED
  BY <1>1, <1>2, <1>3, <1>4 DEF Next

LEMMA InitTalk == Init => Talk
<1> SUFFICES ASSUME Init PROVE Talk
  OBVIOUS
<1>1. ASSUME NEW c \in Clients PROVE Local(c)
  <2>1. /\ pc[c] = "start" /\ wpc[c] = "none" /\ left[c] = "no" /\ lost[c] = "no"
        /\ req[c] = <<>> /\ ans[c] = <<>> /\ sent[c] = 0 /\ done[c] = {}
        /\ outcome[c] = [request |-> 0, ok |-> FALSE]
    BY <1>1 DEF Init
  <2> QED
    BY <1>1, <2>1 DEF Local, Ended, Wire, Counts, Pending, Tagged, Stage
<1>2. Rooms
  BY DEF Init, Rooms, Clients
<1> QED
  BY <1>1, <1>2 DEF Talk

LEMMA InitInv == Init => IInv
BY InitTypes, InitTalk DEF IInv, Init, Deliveries

LEMMA Inductive == IInv /\ [Next]_vars => IInv'
<1> SUFFICES ASSUME IInv, [Next]_vars PROVE IInv'
  OBVIOUS
<1>1. TypeOK' /\ Deliveries(mqueue)'
  BY StepTypes, QueueStep DEF IInv
<1>2. ASSUME Sound' PROVE Talk'
  <2>1. Talk
    BY <1>2, SoundStep DEF IInv
  <2>2. CASE Next
    BY <1>2, <2>1, <2>2, StepTalk DEF IInv
  <2>3. CASE UNCHANGED vars
    <3>1. ASSUME NEW d \in Clients PROVE Local(d)' /\ Same(d)
      BY <2>1, <2>3, Elsewhere DEF Talk, vars, clientVars, wireVars, workerVars, Same
    <3>2. Rooms'
      BY <2>1, <2>3, <3>1, RoomsElsewhere DEF Talk, vars, clientVars, workerVars, Clients
    <3> QED
      BY <3>1, <3>2 DEF Talk
  <2> QED
    BY <2>2, <2>3
<1> QED
  BY <1>1, <1>2 DEF IInv

\* The inductive invariant.
THEOREM InvariantHolds == Spec => []IInv
BY InitInv, Inductive, PTL DEF Spec

-----------------------------------------------------------------------------
(* What it gives *)

\* The requests of a client and the answers of its worker stay in step: for any
\* number of requests with any names, rooms and texts whose lines receive takes
\* whole, a client that waits finds the answer to its own request, and one that
\* does not wait has none coming.
THEOREM RequestsInStep == Spec => []InStep
<1>1. IInv => InStep
  <2> SUFFICES ASSUME IInv, Sound, NEW c \in Clients, pc[c] \notin {"start", "gone"}
               PROVE  /\ Len(req[c]) + Cardinality(Answers(c)) <= IF pc[c] = "confirm" THEN 1 ELSE 0
                      /\ \A i \in DOMAIN req[c] : req[c][i].request = out[c].request
                      /\ \A i \in Answers(c) : ans[c][i].request = out[c].request
                      /\ pc[c] = "confirm" /\ ans[c] # <<>> => Head(ans[c]).tag # "delivery"
    BY DEF InStep
  <2>1. Local(c) /\ pc[c] \in Places /\ req[c] \in Seq(Lines) /\ ans[c] \in Seq(Lines)
    BY DEF IInv, Talk, TypeOK, Places
  <2>2. CASE req[c] = <<>> /\ Deliveries(ans[c]) /\ pc[c] # "confirm"
    <3>1. Answers(c) = {}
      BY <2>2 DEF Answers, Deliveries
    <3> QED
      BY <2>2, <3>1, FS_EmptySet
  <2>3. CASE pc[c] = "confirm" /\ req[c] = <<out[c]>> /\ ans[c] = <<>>
    <3>1. Answers(c) = {}
      BY <2>3 DEF Answers
    <3> QED
      BY <2>3, <3>1, FS_EmptySet
  <2>4. CASE pc[c] = "confirm" /\ req[c] = <<>> /\ ans[c] = <<>>
    <3>1. Answers(c) = {}
      BY <2>4 DEF Answers
    <3> QED
      BY <2>4, <3>1, FS_EmptySet
  <2>5. CASE pc[c] = "confirm" /\ Answered(c)
    <3>1. PICK s \in Seq(Lines) : s = ans[c] /\ s # <<>>
      BY <2>1, <2>5 DEF Answered
    <3>2. Head(s).tag # "delivery" /\ Head(s) = s[1] /\ s[1].request = out[c].request
      BY <2>1, <2>5, <3>1 DEF Answered, Local, Wire
    <3>3. ASSUME NEW i \in DOMAIN s, i # 1 PROVE s[i].tag = "delivery"
      <4>1. Deliveries(Tail(s))
        BY <2>5, <3>1 DEF Answered
      <4>2. i - 1 \in DOMAIN Tail(s) /\ Tail(s)[i - 1] = s[i]
        BY <3>1, <3>3
      <4> QED
        BY <4>1, <4>2 DEF Deliveries
    <3>4. Answers(c) = {1}
      BY <3>1, <3>2, <3>3 DEF Answers
    <3>5. Cardinality(Answers(c)) = 1
      BY <3>4, FS_Singleton
    <3> QED
      BY <2>5, <3>1, <3>2, <3>4, <3>5 DEF Answered
  <2> QED
    <3>1. pc[c] \in {"login", "join", "input", "listen", "confirm"}
      BY <2>1 DEF Places
    <3> QED
      BY <2>1, <2>2, <2>3, <2>4, <2>5, <3>1 DEF Local, Wire, Asked, Acting, Unheard, Deliveries
<1> QED
  BY <1>1, InvariantHolds, PTL

\* A sender that waits for input and its worker agree about whether it is in a
\* room, whatever it has joined, left, been refused or not been able to send.
THEOREM RoomsInStep == Spec => []RoomsAgree
<1>1. IInv => RoomsAgree
  BY DEF IInv, Talk, Rooms, RoomsAgree, InARoom
<1> QED
  BY <1>1, InvariantHolds, PTL

\* A request for which send returns true was carried out; one for which it
\* returns false, also because it is too long to be sent, was not, except where
\* the server has ended between carrying it out and answering it.
THEOREM SendTellsTheTruth == Spec => []ResultIsTrue
<1>1. IInv => ResultIsTrue
  BY DEF IInv, Talk, Local, Counts, ResultIsTrue
<1> QED
  BY <1>1, InvariantHolds, PTL

\* A receiver that listens goes on for as long as the server runs: nothing but a
\* delivery can be the next line that it takes.
THEOREM ReceiverListensOn == Spec => ListensOn
<1> DEFINE A == Listen => pc'["receiver"] = "listen" \/ ~up \/ ~Sound'
<1>1. IInv /\ [Next]_vars => [A]_vars
  <2> SUFFICES ASSUME IInv, Listen, up, Sound' PROVE pc'["receiver"] = "listen"
    OBVIOUS
  <2> DEFINE c == "receiver"
  <2>1. PICK r \in Received(ans[c], lost[c], buf["client"][c]) :
          /\ ClientReceives(c, r)
          /\ Resume(c, IF r.result = "SUCCESS" /\ r.msg.tag = "delivery"
                       THEN "listen" ELSE "gone")
    BY DEF Listen
  <2>2. c \in Clients /\ pc[c] = "listen"
    BY DEF Listen, Clients
  <2>3. /\ Sound
        /\ \/ /\ ans[c] # <<>> /\ r.result = Result(Head(ans[c])) /\ r.msg = Head(ans[c])
           \/ lost[c] = "closed"
    BY <2>1, <2>2, ClientHears DEF IInv
  <2>4. Local(c)
    BY <2>2, <2>3 DEF IInv, Talk
  <2>5. ans[c] # <<>> /\ r.result = Result(Head(ans[c])) /\ r.msg = Head(ans[c])
    BY <2>3, <2>4 DEF Local, Ended
  <2>6. Head(ans[c]).tag = "delivery"
    <3>1. PICK s \in Seq(Lines) : s = ans[c] /\ s # <<>>
      BY <2>2, <2>5 DEF IInv, TypeOK
    <3>2. Deliveries(s) /\ 1 \in DOMAIN s /\ Head(s) = s[1]
      BY <2>2, <2>4, <3>1 DEF Local, Wire
    <3> QED
      BY <3>1, <3>2 DEF Deliveries
  <2>7. r.result = "SUCCESS" /\ r.msg.tag = "delivery"
    BY <2>5, <2>6 DEF Result, Junk
  <2> QED
    BY <2>1, <2>2, <2>7 DEF Resume, IInv, TypeOK
<1> QED
  BY <1>1, InvariantHolds, PTL DEF Spec, ListensOn
=============================================================================
