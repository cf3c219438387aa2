----------------------------- MODULE LineStream -----------------------------
(***************************************************************************)
(* What the Robust I/O package of csf_assign05/csapp.c promises the two    *)
(* ends of a connection: a stream of bytes that arrives in order, without  *)
(* gaps or repetitions, and is cut into lines for the reader.  A call for  *)
(* a line is one atomic step that takes the first line of what has         *)
(* arrived, however the bytes were grouped on their way.                   *)
(***************************************************************************)
EXTENDS Integers, Sequences

CONSTANTS
  Messages,  \* what the writer writes: sequences of bytes
  Counts,    \* the numbers of bytes that the reader asks for
  maxlen,    \* the size of the reader's buffer for a line
  NL         \* the byte that ends a line

VARIABLES
  handed,    \* bytes that the writer still has to get rid of
  transit,   \* bytes that the reader has not taken yet
  end,       \* "open", or how the writer has left: "closed", "reset"
  call,      \* what the reader is in: "none", "line", "bytes" or "gone"
  want,      \* the number of bytes asked for
  result     \* what the last call has returned

streamVars == <<handed, transit, end, call, want, result>>

Take(s, k) == SubSeq(s, 1, k)

Drop(s, k) == SubSeq(s, k + 1, Len(s))

Data(bytes) == [rc |-> "data", bytes |-> bytes]

Eof == [rc |-> "eof", bytes |-> <<>>]

Error == [rc |-> "error", bytes |-> <<>>]

\* The first k bytes of s are a line: up to the first newline, or as much as
\* fits into the buffer with its terminator.
IsLine(s, k) ==
  /\ k \in 1 .. maxlen - 1
  /\ \A i \in 1 .. k - 1 : s[i] # NL
  /\ s[k] = NL \/ k = maxlen - 1

HasLine(s) == \E k \in 1 .. Len(s) : IsLine(s, k)

Init ==
  /\ handed = <<>> /\ transit = <<>>
  /\ end = "open"
  /\ call = "none" /\ want = 0
  /\ result = Eof

-----------------------------------------------------------------------------

Write(m) ==
  /\ end = "open" /\ handed = <<>>
  /\ handed' = m
  /\ UNCHANGED <<transit, end, call, want, result>>

Arrive ==
  \E k \in 1 .. Len(handed) :
    /\ transit' = transit \o Take(handed, k)
    /\ handed' = Drop(handed, k)
    /\ UNCHANGED <<end, call, want, result>>

\* A write fails for good only when the reader has hung up.
WriteLost ==
  /\ call = "gone" /\ handed # <<>>
  /\ handed' = <<>>
  /\ UNCHANGED <<transit, end, call, want, result>>

Leave(how) ==
  /\ end = "open" /\ (how = "closed" => handed = <<>>)
  /\ end' = how /\ handed' = <<>>
  /\ UNCHANGED <<transit, call, want, result>>

Call(kind, n) ==
  /\ call = "none"
  /\ call' = kind /\ want' = n
  /\ UNCHANGED <<handed, transit, end, result>>

HangUp ==
  /\ call = "none"
  /\ call' = "gone"
  /\ UNCHANGED <<handed, transit, end, want, result>>

Return(r, rest) ==
  /\ call' = "none" /\ result' = r /\ transit' = rest
  /\ UNCHANGED <<handed, want>>

TakeLine ==
  \E k \in 1 .. Len(transit) :
    /\ call = "line" /\ IsLine(transit, k)
    /\ Return(Data(Take(transit, k)), Drop(transit, k))
    /\ UNCHANGED end

TakeBytes ==
  /\ call = "bytes" /\ want <= Len(transit)
  /\ Return(Data(Take(transit, want)), Drop(transit, want))
  /\ UNCHANGED end

\* Nothing more will come: the call gets what is left, or end-of-file.
TakeRest ==
  /\ call \in {"line", "bytes"} /\ end = "closed"
  /\ IF call = "line" THEN ~HasLine(transit) ELSE Len(transit) < want
  /\ Return(IF transit = <<>> THEN Eof ELSE Data(transit), <<>>)
  /\ UNCHANGED end

\* The end of a connection that was reset is reported once as an error.
\* What had arrived of the line is lost with it.
Fail ==
  /\ call \in {"line", "bytes"} /\ end = "reset"
  /\ IF call = "line" THEN ~HasLine(transit) ELSE Len(transit) < want
  /\ Return(Error, <<>>)
  /\ end' = "closed"

Next ==
  \/ \E m \in Messages : Write(m)
  \/ Arrive \/ WriteLost
  \/ \E how \in {"closed", "reset"} : Leave(how)
  \/ Call("line", 0)
  \/ \E n \in Counts : Call("bytes", n)
  \/ HangUp
  \/ TakeLine \/ TakeBytes \/ TakeRest \/ Fail

Spec == Init /\ [][Next]_streamVars
=============================================================================
