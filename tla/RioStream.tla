----------------------------- MODULE RioStream ------------------------------
(***************************************************************************)
(* The Robust I/O package (csf_assign05/csapp.c) on the two ends of one    *)
(* direction of a connection: rio_writen on one end, rio_readlineb and     *)
(* rio_readnb with their shared buffer on the other, and the kernel's      *)
(* read and write between them, which may move fewer bytes than they were  *)
(* asked to and may be interrupted.  One step per system call or per call  *)
(* of rio_read.                                                            *)
(*                                                                         *)
(* A write that is interrupted changes nothing and is tried again: it is   *)
(* no step of its own.                                                     *)
(***************************************************************************)
EXTENDS Integers, Sequences, FiniteSets

CONSTANTS
  Bytes,        \* the characters
  Messages,     \* what the writer writes: nonempty sequences of bytes
  MaxWrites,    \* how many messages the writer writes
  Counts,       \* the numbers of bytes that rio_readnb is asked for
  maxlen,       \* the size of the buffer given to rio_readlineb
  RIO_BUFSIZE,  \* the size of the internal buffer
  PipeMax,      \* how many bytes the kernel keeps for the reader
  NL            \* the newline

ASSUME RioAssumption ==
  /\ NL \in Bytes
  /\ \A m \in Messages : m \in Seq(Bytes) /\ m # <<>>
  /\ MaxWrites \in Nat
  /\ \A n \in Counts : n \in Nat /\ n >= 1
  /\ maxlen \in Nat /\ maxlen >= 2
  /\ RIO_BUFSIZE \in Nat /\ RIO_BUFSIZE >= 1
  /\ PipeMax \in Nat /\ PipeMax >= 1

VARIABLES
  usrbuf,       \* the writer: the nleft bytes at bufp
  nwrites,      \* how many messages it has begun to write
  end,          \* "open", or how it has left: "closed" or "reset"
  pipe,         \* the kernel: bytes written and not read
  rio_buf,      \* the internal buffer of the reader
  rio_bufptr,   \* the index in it of the next byte
  rio_cnt,      \* how many bytes of it are unread, or what read returned
  call,         \* the function that the reader is in, if any
  want,         \* the number of bytes that rio_readnb was asked for
  bufp,         \* what that function has put into the caller's buffer
  result        \* what the last call has returned

writer == <<usrbuf, nwrites>>
rio    == <<rio_buf, rio_bufptr, rio_cnt>>
reader == <<call, want, bufp, result>>
vars   == <<writer, end, pipe, rio, reader>>

Lesser(a, b) == IF a < b THEN a ELSE b

Unread == SubSeq(rio_buf, rio_bufptr, rio_bufptr + rio_cnt - 1)

\* What the callers are promised; see LineStream.
stream == INSTANCE LineStream
            WITH handed <- usrbuf, transit <- bufp \o Unread \o pipe

Init ==
  /\ usrbuf = <<>> /\ nwrites = 0
  /\ end = "open" /\ pipe = <<>>
  /\ rio_buf = <<>> /\ rio_bufptr = 1 /\ rio_cnt = 0
  /\ call = "none" /\ want = 0 /\ bufp = <<>>
  /\ result = stream!Eof

-----------------------------------------------------------------------------
(* The writer.                                                             *)

Writen(m) ==
  /\ end = "open" /\ usrbuf = <<>> /\ nwrites < MaxWrites
  /\ usrbuf' = m /\ nwrites' = nwrites + 1
  /\ UNCHANGED <<end, pipe, rio, reader>>

\* MUTANT: a short write is taken for a whole one.
WriteShort(nwritten) ==
  /\ call # "gone"
  /\ nwritten \in 1 .. Lesser(Len(usrbuf), PipeMax - Len(pipe))
  /\ pipe' = pipe \o stream!Take(usrbuf, nwritten)
  /\ usrbuf' = <<>>
  /\ UNCHANGED <<nwrites, end, rio, reader>>

\* write returns nwritten, which may be less than nleft.
WriteSome(nwritten) ==
  /\ call # "gone"
  /\ nwritten \in 1 .. Lesser(Len(usrbuf), PipeMax - Len(pipe))
  /\ pipe' = pipe \o stream!Take(usrbuf, nwritten)
  /\ usrbuf' = stream!Drop(usrbuf, nwritten)
  /\ UNCHANGED <<nwrites, end, rio, reader>>

\* write fails for good: rio_writen returns -1 and forgets the rest.
WriteFails ==
  /\ call = "gone" /\ usrbuf # <<>>
  /\ usrbuf' = <<>>
  /\ UNCHANGED <<nwrites, end, pipe, rio, reader>>

\* The writer closes its end, or is gone without having done so.
Close ==
  /\ end = "open" /\ usrbuf = <<>>
  /\ end' = "closed"
  /\ UNCHANGED <<writer, pipe, rio, reader>>

Reset ==
  /\ end = "open"
  /\ end' = "reset" /\ usrbuf' = <<>>
  /\ UNCHANGED <<nwrites, pipe, rio, reader>>

-----------------------------------------------------------------------------
(* The reader.                                                             *)

Begin(kind, n) ==
  /\ call = "none"
  /\ call' = kind /\ want' = n /\ bufp' = <<>>
  /\ UNCHANGED <<writer, end, pipe, rio, result>>

Readlineb == Begin("line", 0)

Readnb(n) == Begin("bytes", n)

HangUp ==
  /\ call = "none"
  /\ call' = "gone"
  /\ UNCHANGED <<writer, end, pipe, rio, want, bufp, result>>

Return(r) ==
  /\ call' = "none" /\ result' = r /\ bufp' = <<>>
  /\ UNCHANGED want

\* rio_read has to refill its buffer first.
Empty == call \in {"line", "bytes"} /\ rio_cnt <= 0

\* MUTANT: a full internal buffer is waited for.
RefillFull(nread) ==
  /\ Empty
  /\ nread = RIO_BUFSIZE /\ nread <= Len(pipe)
  /\ rio_buf' = stream!Take(pipe, nread)
  /\ pipe' = stream!Drop(pipe, nread)
  /\ rio_bufptr' = 1 /\ rio_cnt' = nread
  /\ UNCHANGED <<writer, end, reader>>

\* MUTANT: the buffer pointer is not set back after a refill.
RefillOn(nread) ==
  /\ Empty
  /\ nread \in 1 .. Lesser(RIO_BUFSIZE, Len(pipe))
  /\ rio_buf' = stream!Take(pipe, nread)
  /\ pipe' = stream!Drop(pipe, nread)
  /\ rio_cnt' = nread
  /\ UNCHANGED <<rio_bufptr, writer, end, reader>>

Refill(nread) ==
  /\ Empty
  /\ nread \in 1 .. Lesser(RIO_BUFSIZE, Len(pipe))
  /\ rio_buf' = stream!Take(pipe, nread)
  /\ pipe' = stream!Drop(pipe, nread)
  /\ rio_bufptr' = 1 /\ rio_cnt' = nread
  /\ UNCHANGED <<writer, end, reader>>

\* A signal: the loop of rio_read goes round with rio_cnt = -1.
Interrupted ==
  /\ Empty
  /\ rio_cnt' = -1
  /\ UNCHANGED <<writer, end, pipe, rio_buf, rio_bufptr, reader>>

\* read reports end-of-file: the caller gets what it has so far.
EndOfFile ==
  /\ Empty /\ pipe = <<>> /\ end = "closed"
  /\ rio_cnt' = 0
  /\ Return(IF bufp = <<>> THEN stream!Eof ELSE stream!Data(bufp))
  /\ UNCHANGED <<writer, end, pipe, rio_buf, rio_bufptr>>

\* read reports that the connection was reset, and end-of-file from then on.
ReadFails ==
  /\ Empty /\ pipe = <<>> /\ end = "reset"
  /\ end' = "closed"
  /\ rio_cnt' = -1
  /\ Return(stream!Error)
  /\ UNCHANGED <<writer, pipe, rio_buf, rio_bufptr>>

\* rio_read copies cnt bytes to the caller.
Copied(cnt) ==
  /\ rio_bufptr' = rio_bufptr + cnt /\ rio_cnt' = rio_cnt - cnt
  /\ UNCHANGED <<writer, end, pipe, rio_buf>>

\* One round of rio_readlineb: a byte, and the end after a newline or when the
\* buffer has only room for the terminator.
LineStep ==
  LET c == rio_buf[rio_bufptr]
      line == Append(bufp, c) IN
  /\ call = "line" /\ rio_cnt > 0
  /\ Copied(1)
  /\ IF c = NL \/ Len(line) = maxlen - 1
     THEN Return(stream!Data(line))
     ELSE bufp' = line /\ UNCHANGED <<call, want, result>>

\* One round of rio_readnb: as much as there is of the nleft bytes.
BytesStep ==
  LET cnt == Lesser(want - Len(bufp), rio_cnt)
      bytes == bufp \o stream!Take(Unread, cnt) IN
  /\ call = "bytes" /\ rio_cnt > 0
  /\ Copied(cnt)
  /\ IF Len(bytes) = want
     THEN Return(stream!Data(bytes))
     ELSE bufp' = bytes /\ UNCHANGED <<call, want, result>>

Next ==
  \/ \E m \in Messages : Writen(m)
  \/ \E k \in 1 .. PipeMax : WriteSome(k)
  \/ WriteFails \/ Close \/ Reset
  \/ Readlineb \/ HangUp
  \/ \E n \in Counts : Readnb(n)
  \/ \E k \in 1 .. RIO_BUFSIZE : Refill(k)
  \/ Interrupted \/ EndOfFile \/ ReadFails \/ LineStep \/ BytesStep

Spec == Init /\ [][Next]_vars

(***************************************************************************)
(* A reader inside a call keeps running, and what has been written can be  *)
(* read.  Nothing is assumed about the writer.  A signal may always come,  *)
(* but the next read after it is tried at once.                            *)
(***************************************************************************)
Refills == \E k \in 1 .. RIO_BUFSIZE : Refill(k)

Fairness ==
  /\ WF_vars(Refills) /\ WF_vars(EndOfFile) /\ WF_vars(ReadFails)
  /\ WF_vars(LineStep) /\ WF_vars(BytesStep)

FairSpec == Spec /\ Fairness

-----------------------------------------------------------------------------
(* Properties.                                                             *)

(***************************************************************************)
(* Types.  The unread bytes lie inside what read has put into the buffer,  *)
(* so that rio_read never copies a byte from behind it, and a line never   *)
(* takes the byte that its terminator needs.                               *)
(***************************************************************************)
TypeOK ==
  /\ usrbuf \in Seq(Bytes) /\ pipe \in Seq(Bytes)
  /\ rio_buf \in Seq(Bytes) /\ bufp \in Seq(Bytes)
  /\ nwrites \in 0 .. MaxWrites
  /\ end \in {"open", "closed", "reset"}
  /\ Len(pipe) <= PipeMax /\ Len(rio_buf) <= RIO_BUFSIZE
  /\ rio_cnt \in -1 .. RIO_BUFSIZE /\ rio_bufptr \in 1 .. RIO_BUFSIZE + 1
  /\ rio_cnt > 0 => rio_bufptr + rio_cnt = Len(rio_buf) + 1
  /\ call \in {"none", "line", "bytes", "gone"} /\ want \in Counts \cup {0}
  /\ call # "line" \/ Len(bufp) < maxlen - 1
  /\ call # "bytes" \/ Len(bufp) < want

(***************************************************************************)
(* The package implements the stream: whatever the lengths of the single   *)
(* reads and writes, signals, and calls for lines mixed with calls for     *)
(* bytes, each call returns the next bytes of the stream, a line is        *)
(* exactly up to its newline or to the limit, and only the end of the      *)
(* connection makes a result shorter (connection.cpp relies on it in       *)
(* receive, and on a message being written whole in send).                 *)
(***************************************************************************)
ImplementsStream == stream!Spec

(***************************************************************************)
(* A call for a line comes back once the line is there, with nothing more  *)
(* having to be written: it never waits to fill its buffer.  A client and  *)
(* a worker that answer each other message by message depend on it.        *)
(***************************************************************************)
LineIsEnough ==
  (call = "line" /\ stream!HasLine(bufp \o Unread \o pipe)) ~> (call = "none")
=============================================================================
