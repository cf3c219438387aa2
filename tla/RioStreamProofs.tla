-------------------------- MODULE RioStreamProofs ---------------------------
(***************************************************************************)
(* Robust I/O keeps its types and implements LineStream, for every size of *)
(* its buffer, of the pipe and of a line, every set of messages and every  *)
(* number of them.  The inductive invariant is                             *)
(*                                                                         *)
(*   IInv == TypeOK /\ Handed                                              *)
(*                                                                         *)
(* TypeOK has where the unread bytes lie and how far a call may get before *)
(* it returns.  Handed says what lies in the buffer of the caller: nothing *)
(* outside of a call, and no newline inside a call for a line.             *)
(***************************************************************************)
EXTENDS RioStream, SequenceTheorems, TLAPS

Handed ==
  /\ call \in {"none", "gone"} => bufp = <<>>
  /\ call = "line" => \A i \in 1 .. Len(bufp) : bufp[i] # NL

IInv == TypeOK /\ Handed

-----------------------------------------------------------------------------
(* Sequences.                                                              *)

\* A sequence is its first k bytes and the rest.
LEMMA TakeDrop ==
  ASSUME NEW s \in Seq(Bytes), NEW k \in 0 .. Len(s)
  PROVE  /\ stream!Take(s, k) \in Seq(Bytes) /\ Len(stream!Take(s, k)) = k
         /\ stream!Drop(s, k) \in Seq(Bytes) /\ Len(stream!Drop(s, k)) = Len(s) - k
         /\ stream!Take(s, k) \o stream!Drop(s, k) = s
<1> USE DEF stream!Take, stream!Drop
<1>1. \A i \in 1 .. Len(s) : s[i] \in Bytes
  BY ElementOfSeq
<1>2. SubSeq(s, 1, k) \in Seq(Bytes) /\ Len(SubSeq(s, 1, k)) = k
  <2>1. \A i \in 1 .. k : s[i] \in Bytes
    BY <1>1
  <2> QED
    BY <2>1, SubSeqProperties
<1>3. SubSeq(s, k + 1, Len(s)) \in Seq(Bytes)
      /\ Len(SubSeq(s, k + 1, Len(s))) = Len(s) - k
  <2>1. \A i \in k + 1 .. Len(s) : s[i] \in Bytes
    BY <1>1
  <2> QED
    BY <2>1, SubSeqProperties
<1>4. SubSeq(s, 1, k) \o SubSeq(s, k + 1, Len(s)) = SubSeq(s, 1, Len(s))
  <2>1. Len(s) \in Nat /\ 1 \in 1 .. Len(s) + 1 /\ k \in 1 - 1 .. Len(s) /\ Len(s) \in k .. Len(s)
    OBVIOUS
  <2> QED
    BY <2>1, ConcatAdjacentSubSeq
<1> QED
  BY <1>2, <1>3, <1>4, SubSeqFull

LEMMA ConcatBytes ==
  ASSUME NEW s \in Seq(Bytes), NEW t \in Seq(Bytes)
  PROVE  s \o t \in Seq(Bytes) /\ Len(s \o t) = Len(s) + Len(t)
BY ConcatProperties

\* The first bytes of a sequence, and the rest, when it is put together.
LEMMA TakeDropConcat ==
  ASSUME NEW s \in Seq(Bytes), NEW t \in Seq(Bytes)
  PROVE  stream!Take(s \o t, Len(s)) = s /\ stream!Drop(s \o t, Len(s)) = t
<1> DEFINE u == s \o t
<1>1. /\ u \in Seq(Bytes) /\ Len(u) = Len(s) + Len(t)
      /\ \A i \in 1 .. Len(s) + Len(t) : u[i] = IF i <= Len(s) THEN s[i] ELSE t[i - Len(s)]
  BY ConcatProperties
<1>2. /\ Len(s) \in Nat /\ Len(t) \in Nat
  OBVIOUS
<1> HIDE DEF u
<1>3. stream!Take(u, Len(s)) = s
  <2>1. \A i \in 1 .. Len(s) : u[i] \in Bytes
    BY <1>1, <1>2, ElementOfSeq
  <2>2. /\ SubSeq(u, 1, Len(s)) \in Seq(Bytes) /\ Len(SubSeq(u, 1, Len(s))) = Len(s)
        /\ \A i \in 1 .. Len(s) : SubSeq(u, 1, Len(s))[i] = u[i]
    BY <2>1, <1>2, SubSeqProperties
  <2>3. \A i \in 1 .. Len(s) : SubSeq(u, 1, Len(s))[i] = s[i]
    BY <2>2, <1>1, <1>2
  <2> QED
    BY <2>2, <2>3, SeqEqual DEF stream!Take
<1>4. stream!Drop(u, Len(s)) = t
  <2>1. \A i \in Len(s) + 1 .. Len(u) : u[i] \in Bytes
    BY <1>1, <1>2, ElementOfSeq
  <2>2. /\ SubSeq(u, Len(s) + 1, Len(u)) \in Seq(Bytes)
        /\ Len(SubSeq(u, Len(s) + 1, Len(u))) = Len(t)
        /\ \A i \in 1 .. Len(t) : SubSeq(u, Len(s) + 1, Len(u))[i] = u[Len(s) + i]
    <3>1. \A i \in 1 .. Len(u) - (Len(s) + 1) + 1 :
            SubSeq(u, Len(s) + 1, Len(u))[i] = u[Len(s) + 1 + i - 1]
      BY <2>1, <1>1, <1>2, SubSeqProperties
    <3>2. /\ SubSeq(u, Len(s) + 1, Len(u)) \in Seq(Bytes)
          /\ Len(SubSeq(u, Len(s) + 1, Len(u))) =
               IF Len(s) + 1 <= Len(u) THEN Len(u) - (Len(s) + 1) + 1 ELSE 0
      BY <2>1, <1>1, <1>2, SubSeqProperties
    <3> QED
      BY <3>1, <3>2, <1>1, <1>2
  <2>3. \A i \in 1 .. Len(t) : SubSeq(u, Len(s) + 1, Len(u))[i] = t[i]
    <3> SUFFICES ASSUME NEW i \in 1 .. Len(t) PROVE u[Len(s) + i] = t[i]
      BY <2>2
    <3>1. Len(s) + i \in 1 .. Len(s) + Len(t) /\ ~(Len(s) + i <= Len(s))
          /\ Len(s) + i - Len(s) = i
      BY <1>2
    <3> QED
      BY <3>1, <1>1
  <2> QED
    BY <2>2, <2>3, SeqEqual DEF stream!Drop
<1> QED
  BY <1>3, <1>4 DEF u
-----------------------------------------------------------------------------
(* The invariant.                                                          *)

\* The unread bytes are bytes of the buffer, as many as rio_cnt says.
LEMMA UnreadBytes ==
  ASSUME TypeOK
  PROVE  /\ Unread \in Seq(Bytes)
         /\ rio_cnt <= 0 => Unread = <<>>
         /\ rio_cnt > 0 => Len(Unread) = rio_cnt
         /\ \A i \in 1 .. rio_cnt : Unread[i] = rio_buf[rio_bufptr + i - 1]
<1> USE DEF TypeOK
<1>1. CASE rio_cnt <= 0
  <2>1. rio_bufptr \in Int /\ rio_bufptr + rio_cnt - 1 \in Int
        /\ rio_bufptr + rio_cnt - 1 < rio_bufptr
    BY <1>1, RioAssumption DEF RioAssumption
  <2>2. Unread = <<>>
    BY <2>1, SubSeqEmpty DEF Unread
  <2> QED
    BY <1>1, <2>2, EmptySeq, RioAssumption DEF RioAssumption
<1>2. CASE rio_cnt > 0
  <2> DEFINE last == rio_bufptr + rio_cnt - 1
  <2>1. /\ rio_bufptr \in Int /\ last \in Int /\ rio_bufptr <= last
        /\ last - rio_bufptr + 1 = rio_cnt
        /\ \A i \in rio_bufptr .. last : i \in 1 .. Len(rio_buf)
    BY <1>2, RioAssumption DEF RioAssumption
  <2>2. \A i \in rio_bufptr .. last : rio_buf[i] \in Bytes
    BY <2>1, ElementOfSeq
  <2> HIDE DEF last
  <2>3. /\ SubSeq(rio_buf, rio_bufptr, last) \in Seq(Bytes)
        /\ Len(SubSeq(rio_buf, rio_bufptr, last)) = rio_cnt
        /\ \A i \in 1 .. rio_cnt :
             SubSeq(rio_buf, rio_bufptr, last)[i] = rio_buf[rio_bufptr + i - 1]
    BY <2>1, <2>2, SubSeqProperties
  <2> QED
    BY <1>2, <2>3 DEF Unread, last
<1> QED
  BY <1>1, <1>2, RioAssumption DEF RioAssumption

\* Copying from the buffer leaves the unread bytes inside it.
LEMMA CopyStep ==
  ASSUME TypeOK, NEW cnt \in 1 .. rio_cnt, Copied(cnt)
  PROVE  /\ UNCHANGED <<usrbuf, nwrites, end, pipe, rio_buf>>
         /\ rio_cnt' \in 0 .. RIO_BUFSIZE /\ rio_bufptr' \in 1 .. RIO_BUFSIZE + 1
         /\ rio_cnt' > 0 => rio_bufptr' + rio_cnt' = Len(rio_buf) + 1
<1>1. UNCHANGED <<usrbuf, nwrites, end, pipe, rio_buf>>
  BY DEF Copied, writer
<1>2. /\ rio_cnt \in 1 .. RIO_BUFSIZE /\ rio_bufptr \in 1 .. RIO_BUFSIZE + 1
      /\ rio_bufptr + rio_cnt = Len(rio_buf) + 1
      /\ Len(rio_buf) \in 0 .. RIO_BUFSIZE /\ RIO_BUFSIZE \in Nat
    BY RioAssumption DEF RioAssumption, TypeOK
<1>3. rio_bufptr' = rio_bufptr + cnt /\ rio_cnt' = rio_cnt - cnt
  BY DEF Copied
<1> QED
  BY <1>1, <1>2, <1>3

\* A call that comes back leaves nothing of its own behind.
LEMMA ReturnStep ==
  ASSUME NEW r, Return(r)
  PROVE  call' = "none" /\ bufp' = <<>> /\ bufp' \in Seq(Bytes) /\ want' = want
BY EmptySeq DEF Return

\* Each step keeps the types, the place of the unread bytes, and what the
\* caller's buffer may hold: of the steps of rio_read, only a refill moves the
\* pointer back, and only a call that goes on keeps bytes.
LEMMA InvStep == IInv /\ [Next]_vars => IInv'
<1> SUFFICES ASSUME IInv, [Next]_vars PROVE IInv'
  OBVIOUS
<1>0. /\ TypeOK /\ Handed
      /\ usrbuf \in Seq(Bytes) /\ pipe \in Seq(Bytes)
      /\ rio_buf \in Seq(Bytes) /\ bufp \in Seq(Bytes)
      /\ Len(usrbuf) \in Nat /\ Len(pipe) \in Nat /\ Len(bufp) \in Nat
  BY DEF IInv, TypeOK
<1>1. ASSUME NEW m \in Messages, Writen(m) PROVE IInv'
  BY <1>1, RioAssumption
     DEF RioAssumption, IInv, TypeOK, Handed, rio, reader, Writen
<1>2. ASSUME NEW k \in 1 .. PipeMax, WriteSome(k) PROVE IInv'
  <2>1. k \in 0 .. Len(usrbuf) /\ k + Len(pipe) <= PipeMax
    BY <1>0, <1>2, RioAssumption DEF RioAssumption, WriteSome, Lesser
  <2>2. /\ stream!Take(usrbuf, k) \in Seq(Bytes) /\ Len(stream!Take(usrbuf, k)) = k
        /\ stream!Drop(usrbuf, k) \in Seq(Bytes)
    BY <1>0, <2>1, TakeDrop
  <2>3. pipe' = pipe \o stream!Take(usrbuf, k) /\ usrbuf' = stream!Drop(usrbuf, k)
        /\ UNCHANGED <<nwrites, end, rio, reader>>
    BY <1>2 DEF WriteSome
  <2>4. pipe' \in Seq(Bytes) /\ Len(pipe') = Len(pipe) + k
    <3> DEFINE new == stream!Take(usrbuf, k)
    <3>1. new \in Seq(Bytes) /\ Len(new) = k /\ pipe' = pipe \o new
      BY <2>2, <2>3
    <3> HIDE DEF new
    <3>2. pipe \o new \in Seq(Bytes) /\ Len(pipe \o new) = Len(pipe) + Len(new)
      BY <1>0, <3>1, ConcatBytes
    <3> QED
      BY <3>1, <3>2
  <2> QED
    BY <2>1, <2>2, <2>3, <2>4 DEF IInv, TypeOK, Handed, rio, reader
<1>3. CASE WriteFails
  BY <1>3 DEF WriteFails, IInv, TypeOK, Handed, rio, reader
<1>4. CASE Close
  BY <1>4 DEF Close, IInv, TypeOK, Handed, writer, rio, reader
<1>5. CASE Reset
  BY <1>5 DEF Reset, IInv, TypeOK, Handed, rio, reader
<1>6. CASE Readlineb
  BY <1>6, RioAssumption
     DEF RioAssumption, Readlineb, Begin, IInv, TypeOK, Handed, writer, rio
<1>7. CASE HangUp
  BY <1>7 DEF HangUp, IInv, TypeOK, Handed, writer, rio
<1>8. ASSUME NEW n \in Counts, Readnb(n) PROVE IInv'
  BY <1>8, RioAssumption
     DEF RioAssumption, Readnb, Begin, IInv, TypeOK, Handed, writer, rio
<1>9. ASSUME NEW k \in 1 .. RIO_BUFSIZE, Refill(k) PROVE IInv'
  <2>1. k \in 0 .. Len(pipe)
    BY <1>0, <1>9, RioAssumption DEF RioAssumption, Refill, Lesser
  <2>2. /\ stream!Take(pipe, k) \in Seq(Bytes) /\ Len(stream!Take(pipe, k)) = k
        /\ stream!Drop(pipe, k) \in Seq(Bytes)
        /\ Len(stream!Drop(pipe, k)) = Len(pipe) - k
    BY <1>0, <2>1, TakeDrop
  <2> QED
    BY <1>9, <2>1, <2>2, RioAssumption
       DEF RioAssumption, Refill, IInv, TypeOK, Handed, writer, reader
<1>10. CASE Interrupted
  BY <1>10, RioAssumption
     DEF RioAssumption, Interrupted, IInv, TypeOK, Handed, writer, reader
<1>11. CASE EndOfFile
  <2>1. call' = "none" /\ bufp' = <<>> /\ bufp' \in Seq(Bytes) /\ want' = want
    BY <1>11, ReturnStep DEF EndOfFile
  <2> QED
    BY <1>11, <2>1, RioAssumption
       DEF RioAssumption, EndOfFile, IInv, TypeOK, Handed, writer
<1>12. CASE ReadFails
  <2>1. call' = "none" /\ bufp' = <<>> /\ bufp' \in Seq(Bytes) /\ want' = want
    BY <1>12, ReturnStep DEF ReadFails
  <2> QED
    BY <1>12, <2>1, RioAssumption
       DEF RioAssumption, ReadFails, IInv, TypeOK, Handed, writer
<1>13. CASE LineStep
  <2> DEFINE c == rio_buf[rio_bufptr]
             line == Append(bufp, c)
  <2>1. call = "line" /\ rio_cnt > 0 /\ Copied(1)
    BY <1>13 DEF LineStep
  <2>2. \/ Return(stream!Data(line))
        \/ /\ c # NL /\ Len(line) # maxlen - 1
           /\ bufp' = line /\ UNCHANGED <<call, want, result>>
    BY <1>13 DEF LineStep
  <2>3. 1 \in 1 .. rio_cnt /\ rio_bufptr \in 1 .. Len(rio_buf)
    BY <2>1, RioAssumption DEF RioAssumption, IInv, TypeOK
  <2>4. c \in Bytes
    BY <1>0, <2>3, ElementOfSeq
  <2> HIDE DEF c
  <2>5. /\ line \in Seq(Bytes) /\ Len(line) = Len(bufp) + 1
        /\ \A i \in 1 .. Len(bufp) : line[i] = bufp[i]
        /\ line[Len(bufp) + 1] = c
    BY <1>0, <2>4, AppendProperties
  <2> HIDE DEF line
  <2>6. /\ UNCHANGED <<usrbuf, nwrites, end, pipe, rio_buf>>
        /\ rio_cnt' \in 0 .. RIO_BUFSIZE /\ rio_bufptr' \in 1 .. RIO_BUFSIZE + 1
        /\ rio_cnt' > 0 => rio_bufptr' + rio_cnt' = Len(rio_buf) + 1
    BY <1>0, <2>1, <2>3, CopyStep
  <2>7. CASE Return(stream!Data(line))
    <3>1. call' = "none" /\ bufp' = <<>> /\ bufp' \in Seq(Bytes) /\ want' = want
      BY <2>7, ReturnStep
    <3> QED
      BY <2>6, <3>1, RioAssumption DEF RioAssumption, IInv, TypeOK, Handed
  <2>8. CASE /\ c # NL /\ Len(line) # maxlen - 1
             /\ bufp' = line /\ UNCHANGED <<call, want, result>>
    <3>1. \A i \in 1 .. Len(bufp) : bufp[i] # NL
      BY <1>0, <2>1 DEF Handed
    <3>2. /\ Len(line) = Len(bufp) + 1 /\ Len(bufp) \in Nat /\ c # NL
          /\ \A i \in 1 .. Len(bufp) : line[i] = bufp[i]
          /\ line[Len(bufp) + 1] = c
      BY <1>0, <2>5, <2>8
    <3>3. \A i \in 1 .. Len(line) : line[i] # NL
      BY <3>1, <3>2
    <3>4. Len(bufp) < maxlen - 1 /\ Len(line) # maxlen - 1 /\ maxlen \in Nat
      BY <2>1, <2>8, RioAssumption DEF RioAssumption, IInv, TypeOK
    <3>5. Len(line) < maxlen - 1
      BY <3>2, <3>4
    <3> QED
      BY <2>1, <2>5, <2>6, <2>8, <3>3, <3>5, RioAssumption
         DEF RioAssumption, IInv, TypeOK, Handed
  <2> QED
    BY <2>2, <2>7, <2>8
<1>14. CASE BytesStep
  <2> DEFINE cnt == Lesser(want - Len(bufp), rio_cnt)
             bytes == bufp \o stream!Take(Unread, cnt)
  <2>1. call = "bytes" /\ rio_cnt > 0 /\ Copied(cnt)
    BY <1>14 DEF BytesStep
  <2>2. \/ Return(stream!Data(bytes))
        \/ Len(bytes) # want /\ bufp' = bytes /\ UNCHANGED <<call, want, result>>
    BY <1>14 DEF BytesStep
  <2>3. /\ want \in Nat /\ rio_cnt \in Nat /\ Len(bufp) < want
        /\ cnt \in 1 .. rio_cnt /\ cnt <= want - Len(bufp)
    BY <1>0, <2>1, RioAssumption DEF RioAssumption, Lesser, IInv, TypeOK
  <2> HIDE DEF cnt
  <2>4. Len(Unread) = rio_cnt /\ Unread \in Seq(Bytes)
    BY <1>0, <2>1, UnreadBytes
  <2>5. stream!Take(Unread, cnt) \in Seq(Bytes) /\ Len(stream!Take(Unread, cnt)) = cnt
    <3>1. cnt \in 0 .. Len(Unread)
      BY <2>3, <2>4
    <3> QED
      BY <2>4, <3>1, TakeDrop
  <2>6. bytes \in Seq(Bytes) /\ Len(bytes) = Len(bufp) + cnt
    BY <1>0, <2>5, ConcatBytes
  <2> HIDE DEF bytes
  <2>7. /\ UNCHANGED <<usrbuf, nwrites, end, pipe, rio_buf>>
        /\ rio_cnt' \in 0 .. RIO_BUFSIZE /\ rio_bufptr' \in 1 .. RIO_BUFSIZE + 1
        /\ rio_cnt' > 0 => rio_bufptr' + rio_cnt' = Len(rio_buf) + 1
    BY <1>0, <2>1, <2>3, CopyStep
  <2>8. CASE Return(stream!Data(bytes))
    <3>1. call' = "none" /\ bufp' = <<>> /\ bufp' \in Seq(Bytes) /\ want' = want
      BY <2>8, ReturnStep
    <3> QED
      BY <2>7, <3>1, RioAssumption DEF RioAssumption, IInv, TypeOK, Handed
  <2>9. CASE Len(bytes) # want /\ bufp' = bytes /\ UNCHANGED <<call, want, result>>
    <3>1. Len(bytes) # want /\ Len(bytes) = Len(bufp) + cnt /\ Len(bufp) \in Nat
      BY <1>0, <2>6, <2>9
    <3>2. Len(bytes) < want
      BY <2>3, <3>1
    <3> QED
      BY <2>1, <2>6, <2>7, <2>9, <3>2, RioAssumption
         DEF RioAssumption, IInv, TypeOK, Handed
  <2> QED
    BY <2>2, <2>8, <2>9
<1>15. CASE UNCHANGED vars
  BY <1>15 DEF vars, IInv, TypeOK, Handed, writer, rio, reader
<1> QED
  BY <1>1, <1>2, <1>3, <1>4, <1>5, <1>6, <1>7, <1>8, <1>9, <1>10, <1>11, <1>12,
     <1>13, <1>14, <1>15 DEF Next

LEMMA InvInit == Init => IInv
BY RioAssumption, EmptySeq DEF RioAssumption, Init, IInv, TypeOK, Handed

LEMMA Invariance == Spec => []IInv
BY InvInit, InvStep, PTL DEF Spec

\* The buffer of rio_t and that of the caller are used within their bounds, by
\* calls for lines and for bytes in any order (csapp.c:811-899).
THEOREM TypeCorrect == Spec => []TypeOK
<1>1. IInv => TypeOK
  BY DEF IInv
<1> QED
  BY <1>1, Invariance, PTL

-----------------------------------------------------------------------------
(* The refinement.                                                         *)

LEMMA Joined ==
  ASSUME NEW s \in Seq(Bytes), NEW t \in Seq(Bytes), NEW u \in Seq(Bytes)
  PROVE  /\ s \o t \o u \in Seq(Bytes)
         /\ (s \o t) \o u = s \o (t \o u)
         /\ s \o <<>> = s /\ <<>> \o s = s
<1>1. s \o t \in Seq(Bytes)
  BY ConcatBytes
<1>2. (s \o t) \o u \in Seq(Bytes)
  BY <1>1, ConcatBytes
<1> QED
  BY <1>2, ConcatAssociative, ConcatEmptySeq

\* Bytes that are copied to the caller are the next unread ones: they move
\* from the one buffer to the other.
LEMMA CopyMoves ==
  ASSUME TypeOK, NEW cnt \in 1 .. rio_cnt, Copied(cnt)
  PROVE  /\ stream!Take(Unread, cnt) \in Seq(Bytes)
         /\ Unread' \in Seq(Bytes)
         /\ Unread = stream!Take(Unread, cnt) \o Unread'
<1>1. /\ rio_cnt \in Nat /\ rio_bufptr \in Nat /\ rio_cnt > 0 /\ cnt \in Nat
      /\ rio_buf' = rio_buf /\ rio_bufptr' = rio_bufptr + cnt /\ rio_cnt' = rio_cnt - cnt
  BY RioAssumption DEF RioAssumption, TypeOK, Copied
<1>2. Unread \in Seq(Bytes) /\ Len(Unread) = rio_cnt
      /\ \A i \in 1 .. rio_cnt : Unread[i] = rio_buf[rio_bufptr + i - 1]
  BY <1>1, UnreadBytes
<1>3. cnt \in 0 .. Len(Unread)
  BY <1>1, <1>2
<1>4. /\ stream!Take(Unread, cnt) \in Seq(Bytes)
      /\ stream!Drop(Unread, cnt) \in Seq(Bytes)
      /\ Len(stream!Drop(Unread, cnt)) = rio_cnt - cnt
      /\ stream!Take(Unread, cnt) \o stream!Drop(Unread, cnt) = Unread
  BY <1>2, <1>3, TakeDrop
<1>5. Unread' = stream!Drop(Unread, cnt)
  <2> DEFINE a == rio_bufptr + cnt
             b == a + (rio_cnt - cnt) - 1
  <2>1. Unread' = SubSeq(rio_buf, a, b)
    BY <1>1 DEF Unread
  <2>2. a \in Int /\ b \in Int /\ b - a + 1 = rio_cnt - cnt
        /\ (IF a <= b THEN b - a + 1 ELSE 0) = rio_cnt - cnt
    BY <1>1
  <2>3. \A i \in a .. b : rio_buf[i] \in Bytes
    <3>1. ASSUME NEW i \in a .. b PROVE i \in 1 .. Len(rio_buf)
      BY <1>1, RioAssumption DEF RioAssumption, TypeOK
    <3> QED
      BY <3>1, ElementOfSeq DEF TypeOK
  <2>4. \A i \in cnt + 1 .. Len(Unread) : Unread[i] \in Bytes
    BY <1>1, <1>2, ElementOfSeq
  <2> HIDE DEF a, b
  <2>5. /\ SubSeq(rio_buf, a, b) \in Seq(Bytes)
        /\ Len(SubSeq(rio_buf, a, b)) = rio_cnt - cnt
        /\ \A i \in 1 .. rio_cnt - cnt : SubSeq(rio_buf, a, b)[i] = rio_buf[a + i - 1]
    BY <2>2, <2>3, SubSeqProperties
  <2>6. \A i \in 1 .. rio_cnt - cnt :
          stream!Drop(Unread, cnt)[i] = Unread[cnt + 1 + i - 1]
    <3>1. \A i \in 1 .. Len(Unread) - (cnt + 1) + 1 :
            SubSeq(Unread, cnt + 1, Len(Unread))[i] = Unread[cnt + 1 + i - 1]
      BY <1>1, <1>2, <2>4, SubSeqProperties
    <3> QED
      BY <1>1, <1>2, <3>1 DEF stream!Drop
  <2>7. ASSUME NEW i \in 1 .. rio_cnt - cnt
        PROVE  SubSeq(rio_buf, a, b)[i] = stream!Drop(Unread, cnt)[i]
    <3>1. /\ cnt + 1 + i - 1 \in 1 .. rio_cnt
          /\ rio_bufptr + (cnt + 1 + i - 1) - 1 = a + i - 1
      BY <1>1 DEF a
    <3>2. Unread[cnt + 1 + i - 1] = rio_buf[a + i - 1]
      BY <1>2, <3>1
    <3> QED
      BY <2>5, <2>6, <3>2
  <2> QED
    BY <1>4, <2>1, <2>5, <2>7, SeqEqual
<1> QED
  BY <1>4, <1>5

\* What was written and not returned yet.
Ahead == bufp \o Unread \o pipe

\* The caller's buffer holds no line while a call for one goes on, and fewer
\* bytes than were asked for while a call for bytes does.
LEMMA NothingWhole ==
  ASSUME IInv, call \in {"line", "bytes"}
  PROVE  IF call = "line" THEN ~stream!HasLine(bufp) ELSE Len(bufp) < want
<1>1. CASE call = "line"
  <2>1. /\ Len(bufp) \in Nat /\ Len(bufp) < maxlen - 1 /\ maxlen \in Nat
        /\ \A i \in 1 .. Len(bufp) : bufp[i] # NL
    BY <1>1, RioAssumption DEF RioAssumption, IInv, TypeOK, Handed
  <2>2. ASSUME NEW k \in 1 .. Len(bufp) PROVE ~stream!IsLine(bufp, k)
    BY <2>1 DEF stream!IsLine
  <2> QED
    BY <1>1, <2>2 DEF stream!HasLine
<1>2. CASE call = "bytes"
  BY <1>2 DEF IInv, TypeOK
<1> QED
  BY <1>1, <1>2

\* A step that leaves what the abstract stream has alone is a stutter of it.
LEMMA Stutter ==
  ASSUME Ahead' = Ahead, UNCHANGED <<usrbuf, end, call, want, result>>
  PROVE  UNCHANGED stream!streamVars
BY DEF Ahead, stream!streamVars

\* Bytes that the kernel takes have arrived.
LEMMA RefineWrite ==
  ASSUME IInv, NEW k \in 1 .. PipeMax, WriteSome(k)
  PROVE  stream!Arrive
<1>1. k \in 1 .. Len(usrbuf) /\ usrbuf \in Seq(Bytes) /\ pipe \in Seq(Bytes)
      /\ bufp \in Seq(Bytes) /\ Len(usrbuf) \in Nat
  BY RioAssumption DEF RioAssumption, WriteSome, Lesser, IInv, TypeOK
<1>2. stream!Take(usrbuf, k) \in Seq(Bytes)
  <2>1. k \in 0 .. Len(usrbuf)
    BY <1>1
  <2> QED
    BY <1>1, <2>1, TakeDrop
<1>3. Unread \in Seq(Bytes)
  BY UnreadBytes DEF IInv
<1>4. /\ pipe' = pipe \o stream!Take(usrbuf, k) /\ usrbuf' = stream!Drop(usrbuf, k)
      /\ UNCHANGED <<end, call, want, result, bufp>> /\ Unread' = Unread
  BY DEF WriteSome, rio, reader, Unread
<1>5. bufp \o Unread \in Seq(Bytes)
  BY <1>1, <1>3, ConcatBytes
<1>6. (bufp \o Unread) \o (pipe \o stream!Take(usrbuf, k))
        = ((bufp \o Unread) \o pipe) \o stream!Take(usrbuf, k)
  BY <1>1, <1>2, <1>5, Joined
<1>7. Ahead' = Ahead \o stream!Take(usrbuf, k)
  BY <1>4, <1>6 DEF Ahead
<1> QED
  BY <1>1, <1>4, <1>7 DEF stream!Arrive, Ahead

\* A refill moves bytes from the pipe to the buffer.
LEMMA RefineRefill ==
  ASSUME IInv, NEW k \in 1 .. RIO_BUFSIZE, Refill(k)
  PROVE  UNCHANGED stream!streamVars
<1>1. k \in 0 .. Len(pipe) /\ k \in Nat /\ pipe \in Seq(Bytes) /\ bufp \in Seq(Bytes)
      /\ rio_cnt <= 0 /\ TypeOK
  BY RioAssumption DEF RioAssumption, Refill, Lesser, Empty, IInv, TypeOK
<1>2. Unread = <<>>
  BY <1>1, UnreadBytes
<1>3. /\ stream!Take(pipe, k) \in Seq(Bytes) /\ Len(stream!Take(pipe, k)) = k
      /\ stream!Drop(pipe, k) \in Seq(Bytes)
      /\ stream!Take(pipe, k) \o stream!Drop(pipe, k) = pipe
  BY <1>1, TakeDrop
<1>4. Unread' = SubSeq(stream!Take(pipe, k), 1, 1 + k - 1)
  BY DEF Refill, Unread
<1>5. Unread' = stream!Take(pipe, k)
  <2>1. 1 + k - 1 = Len(stream!Take(pipe, k))
    BY <1>1, <1>3
  <2> QED
    BY <1>3, <1>4, <2>1, SubSeqFull
<1>6. pipe' = stream!Drop(pipe, k) /\ UNCHANGED <<usrbuf, end, call, want, result, bufp>>
  BY DEF Refill, writer, reader
<1>7. (bufp \o stream!Take(pipe, k)) \o stream!Drop(pipe, k) = bufp \o pipe
  <2> DEFINE new == stream!Take(pipe, k)
             rest == stream!Drop(pipe, k)
  <2>1. new \in Seq(Bytes) /\ rest \in Seq(Bytes) /\ new \o rest = pipe
    BY <1>3
  <2> HIDE DEF new, rest
  <2>2. (bufp \o new) \o rest = bufp \o (new \o rest)
    BY <1>1, <2>1, Joined
  <2> QED
    BY <2>1, <2>2 DEF new, rest
<1>8. (bufp \o <<>>) \o pipe = bufp \o pipe
  BY <1>1, ConcatEmptySeq
<1>9. Ahead' = Ahead
  BY <1>2, <1>5, <1>6, <1>7, <1>8 DEF Ahead
<1> QED
  BY <1>6, <1>9, Stutter

\* After a signal there is as little in the buffer as before.
LEMMA RefineSignal ==
  ASSUME IInv, Interrupted
  PROVE  UNCHANGED stream!streamVars
<1>1. TypeOK /\ rio_cnt <= 0 /\ TypeOK'
  BY InvStep DEF Interrupted, Empty, IInv, Next
<1>2. Unread = <<>>
  BY <1>1, UnreadBytes
<1>3. rio_bufptr' \in Int /\ rio_bufptr' + rio_cnt' - 1 \in Int
      /\ rio_bufptr' + rio_cnt' - 1 < rio_bufptr'
  BY <1>1, RioAssumption DEF RioAssumption, TypeOK, Interrupted
<1>4. Unread' = <<>>
  BY <1>3, SubSeqEmpty DEF Unread
<1>5. UNCHANGED <<usrbuf, end, pipe, call, want, result, bufp>>
  BY DEF Interrupted, writer, reader
<1> QED
  BY <1>2, <1>4, <1>5, Stutter DEF Ahead

\* A call that nothing more comes for returns what it has.
LEMMA RefineEnd ==
  ASSUME IInv, EndOfFile \/ ReadFails
  PROVE  stream!TakeRest \/ stream!Fail
<1>1. /\ TypeOK /\ rio_cnt <= 0 /\ pipe = <<>> /\ bufp \in Seq(Bytes)
      /\ call \in {"line", "bytes"} /\ rio_cnt' \in {-1, 0}
      /\ UNCHANGED <<usrbuf, pipe, rio_buf, rio_bufptr>>
  BY DEF IInv, TypeOK, EndOfFile, ReadFails, Empty, writer
<1>2. Unread = <<>>
  BY <1>1, UnreadBytes
<1>3. rio_bufptr' \in Int /\ rio_bufptr' + rio_cnt' - 1 \in Int
      /\ rio_bufptr' + rio_cnt' - 1 < rio_bufptr'
  <2>1. rio_bufptr \in Int
    BY <1>1, RioAssumption DEF RioAssumption, TypeOK
  <2>2. rio_bufptr' = rio_bufptr
    BY <1>1
  <2>3. rio_cnt' = -1 \/ rio_cnt' = 0
    BY <1>1
  <2> QED
    BY <2>1, <2>2, <2>3
<1>4. Unread' = <<>>
  BY <1>3, SubSeqEmpty DEF Unread
<1>5. Ahead = bufp
  BY <1>1, <1>2, ConcatEmptySeq DEF Ahead
<1>6. IF call = "line" THEN ~stream!HasLine(Ahead) ELSE Len(Ahead) < want
  BY <1>1, <1>5, NothingWhole
<1>7. ASSUME NEW r, Return(r)
      PROVE  /\ call' = "none" /\ result' = r /\ want' = want
             /\ Ahead' = <<>>
  <2>1. bufp' = <<>> /\ call' = "none" /\ result' = r /\ want' = want
    BY <1>7 DEF Return
  <2>2. (<<>> \o <<>>) \o <<>> = <<>>
    BY EmptySeq, ConcatEmptySeq
  <2> QED
    BY <1>1, <1>4, <2>1, <2>2 DEF Ahead
<1>8. CASE EndOfFile
  <2>1. Return(IF bufp = <<>> THEN stream!Eof ELSE stream!Data(bufp))
        /\ end = "closed" /\ UNCHANGED end
    BY <1>8 DEF EndOfFile
  <2>2. /\ call' = "none" /\ want' = want /\ Ahead' = <<>>
        /\ result' = IF bufp = <<>> THEN stream!Eof ELSE stream!Data(bufp)
    BY <1>7, <2>1
  <2> QED
    BY <1>1, <1>5, <1>6, <2>1, <2>2 DEF stream!TakeRest, stream!Return, Ahead
<1>9. CASE ReadFails
  <2>1. Return(stream!Error) /\ end = "reset" /\ end' = "closed"
    BY <1>9 DEF ReadFails
  <2>2. /\ call' = "none" /\ want' = want /\ Ahead' = <<>> /\ result' = stream!Error
    BY <1>7, <2>1
  <2> QED
    BY <1>1, <1>6, <2>1, <2>2 DEF stream!Fail, stream!Return, Ahead
<1> QED
  BY <1>8, <1>9

\* What the caller has got, followed by what is left, is what there was.
LEMMA Regrouped ==
  ASSUME TypeOK, NEW cnt \in 1 .. rio_cnt, Copied(cnt)
  PROVE  /\ bufp \o stream!Take(Unread, cnt) \in Seq(Bytes)
         /\ Unread' \o pipe \in Seq(Bytes)
         /\ Ahead = (bufp \o stream!Take(Unread, cnt)) \o (Unread' \o pipe)
         /\ (<<>> \o Unread') \o pipe = Unread' \o pipe
         /\ ((bufp \o stream!Take(Unread, cnt)) \o Unread') \o pipe = Ahead
<1> DEFINE took == stream!Take(Unread, cnt)
           left == Unread'
<1>1. took \in Seq(Bytes) /\ left \in Seq(Bytes) /\ Unread = took \o left
  BY CopyMoves
<1>2. bufp \in Seq(Bytes) /\ pipe \in Seq(Bytes)
  BY DEF TypeOK
<1> HIDE DEF took, left
<1>3. bufp \o took \in Seq(Bytes) /\ left \o pipe \in Seq(Bytes)
  BY <1>1, <1>2, ConcatBytes
<1>4. bufp \o (took \o left) = (bufp \o took) \o left
  BY <1>1, <1>2, Joined
<1>5. ((bufp \o took) \o left) \o pipe = (bufp \o took) \o (left \o pipe)
  <2> DEFINE got == bufp \o took
  <2>1. got \in Seq(Bytes)
    BY <1>3
  <2> HIDE DEF got
  <2>2. (got \o left) \o pipe = got \o (left \o pipe)
    BY <1>1, <1>2, <2>1, Joined
  <2> QED
    BY <2>2 DEF got
<1>6. Ahead = ((bufp \o took) \o left) \o pipe
  BY <1>1, <1>4 DEF Ahead
<1>7. <<>> \o left = left
  BY <1>1, ConcatEmptySeq
<1> QED
  BY <1>3, <1>5, <1>6, <1>7 DEF took, left

\* A byte for a line: the line is taken with its last byte.
LEMMA RefineLine ==
  ASSUME IInv, LineStep
  PROVE  stream!TakeLine \/ UNCHANGED stream!streamVars
<1> DEFINE c == rio_buf[rio_bufptr]
           line == Append(bufp, c)
<1>1. /\ call = "line" /\ rio_cnt > 0 /\ Copied(1) /\ TypeOK
      /\ bufp \in Seq(Bytes) /\ pipe \in Seq(Bytes)
  BY DEF LineStep, IInv, TypeOK
<1>2. IF c = NL \/ Len(line) = maxlen - 1
      THEN Return(stream!Data(line))
      ELSE bufp' = line /\ UNCHANGED <<call, want, result>>
  BY DEF LineStep
<1>3. /\ 1 \in 1 .. rio_cnt /\ rio_bufptr \in 1 .. Len(rio_buf) /\ rio_cnt \in Nat
      /\ rio_bufptr \in Nat /\ rio_buf \in Seq(Bytes)
  BY <1>1, RioAssumption DEF RioAssumption, TypeOK
<1>4. c \in Bytes
  BY <1>3, ElementOfSeq
<1>5. stream!Take(Unread, 1) = <<c>>
  <2>1. Unread \in Seq(Bytes) /\ Len(Unread) = rio_cnt /\ Unread[1] = c
    <3>1. Unread[1] = rio_buf[rio_bufptr + 1 - 1]
      BY <1>1, <1>3, UnreadBytes
    <3>2. rio_bufptr + 1 - 1 = rio_bufptr
      BY <1>3
    <3> QED
      BY <1>1, <3>1, <3>2, UnreadBytes
  <2>2. \A i \in 1 .. 1 : Unread[i] \in Bytes
    BY <1>4, <2>1
  <2>3. SubSeq(Unread, 1, 1) \in Seq(Bytes) /\ Len(SubSeq(Unread, 1, 1)) = 1
        /\ SubSeq(Unread, 1, 1)[1] = Unread[1]
    <3>1. /\ SubSeq(Unread, 1, 1) \in Seq(Bytes)
          /\ Len(SubSeq(Unread, 1, 1)) = IF 1 <= 1 THEN 1 - 1 + 1 ELSE 0
          /\ \A i \in 1 .. 1 - 1 + 1 : SubSeq(Unread, 1, 1)[i] = Unread[1 + i - 1]
      BY <2>2, SubSeqProperties
    <3> QED
      BY <3>1
  <2>4. <<c>> \in Seq(Bytes) /\ Len(<<c>>) = 1 /\ <<c>>[1] = c
    BY <1>4
  <2> HIDE DEF c
  <2>5. \A i \in 1 .. Len(SubSeq(Unread, 1, 1)) : SubSeq(Unread, 1, 1)[i] = <<c>>[i]
    BY <2>1, <2>3, <2>4
  <2> QED
    BY <2>3, <2>4, <2>5, SeqEqual DEF stream!Take
<1>6. line = bufp \o <<c>>
  BY <1>1, <1>4, AppendIsConcat
<1>7. /\ line \in Seq(Bytes) /\ Unread' \o pipe \in Seq(Bytes)
      /\ Ahead = line \o (Unread' \o pipe)
      /\ (<<>> \o Unread') \o pipe = Unread' \o pipe
      /\ (line \o Unread') \o pipe = Ahead
  BY <1>1, <1>3, <1>5, <1>6, Regrouped
<1>8. /\ Len(line) = Len(bufp) + 1 /\ Len(bufp) \in Nat
      /\ \A i \in 1 .. Len(bufp) : line[i] = bufp[i]
      /\ line[Len(bufp) + 1] = c
  BY <1>1, <1>4, AppendProperties
<1>9. UNCHANGED <<usrbuf, end, pipe>>
  BY <1>1 DEF Copied, writer
<1> HIDE DEF line, c
<1>10. CASE c = NL \/ Len(line) = maxlen - 1
  <2> DEFINE k == Len(line)
  <2>1. Return(stream!Data(line))
    BY <1>2, <1>10
  <2>2. call' = "none" /\ result' = stream!Data(line) /\ bufp' = <<>> /\ want' = want
    BY <2>1 DEF Return
  <2>3. /\ stream!Take(Ahead, k) = line /\ stream!Drop(Ahead, k) = Unread' \o pipe
    BY <1>7, TakeDropConcat
  <2>4. Ahead' = stream!Drop(Ahead, k)
    BY <1>7, <1>9, <2>2, <2>3 DEF Ahead
  <2>5. k \in 1 .. Len(Ahead)
    <3>1. Len(Ahead) = Len(line) + Len(Unread' \o pipe) /\ Len(Unread' \o pipe) \in Nat
      BY <1>7, ConcatBytes
    <3> QED
      BY <1>8, <3>1
  <2>6. stream!IsLine(Ahead, k)
    <3>1. \A i \in 1 .. Len(line) : Ahead[i] = line[i]
      <4>1. \A i \in 1 .. Len(line) + Len(Unread' \o pipe) :
               Ahead[i] = IF i <= Len(line) THEN line[i] ELSE (Unread' \o pipe)[i - Len(line)]
        BY <1>7, ConcatProperties
      <4>2. Len(line) \in Nat /\ Len(Unread' \o pipe) \in Nat
        BY <1>7
      <4> QED
        BY <4>1, <4>2
    <3>2. \A i \in 1 .. Len(bufp) : bufp[i] # NL
      BY <1>1 DEF IInv, Handed
    <3>3. \A i \in 1 .. k - 1 : Ahead[i] # NL
      BY <1>8, <3>1, <3>2
    <3>4. Ahead[k] = c
      BY <1>8, <3>1
    <3>5. Len(bufp) < maxlen - 1 /\ maxlen \in Nat
      BY <1>1, RioAssumption DEF RioAssumption, TypeOK
    <3>6. k \in 1 .. maxlen - 1
      BY <1>8, <3>5
    <3> QED
      BY <1>10, <3>3, <3>4, <3>6 DEF stream!IsLine
  <2> HIDE DEF k
  <2> QED
    BY <1>1, <1>9, <2>2, <2>3, <2>4, <2>5, <2>6
       DEF stream!TakeLine, stream!Return, Ahead
<1>11. CASE ~(c = NL \/ Len(line) = maxlen - 1)
  <2>1. bufp' = line /\ UNCHANGED <<call, want, result>>
    BY <1>2, <1>11
  <2>2. Ahead' = Ahead
    BY <1>7, <1>9, <2>1 DEF Ahead
  <2> QED
    BY <1>9, <2>1, <2>2, Stutter
<1> QED
  BY <1>10, <1>11

\* Bytes for a call that asked for so many: taken with the last of them.
LEMMA RefineBytes ==
  ASSUME IInv, BytesStep
  PROVE  stream!TakeBytes \/ UNCHANGED stream!streamVars
<1> DEFINE cnt == Lesser(want - Len(bufp), rio_cnt)
           bytes == bufp \o stream!Take(Unread, cnt)
<1>1. call = "bytes" /\ rio_cnt > 0 /\ Copied(cnt) /\ TypeOK
  BY DEF BytesStep, IInv
<1>2. IF Len(bytes) = want
      THEN Return(stream!Data(bytes))
      ELSE bufp' = bytes /\ UNCHANGED <<call, want, result>>
  BY DEF BytesStep
<1>3. cnt \in 1 .. rio_cnt
  BY <1>1, RioAssumption DEF RioAssumption, Lesser, TypeOK
<1> HIDE DEF cnt
<1>4. /\ bytes \in Seq(Bytes) /\ Unread' \o pipe \in Seq(Bytes)
      /\ Ahead = bytes \o (Unread' \o pipe)
      /\ (<<>> \o Unread') \o pipe = Unread' \o pipe
      /\ (bytes \o Unread') \o pipe = Ahead
  BY <1>1, <1>3, Regrouped
<1>5. UNCHANGED <<usrbuf, end, pipe>>
  BY <1>1 DEF Copied, writer
<1> HIDE DEF bytes
<1>6. CASE Len(bytes) = want
  <2>1. Return(stream!Data(bytes))
    BY <1>2, <1>6
  <2>2. call' = "none" /\ result' = stream!Data(bytes) /\ bufp' = <<>> /\ want' = want
    BY <2>1 DEF Return
  <2>3. stream!Take(Ahead, want) = bytes /\ stream!Drop(Ahead, want) = Unread' \o pipe
    BY <1>4, <1>6, TakeDropConcat
  <2>4. Ahead' = stream!Drop(Ahead, want)
    BY <1>4, <1>5, <2>2, <2>3 DEF Ahead
  <2>5. want <= Len(Ahead)
    <3>1. Len(Ahead) = Len(bytes) + Len(Unread' \o pipe)
          /\ Len(bytes) \in Nat /\ Len(Unread' \o pipe) \in Nat
      BY <1>4, ConcatBytes
    <3> QED
      BY <1>6, <3>1
  <2> QED
    BY <1>1, <1>5, <2>2, <2>3, <2>4, <2>5 DEF stream!TakeBytes, stream!Return, Ahead
<1>7. CASE Len(bytes) # want
  <2>1. bufp' = bytes /\ UNCHANGED <<call, want, result>>
    BY <1>2, <1>7
  <2>2. Ahead' = Ahead
    BY <1>4, <1>5, <2>1 DEF Ahead
  <2> QED
    BY <1>5, <2>1, <2>2, Stutter
<1> QED
  BY <1>6, <1>7

\* The steps that begin and end things map to the step of the same name.
LEMMA RefineEdges ==
  ASSUME IInv
  PROVE  /\ \A m \in Messages : Writen(m) => stream!Write(m)
         /\ WriteFails => stream!WriteLost
         /\ Close => stream!Leave("closed")
         /\ Reset => stream!Leave("reset")
         /\ Readlineb => stream!Call("line", 0)
         /\ \A n \in Counts : Readnb(n) => stream!Call("bytes", n)
         /\ HangUp => stream!HangUp
<1>1. ASSUME NEW m \in Messages, Writen(m) PROVE stream!Write(m)
  BY <1>1 DEF Writen, stream!Write, rio, reader, Unread
<1>2. ASSUME WriteFails PROVE stream!WriteLost
  BY <1>2 DEF WriteFails, stream!WriteLost, rio, reader, Unread
<1>3. ASSUME Close PROVE stream!Leave("closed")
  BY <1>3 DEF Close, stream!Leave, writer, rio, reader, Unread
<1>4. ASSUME Reset PROVE stream!Leave("reset")
  BY <1>4 DEF Reset, stream!Leave, rio, reader, Unread
<1>5. ASSUME NEW kind, NEW n, Begin(kind, n) PROVE stream!Call(kind, n)
  BY <1>5 DEF Begin, stream!Call, writer, rio, Unread, IInv, Handed
<1>6. ASSUME HangUp PROVE stream!HangUp
  BY <1>6 DEF HangUp, stream!HangUp, writer, rio, Unread
<1> QED
  BY <1>1, <1>2, <1>3, <1>4, <1>5, <1>6 DEF Readlineb, Readnb

LEMMA StreamStep == IInv /\ [Next]_vars => [stream!Next]_(stream!streamVars)
<1> SUFFICES ASSUME IInv, [Next]_vars
             PROVE  [stream!Next]_(stream!streamVars)
  OBVIOUS
<1>1. CASE UNCHANGED vars
  BY <1>1 DEF vars, stream!streamVars, writer, rio, reader, Unread
<1>2. CASE \E m \in Messages : Writen(m)
  BY <1>2, RefineEdges DEF stream!Next
<1>3. CASE \E k \in 1 .. PipeMax : WriteSome(k)
  BY <1>3, RefineWrite DEF stream!Next
<1>4. CASE WriteFails \/ Close \/ Reset \/ Readlineb \/ HangUp
  BY <1>4, RefineEdges DEF stream!Next
<1>5. CASE \E n \in Counts : Readnb(n)
  BY <1>5, RefineEdges DEF stream!Next
<1>6. CASE \E k \in 1 .. RIO_BUFSIZE : Refill(k)
  BY <1>6, RefineRefill
<1>7. CASE Interrupted
  BY <1>7, RefineSignal
<1>8. CASE EndOfFile \/ ReadFails
  BY <1>8, RefineEnd DEF stream!Next
<1>9. CASE LineStep
  BY <1>9, RefineLine DEF stream!Next
<1>10. CASE BytesStep
  BY <1>10, RefineBytes DEF stream!Next
<1> QED
  BY <1>1, <1>2, <1>3, <1>4, <1>5, <1>6, <1>7, <1>8, <1>9, <1>10 DEF Next

\* The package implements the stream of lines, for all sizes: each call returns
\* the next bytes, whatever short reads and writes, signals and failures there
\* were on the way (csapp.c:781-899).
THEOREM RioRefinesStream == Spec => ImplementsStream
<1>1. Init => stream!Init
  <2>1. ASSUME Init PROVE Ahead = <<>>
    <3>1. Unread = <<>>
      BY <2>1, SubSeqEmpty DEF Init, Unread
    <3>2. (<<>> \o <<>>) \o <<>> = <<>>
      BY EmptySeq, ConcatEmptySeq
    <3> QED
      BY <2>1, <3>1, <3>2 DEF Init, Ahead
  <2> QED
    BY <2>1 DEF Init, stream!Init, Ahead
<1> QED
  BY <1>1, Invariance, StreamStep, PTL DEF Spec, ImplementsStream, stream!Spec
=============================================================================
