----------------------- MODULE ConnectedSocketProofs ------------------------
(***************************************************************************)
(* Proofs about ConnectedSocket, for any number of messages in either      *)
(* direction and of calls of recv_msg: what leaves does so in order, what  *)
(* arrives is framed, and the count of queued bytes is exact.              *)
(***************************************************************************)
EXTENDS ConnectedSocket, FiniteSetTheorems, TLAPS

USE ZenonT(3), SMTT(20), Z3T(20), ZenonT(20)

-----------------------------------------------------------------------------
(* The receive side: one read or read handler at a time.                   *)

RecvHandlers == {"recv", "close", "header", "body"} \X {"ok", "canceled", "eof"} \X Nat

\* A completed read that waits for its handler.
IsRead(h) == h[1] \in {"header", "body"}

\* The piece of the stream that comes behind x.
After(x) == IF x[1] = "head" THEN <<"body", x[2]>> ELSE <<"head", x[2] + 1>>

\* The next piece of the stream s is x, and the rest follows in order.
StreamFrom(s, x) ==
  /\ s # <<>> => s[1] = x
  /\ \A i \in 1 .. Len(s) : i < Len(s) => s[i + 1] = After(s[i])

RecvTypeOK ==
  /\ open \in BOOLEAN /\ receiving \in BOOLEAN /\ misframed \in BOOLEAN
  /\ headReads \in 0 .. 1 /\ bodyReads \in 0 .. 1
  /\ recvStrand \in Seq(RecvHandlers)
  /\ inStream \in Seq({"head", "body"} \X (1 .. NumIn))
  /\ delivered \in Seq(Nat)

\* Reads, outstanding or completed, exclude each other, and there is none
\* unless receiving is set.
OneRead ==
  /\ headReads + bodyReads <= 1
  /\ headReads + bodyReads = 1 => receiving /\ \A i \in 1 .. Len(recvStrand) : ~IsRead(recvStrand[i])
  /\ \A i \in 1 .. Len(recvStrand) : IsRead(recvStrand[i]) => receiving
  /\ \A i, j \in 1 .. Len(recvStrand) : IsRead(recvStrand[i]) /\ IsRead(recvStrand[j]) => i = j

\* A read of this kind has succeeded and its handler has yet to run.
Done(kind) == \E i \in 1 .. Len(recvStrand) : recvStrand[i][1] = kind /\ recvStrand[i][2] = "ok"

\* Where the reader is in the stream.
AtPiece ==
  LET n == Len(delivered) IN
  /\ bodyReads = 0 /\ ~Done("header") /\ ~Done("body") => StreamFrom(inStream, <<"head", n + 1>>)
  /\ bodyReads = 1 \/ Done("header") => StreamFrom(inStream, <<"body", n + 1>>)
  /\ Done("body") => StreamFrom(inStream, <<"head", n + 2>>)

\* The body that was read is the next message's; the reader is where it
\* should be as long as the socket is open.
InFrame ==
  /\ \A i \in 1 .. Len(recvStrand) : recvStrand[i][1] = "body" /\ recvStrand[i][2] = "ok" =>
       recvStrand[i][3] = Len(delivered) + 1 /\ Len(delivered) + 1 <= NumIn
  /\ open => AtPiece

\* Messages reach the callback as they were sent.
InOrder ==
  /\ ~misframed
  /\ Len(delivered) <= NumIn /\ \A i \in 1 .. Len(delivered) : delivered[i] = i

RInv == RecvTypeOK /\ OneRead /\ InFrame /\ InOrder


\* Running the first handler of a queue.
LEMMA PopFacts ==
  ASSUME NEW A, NEW q \in Seq(A), q # <<>>
  PROVE  /\ Head(q) = q[1] /\ q[1] \in A /\ Tail(q) \in Seq(A)
         /\ Len(q) \in Nat /\ Len(q) >= 1 /\ Len(Tail(q)) = Len(q) - 1
         /\ \A i \in 1 .. Len(q) - 1 : Tail(q)[i] = q[i + 1]
  OBVIOUS

\* Posting a handler.
LEMMA PushFacts ==
  ASSUME NEW A, NEW q \in Seq(A), NEW x \in A
  PROVE  /\ Append(q, x) \in Seq(A)
         /\ Len(q) \in Nat /\ Len(Append(q, x)) = Len(q) + 1
         /\ \A i \in 1 .. Len(q) : Append(q, x)[i] = q[i]
         /\ Append(q, x)[Len(q) + 1] = x
  OBVIOUS

\* Posting a handler before all others.
LEMMA ConsFacts ==
  ASSUME NEW A, NEW q \in Seq(A), NEW x \in A
  PROVE  /\ <<x>> \o q \in Seq(A)
         /\ Len(q) \in Nat /\ Len(<<x>> \o q) = Len(q) + 1
         /\ \A i \in 2 .. Len(q) + 1 : (<<x>> \o q)[i] = q[i - 1]
         /\ (<<x>> \o q)[1] = x
<1>1. <<x>> \in Seq(A) /\ Len(<<x>>) = 1 /\ <<x>>[1] = x
  OBVIOUS
<1>2. Len(<<x>> \o q) = Len(q) + 1 /\ <<x>> \o q \in Seq(A)
  BY <1>1
<1> QED  BY <1>1, <1>2

\* Reading the next piece of a stream leaves the pieces behind it.
LEMMA StreamTail ==
  ASSUME NEW A, NEW s \in Seq(A), s # <<>>, NEW x, StreamFrom(s, x)
  PROVE  Head(s) = x /\ StreamFrom(Tail(s), After(x))
<1>1. Head(s) = x /\ s[1] = x
  BY DEF StreamFrom
<1>2. Len(Tail(s)) = Len(s) - 1 /\ \A i \in 1 .. Len(s) - 1 : Tail(s)[i] = s[i + 1]
  BY PopFacts
<1>3. Tail(s) # <<>> => Tail(s)[1] = After(x)
  BY SMTT(20), Z3T(20), SMTT(30), <1>1, <1>2 DEF StreamFrom
<1>4. ASSUME NEW i \in 1 .. Len(Tail(s)), i < Len(Tail(s))  PROVE Tail(s)[i + 1] = After(Tail(s)[i])
  <2>1. i + 1 \in 1 .. Len(s) /\ i + 1 < Len(s) /\ i \in 1 .. Len(s) - 1 /\ i + 1 \in 1 .. Len(s) - 1
    BY <1>2, <1>4
  <2>2. s[i + 1 + 1] = After(s[i + 1])
    BY <2>1 DEF StreamFrom
  <2> QED  BY <1>2, <2>1, <2>2
<1> QED  BY <1>1, <1>3, <1>4 DEF StreamFrom

\* A stream that is cut off is a stream.
LEMMA StreamCut ==
  ASSUME NEW A, NEW s \in Seq(A), NEW n \in 0 .. Len(s), NEW x, StreamFrom(s, x)
  PROVE  StreamFrom(SubSeq(s, 1, n), x)
<1>1. Len(SubSeq(s, 1, n)) = n /\ \A i \in 1 .. n : SubSeq(s, 1, n)[i] = s[i]
  OBVIOUS
<1>2. SubSeq(s, 1, n) # <<>> => SubSeq(s, 1, n)[1] = x
  BY SMTT(20), Z3T(20), SMTT(30), <1>1 DEF StreamFrom
<1>3. ASSUME NEW i \in 1 .. n, i < n  PROVE SubSeq(s, 1, n)[i + 1] = After(SubSeq(s, 1, n)[i])
  <2>1. i \in 1 .. Len(s) /\ i < Len(s) /\ i + 1 \in 1 .. n
    BY <1>3
  <2> QED  BY <1>1, <2>1 DEF StreamFrom
<1> QED  BY <1>1, <1>2, <1>3 DEF StreamFrom

\* Nothing is left of the stream.
LEMMA StreamEmpty == \A x : StreamFrom(<<>>, x)
  BY DEF StreamFrom

-----------------------------------------------------------------------------
(* Steps that do not read: the socket may close, a handler may be posted,   *)
(* the first handler may be taken.                                          *)

recvState == <<receiving, misframed, headReads, bodyReads, inStream, delivered>>

\* A step of the send strand or the caller leaves the reader alone, and what
\* it says of an open socket holds of a closed one.
LEMMA RFrame ==
  ASSUME RInv, UNCHANGED <<recvState, recvStrand>>, open' \in BOOLEAN, open' => open
  PROVE  RInv'
<1>1. RecvTypeOK' /\ OneRead' /\ InOrder'
  BY DEF RInv, RecvTypeOK, OneRead, InOrder, recvState
<1>2. Done("header")' = Done("header") /\ Done("body")' = Done("body")
  BY DEF Done
<1>3. AtPiece => AtPiece'
  BY <1>2 DEF AtPiece, recvState
<1>4. InFrame'
  BY <1>3 DEF RInv, InFrame, recvState
<1> QED  BY <1>1, <1>4 DEF RInv

\* recv_msg and close_async post a handler that is not a read's.
LEMMA RPush ==
  ASSUME RInv, UNCHANGED recvState, open' = open,
         NEW h \in RecvHandlers, ~IsRead(h), recvStrand' = Append(recvStrand, h)
  PROVE  RInv'
<1>1. recvStrand \in Seq(RecvHandlers)
  BY DEF RInv, RecvTypeOK
<1>2. /\ recvStrand' \in Seq(RecvHandlers)
      /\ Len(recvStrand) \in Nat /\ Len(recvStrand') = Len(recvStrand) + 1
      /\ \A i \in 1 .. Len(recvStrand) : recvStrand'[i] = recvStrand[i]
      /\ recvStrand'[Len(recvStrand) + 1] = h
  BY SMTT(20), Z3T(20), SMTT(30), <1>1, PushFacts
<1>3. \A i \in 1 .. Len(recvStrand') : IsRead(recvStrand'[i]) => i \in 1 .. Len(recvStrand)
  BY <1>2
<1>4. RecvTypeOK' /\ InOrder'
  BY <1>2 DEF RInv, RecvTypeOK, InOrder, recvState
<1>5. OneRead'
  BY <1>2, <1>3 DEF RInv, OneRead, recvState
<1>6. \A i \in 1 .. Len(recvStrand) : i \in 1 .. Len(recvStrand')
  BY <1>2
<1>7. \A i \in 1 .. Len(recvStrand') : recvStrand'[i][1] \in {"header", "body"} =>
        i \in 1 .. Len(recvStrand) /\ recvStrand'[i] = recvStrand[i]
  BY <1>2, <1>3 DEF IsRead
<1>8. UNCHANGED <<bodyReads, inStream, delivered, open>>
  BY DEF recvState
<1>9. Done("header")' = Done("header") /\ Done("body")' = Done("body")
  BY ZenonT(20), <1>2, <1>6, <1>7 DEF Done
<1>10. AtPiece => AtPiece'
  BY <1>8, <1>9 DEF AtPiece
<1>11. InFrame'
  BY SMTT(20), Z3T(20), SMTT(30), <1>7, <1>8, <1>10 DEF RInv, InFrame
<1> QED  BY <1>4, <1>5, <1>11 DEF RInv

\* What is left of the strand when its first handler has been taken: the reads
\* of the others are as they were, and there is none if the first was a read.
Popped(q) ==
  /\ q \in Seq(RecvHandlers) /\ Len(q) \in Nat
  /\ \A i \in 1 .. Len(q) : IsRead(q[i]) =>
       \E j \in 2 .. Len(recvStrand) : q[i] = recvStrand[j]
  /\ \A j \in 2 .. Len(recvStrand) : IsRead(recvStrand[j]) => \E i \in 1 .. Len(q) : q[i] = recvStrand[j]
  /\ \A i, j \in 1 .. Len(q) : IsRead(q[i]) /\ IsRead(q[j]) => i = j
  /\ recvStrand # <<>> /\ IsRead(recvStrand[1]) => \A i \in 1 .. Len(q) : ~IsRead(q[i])

\* Once a handler is taken, the rest of the strand is what was behind it.
LEMMA PoppedTail ==
  ASSUME RInv, recvStrand # <<>>
  PROVE  Popped(Tail(recvStrand))
<1>1. recvStrand \in Seq(RecvHandlers)
  BY DEF RInv, RecvTypeOK
<1>2. /\ Tail(recvStrand) \in Seq(RecvHandlers)
      /\ Len(recvStrand) \in Nat /\ Len(recvStrand) >= 1 /\ Len(Tail(recvStrand)) = Len(recvStrand) - 1
      /\ \A i \in 1 .. Len(recvStrand) - 1 : Tail(recvStrand)[i] = recvStrand[i + 1]
  BY <1>1, PopFacts
<1>3. \A i, j \in 1 .. Len(recvStrand) : IsRead(recvStrand[i]) /\ IsRead(recvStrand[j]) => i = j
  BY DEF RInv, OneRead
<1>4. \A i \in 1 .. Len(Tail(recvStrand)) :
        i + 1 \in 2 .. Len(recvStrand) /\ i + 1 \in 1 .. Len(recvStrand) /\ Tail(recvStrand)[i] = recvStrand[i + 1]
  BY <1>2
<1>5. \A j \in 2 .. Len(recvStrand) :
        j - 1 \in 1 .. Len(Tail(recvStrand)) /\ Tail(recvStrand)[j - 1] = recvStrand[j]
  BY <1>2
<1>6. \A i, j \in 1 .. Len(Tail(recvStrand)) :
        IsRead(Tail(recvStrand)[i]) /\ IsRead(Tail(recvStrand)[j]) => i = j
  BY SMTT(20), Z3T(20), SMTT(30), <1>2, <1>3, <1>4
<1>7. IsRead(recvStrand[1]) => \A i \in 1 .. Len(Tail(recvStrand)) : ~IsRead(Tail(recvStrand)[i])
  BY SMTT(20), Z3T(20), SMTT(30), <1>2, <1>3, <1>4
<1>8. \A i \in 1 .. Len(Tail(recvStrand)) : \E j \in 2 .. Len(recvStrand) : Tail(recvStrand)[i] = recvStrand[j]
  BY <1>4
<1>9. \A j \in 2 .. Len(recvStrand) : \E i \in 1 .. Len(Tail(recvStrand)) : Tail(recvStrand)[i] = recvStrand[j]
  BY <1>5
<1>10. Len(Tail(recvStrand)) \in Nat
  BY <1>2
<1> QED  BY <1>2, <1>6, <1>7, <1>8, <1>9, <1>10 DEF Popped

\* Taking a handler that is not a read's.
LEMMA RPop ==
  ASSUME RInv, UNCHANGED <<misframed, bodyReads, inStream, delivered>>, open' = open,
         recvStrand # <<>>, ~IsRead(recvStrand[1]), recvStrand' = Tail(recvStrand),
         \/ UNCHANGED <<receiving, headReads>>
         \/ ~receiving /\ receiving' = TRUE /\ headReads' = headReads + 1
  PROVE  RInv'
<1>1. Popped(recvStrand')
  BY PoppedTail
<1>2. recvStrand \in Seq(RecvHandlers) /\ Len(recvStrand) \in Nat
  BY DEF RInv, RecvTypeOK
<1>3. \A j \in 2 .. Len(recvStrand) : j \in 1 .. Len(recvStrand)
  BY <1>2
<1>4. \A i \in 1 .. Len(recvStrand) : IsRead(recvStrand[i]) => i \in 2 .. Len(recvStrand)
  BY <1>2
<1>5. ~receiving => headReads = 0 /\ bodyReads = 0
  BY DEF RInv, RecvTypeOK, OneRead
<1>6. RecvTypeOK' /\ InOrder'
  <2>1. receiving' \in BOOLEAN
    BY DEF RInv, RecvTypeOK
  <2>2. headReads' \in 0 .. 1
    BY <1>5 DEF RInv, RecvTypeOK
  <2>3. recvStrand' \in Seq(RecvHandlers)
    BY <1>1 DEF Popped
  <2> QED  BY <2>1, <2>2, <2>3 DEF RInv, RecvTypeOK, InOrder
<1>7. OneRead'
  <2>1. \A i \in 1 .. Len(recvStrand') : IsRead(recvStrand'[i]) => receiving
    BY <1>1, <1>3 DEF RInv, OneRead, Popped
  <2>2. CASE UNCHANGED <<receiving, headReads>>
    BY <1>1, <1>3, <2>1, <2>2 DEF RInv, OneRead, Popped
  <2>3. CASE ~receiving /\ receiving' = TRUE /\ headReads' = headReads + 1
    BY <1>1, <1>5, <2>1, <2>3 DEF OneRead, Popped
  <2> QED  BY <2>2, <2>3
<1>8. (Done("header")' <=> Done("header")) /\ (Done("body")' <=> Done("body"))
  <2> SUFFICES ASSUME NEW kind \in {"header", "body"}  PROVE Done(kind)' <=> Done(kind)
    OBVIOUS
  <2>1. ASSUME NEW i \in 1 .. Len(recvStrand'), recvStrand'[i][1] = kind, recvStrand'[i][2] = "ok"
        PROVE  Done(kind)
    <3>1. IsRead(recvStrand'[i])
      BY <2>1 DEF IsRead
    <3>2. PICK j \in 1 .. Len(recvStrand) : recvStrand[j] = recvStrand'[i]
      BY <1>1, <1>3, <3>1 DEF Popped
    <3> QED  BY <2>1, <3>2 DEF Done
  <2>2. ASSUME NEW i \in 1 .. Len(recvStrand), recvStrand[i][1] = kind, recvStrand[i][2] = "ok"
        PROVE  Done(kind)'
    <3>1. IsRead(recvStrand[i]) /\ i \in 2 .. Len(recvStrand)
      BY <1>4, <2>2 DEF IsRead
    <3>2. PICK j \in 1 .. Len(recvStrand') : recvStrand'[j] = recvStrand[i]
      BY <1>1, <3>1 DEF Popped
    <3> QED  BY <2>2, <3>2 DEF Done
  <2> QED  BY <2>1, <2>2 DEF Done
<1>9. AtPiece => AtPiece'
  BY <1>8 DEF AtPiece
<1>10. InFrame'
  BY SMTT(20), Z3T(20), SMTT(30), <1>1, <1>3, <1>9 DEF RInv, InFrame, Popped, IsRead
<1> QED  BY <1>6, <1>7, <1>10 DEF RInv

-----------------------------------------------------------------------------
(* The reads.                                                              *)

\* received_header: the header's read is over; a body is read next, or the
\* receive ends.
LEMMA RHeader ==
  ASSUME RInv, ReceivedHeader
  PROVE  RInv'
<1>1. recvStrand # <<>> /\ IsRead(recvStrand[1]) /\ recvStrand[1][1] = "header" /\ Head(recvStrand) = recvStrand[1]
      /\ recvStrand' = Tail(recvStrand) /\ 1 \in 1 .. Len(recvStrand)
  BY SMTT(20), Z3T(20), SMTT(30), PopFacts DEF ReceivedHeader, RecvHandler, IsRead, RInv, RecvTypeOK
<1>2. Popped(recvStrand') /\ \A i \in 1 .. Len(recvStrand') : ~IsRead(recvStrand'[i])
  BY <1>1, PoppedTail DEF Popped
<1>3. UNCHANGED <<open, misframed, headReads, inStream, delivered>>
  BY DEF ReceivedHeader, sockVars, peerVars
<1>4. headReads = 0 /\ bodyReads = 0 /\ receiving
  BY <1>1 DEF RInv, RecvTypeOK, OneRead
<1>5. ~Done("header")' /\ ~Done("body")'
  BY <1>2 DEF Done, IsRead
<1>6. ASSUME recvStrand[1][2] = "ok", open, bodyReads' = bodyReads + 1, receiving' = receiving
      PROVE  RInv'
  <2>1. bodyReads' = 1
    BY <1>4, <1>6
  <2>2. RecvTypeOK' /\ InOrder'
    BY SMTT(20), Z3T(20), SMTT(30), <1>2, <1>3, <1>6, <2>1 DEF RInv, RecvTypeOK, InOrder, Popped
  <2>3. OneRead'
    BY <1>2, <1>3, <1>4, <1>6, <2>1 DEF OneRead
  <2>4. Done("header")
    BY <1>1, <1>6 DEF Done
  <2>5. AtPiece'
    BY SMTT(20), Z3T(20), SMTT(30), <1>3, <1>5, <1>6, <2>1, <2>4 DEF RInv, InFrame, AtPiece
  <2>6. InFrame'
    BY <1>2, <2>5 DEF InFrame, IsRead
  <2> QED  BY <2>2, <2>3, <2>6 DEF RInv
<1>7. ASSUME recvStrand[1][2] # "ok" \/ ~open, bodyReads' = bodyReads, receiving' = FALSE
      PROVE  RInv'
  <2>2. RecvTypeOK' /\ InOrder'
    BY <1>2, <1>3, <1>7 DEF RInv, RecvTypeOK, InOrder, Popped
  <2>3. OneRead'
    BY <1>2, <1>3, <1>4, <1>7 DEF OneRead
  <2>4. open => ~Done("header") /\ ~Done("body")
    BY <1>1, <1>7 DEF RInv, OneRead, Done, IsRead
  <2>5. open => AtPiece'
    BY <1>3, <1>4, <1>5, <1>7, <2>4 DEF RInv, InFrame, AtPiece
  <2>6. InFrame'
    BY <1>2, <1>3, <2>5 DEF InFrame, IsRead
  <2> QED  BY <2>2, <2>3, <2>6 DEF RInv
<1> QED  BY <1>1, <1>6, <1>7 DEF ReceivedHeader

\* received_body: the message is delivered, or the receive ends in an error;
\* the callback posts the next receive, or the close before all else.
LEMMA RBody ==
  ASSUME RInv, ReceivedBody
  PROVE  RInv'
<1>1. recvStrand # <<>> /\ recvStrand[1][1] = "body" /\ Head(recvStrand) = recvStrand[1] /\ 1 \in 1 .. Len(recvStrand)
  BY SMTT(20), Z3T(20), SMTT(30), PopFacts DEF ReceivedBody, RecvHandler, RInv, RecvTypeOK
<1>2. IsRead(recvStrand[1])
  BY <1>1 DEF IsRead
<1>3. Tail(recvStrand) \in Seq(RecvHandlers) /\ \A i \in 1 .. Len(Tail(recvStrand)) : ~IsRead(Tail(recvStrand)[i])
  BY <1>1, <1>2, PoppedTail DEF Popped
<1>4. UNCHANGED <<open, misframed, headReads, bodyReads, inStream>> /\ receiving' = FALSE
  BY DEF ReceivedBody, sockVars
<1>5. headReads = 0 /\ bodyReads = 0
  BY <1>1, <1>2 DEF RInv, RecvTypeOK, OneRead
<1>6. recvStrand' \in Seq(RecvHandlers) /\ \A i \in 1 .. Len(recvStrand') : ~IsRead(recvStrand'[i])
  <2> DEFINE q == Tail(recvStrand)
  <2>1. CASE recvStrand' = q
    BY <1>3, <2>1
  <2>2. CASE recvStrand' = Append(q, <<"recv", "ok", 0>>)
    <3>1. <<"recv", "ok", 0>> \in RecvHandlers /\ ~IsRead(<<"recv", "ok", 0>>)
      BY DEF RecvHandlers, IsRead
    <3>2. /\ recvStrand' \in Seq(RecvHandlers) /\ Len(q) \in Nat /\ Len(recvStrand') = Len(q) + 1
          /\ \A i \in 1 .. Len(q) : recvStrand'[i] = q[i]
          /\ recvStrand'[Len(q) + 1] = <<"recv", "ok", 0>>
      BY SMTT(20), Z3T(20), SMTT(30), <1>3, <2>2, <3>1, PushFacts
    <3> QED  BY <1>3, <3>1, <3>2
  <2>3. CASE recvStrand' = <<<<"close", "ok", 0>>>> \o q
    <3>1. <<"close", "ok", 0>> \in RecvHandlers /\ ~IsRead(<<"close", "ok", 0>>)
      BY DEF RecvHandlers, IsRead
    <3>2. /\ recvStrand' \in Seq(RecvHandlers) /\ Len(q) \in Nat /\ Len(recvStrand') = Len(q) + 1
          /\ \A i \in 2 .. Len(q) + 1 : recvStrand'[i] = q[i - 1]
          /\ recvStrand'[1] = <<"close", "ok", 0>>
      <4> HIDE DEF q
      <4>1. q \in Seq(RecvHandlers)
        BY <1>3 DEF q
      <4> QED  BY SMTT(20), Z3T(20), SMTT(30), <2>3, <3>1, <4>1, ConsFacts
    <3>3. \A i \in 1 .. Len(recvStrand') : i # 1 => i \in 2 .. Len(q) + 1 /\ i - 1 \in 1 .. Len(q)
      BY <3>2
    <3> QED  BY <1>3, <3>1, <3>2, <3>3
  <2> QED  BY <2>1, <2>2, <2>3 DEF ReceivedBody
<1>7. ~Done("header")' /\ ~Done("body")'
  BY <1>6 DEF Done, IsRead
<1>8. OneRead'
  BY <1>4, <1>5, <1>6 DEF OneRead
<1>9. ASSUME recvStrand[1][2] = "ok", delivered' = Append(delivered, recvStrand[1][3])
      PROVE  RInv'
  <2>1. Done("body") /\ recvStrand[1][3] = Len(delivered) + 1 /\ Len(delivered) + 1 <= NumIn
    BY <1>1, <1>9 DEF RInv, InFrame, Done
  <2>2. /\ delivered \in Seq(Nat) /\ Len(delivered) \in Nat /\ delivered' \in Seq(Nat)
        /\ Len(delivered') = Len(delivered) + 1
        /\ \A i \in 1 .. Len(delivered) : delivered'[i] = delivered[i]
        /\ delivered'[Len(delivered) + 1] = Len(delivered) + 1
    BY SMTT(20), Z3T(20), SMTT(30), <1>9, <2>1, PushFacts DEF RInv, RecvTypeOK
  <2>3. RecvTypeOK'
    BY <1>4, <1>6, <2>2 DEF RInv, RecvTypeOK
  <2>4. InOrder'
    BY SMTT(20), Z3T(20), SMTT(30), <1>4, <2>1, <2>2 DEF RInv, InOrder
  <2>5. Len(delivered) + 2 = Len(delivered') + 1
    BY SMTT(20), Z3T(20), SMTT(30), <2>2
  <2>6. open => StreamFrom(inStream', <<"head", Len(delivered') + 1>>)
    BY <1>4, <2>1, <2>5 DEF RInv, InFrame, AtPiece
  <2>7. bodyReads' = 0
    BY <1>4, <1>5
  <2>8. open => AtPiece'
    BY <1>7, <2>6, <2>7 DEF AtPiece
  <2>9. InFrame'
    BY <1>4, <1>6, <2>8 DEF InFrame, IsRead
  <2> QED  BY <1>8, <2>3, <2>4, <2>9 DEF RInv
<1>10. ASSUME recvStrand[1][2] # "ok", delivered' = delivered
       PROVE  RInv'
  <2>1. ~Done("header") /\ ~Done("body")
    BY <1>1, <1>2, <1>10 DEF RInv, OneRead, Done, IsRead
  <2>2. RecvTypeOK' /\ InOrder'
    BY <1>4, <1>6, <1>10 DEF RInv, RecvTypeOK, InOrder
  <2>3. open => AtPiece'
    BY <1>4, <1>5, <1>7, <1>10, <2>1 DEF RInv, InFrame, AtPiece
  <2>4. InFrame'
    BY <1>4, <1>6, <2>3 DEF InFrame, IsRead
  <2> QED  BY <1>8, <2>2, <2>4 DEF RInv
<1> QED  BY <1>1, <1>9, <1>10 DEF ReceivedBody

\* A read completes and posts its handler, the only read there is.
LEMMA ReadPosts ==
  ASSUME RInv, NEW h \in RecvHandlers, IsRead(h), recvStrand' = Append(recvStrand, h),
         headReads + bodyReads = 1, headReads' = 0, bodyReads' = 0, UNCHANGED receiving
  PROVE  /\ recvStrand' \in Seq(RecvHandlers) /\ OneRead'
         /\ \E i \in 1 .. Len(recvStrand') : recvStrand'[i] = h
         /\ \A i \in 1 .. Len(recvStrand') : IsRead(recvStrand'[i]) => recvStrand'[i] = h
<1>1. recvStrand \in Seq(RecvHandlers)
  BY DEF RInv, RecvTypeOK
<1>2. /\ recvStrand' \in Seq(RecvHandlers)
      /\ Len(recvStrand) \in Nat /\ Len(recvStrand') = Len(recvStrand) + 1
      /\ \A i \in 1 .. Len(recvStrand) : recvStrand'[i] = recvStrand[i]
      /\ recvStrand'[Len(recvStrand) + 1] = h
  BY SMTT(20), Z3T(20), SMTT(30), <1>1, PushFacts
<1>3. receiving /\ \A i \in 1 .. Len(recvStrand) : ~IsRead(recvStrand[i])
  BY DEF RInv, OneRead
<1>4. \A i \in 1 .. Len(recvStrand') : IsRead(recvStrand'[i]) => i = Len(recvStrand) + 1
  BY <1>2, <1>3
<1>5. OneRead'
  BY <1>3, <1>4 DEF OneRead
<1> QED  BY SMTT(20), Z3T(20), SMTT(30), <1>2, <1>4, <1>5

\* A header read completes: the next piece is a header.
LEMMA RHeaderDone ==
  ASSUME RInv, HeaderDone
  PROVE  RInv'
<1>1. headReads = 1 /\ bodyReads = 0 /\ headReads' = 0 /\ bodyReads' = 0 /\ headReads + bodyReads = 1
  BY DEF RInv, RecvTypeOK, OneRead, HeaderDone
<1>2. UNCHANGED <<open, receiving, delivered>>
  BY DEF HeaderDone, ReadDone, sockVars
<1>3. ~Done("header") /\ ~Done("body")
  BY <1>1 DEF RInv, OneRead, Done, IsRead
<1>4. open => StreamFrom(inStream, <<"head", Len(delivered) + 1>>)
  BY <1>1, <1>3 DEF RInv, InFrame, AtPiece
<1>5. inStream \in Seq({"head", "body"} \X (1 .. NumIn)) /\ Len(delivered) \in Nat
  BY DEF RInv, RecvTypeOK
<1>6. CASE /\ open /\ inStream # <<>>
           /\ recvStrand' = Append(recvStrand, <<"header", "ok", Head(inStream)[2]>>)
           /\ misframed' = (misframed \/ ("header" = "header") # (Head(inStream)[1] = "head"))
           /\ inStream' = Tail(inStream)
  <2> DEFINE h == <<"header", "ok", Head(inStream)[2]>>
  <2>1. /\ Head(inStream) = <<"head", Len(delivered) + 1>>
        /\ StreamFrom(inStream', After(<<"head", Len(delivered) + 1>>))
    BY <1>4, <1>5, <1>6, StreamTail
  <2>2. h \in RecvHandlers /\ IsRead(h) /\ h[1] = "header" /\ h[2] = "ok"
    BY <1>5, <2>1 DEF RecvHandlers, IsRead
  <2> HIDE DEF h
  <2>3. /\ recvStrand' \in Seq(RecvHandlers) /\ OneRead'
        /\ \E i \in 1 .. Len(recvStrand') : recvStrand'[i] = h
        /\ \A i \in 1 .. Len(recvStrand') : IsRead(recvStrand'[i]) => recvStrand'[i] = h
    BY <1>1, <1>2, <1>6, <2>2, ReadPosts DEF h
  <2>4. Done("header")' /\ ~Done("body")'
    BY <2>2, <2>3 DEF Done, IsRead
  <2>5. inStream' \in Seq({"head", "body"} \X (1 .. NumIn))
    BY <1>5, <1>6, PopFacts
  <2>6. Head(inStream)[1] = "head"
    BY <2>1
  <2>7. misframed' = FALSE
    BY <1>6, <2>6 DEF RInv, InOrder
  <2>8. RecvTypeOK' /\ InOrder'
    BY <1>1, <1>2, <2>3, <2>5, <2>7 DEF RInv, RecvTypeOK, InOrder
  <2>9. StreamFrom(inStream', <<"body", Len(delivered) + 1>>)
    BY <2>1 DEF After
  <2>10. AtPiece'
    BY <1>1, <1>2, <2>4, <2>9 DEF AtPiece
  <2>11. InFrame'
    BY <2>2, <2>3, <2>10 DEF InFrame, IsRead
  <2> QED  BY <2>3, <2>8, <2>11 DEF RInv
<1>7. ASSUME NEW result \in {"canceled", "eof"}, recvStrand' = Append(recvStrand, <<"header", result, 0>>),
             UNCHANGED <<inStream, misframed>>
      PROVE  RInv'
  <2> DEFINE h == <<"header", result, 0>>
  <2>2. h \in RecvHandlers /\ IsRead(h) /\ h[2] # "ok"
    BY DEF RecvHandlers, IsRead
  <2> HIDE DEF h
  <2>3. /\ recvStrand' \in Seq(RecvHandlers) /\ OneRead'
        /\ \A i \in 1 .. Len(recvStrand') : IsRead(recvStrand'[i]) => recvStrand'[i] = h
    BY <1>1, <1>2, <1>7, <2>2, ReadPosts DEF h
  <2>4. ~Done("header")' /\ ~Done("body")'
    BY <2>2, <2>3 DEF Done, IsRead
  <2>8. RecvTypeOK' /\ InOrder'
    BY <1>1, <1>2, <1>7, <2>3 DEF RInv, RecvTypeOK, InOrder
  <2>10. open => AtPiece'
    BY <1>1, <1>2, <1>4, <1>7, <2>4 DEF AtPiece
  <2>11. InFrame'
    BY <1>2, <2>2, <2>3, <2>10 DEF InFrame, IsRead
  <2> QED  BY <2>3, <2>8, <2>11 DEF RInv
<1> QED  BY <1>6, <1>7 DEF HeaderDone, ReadDone

\* A body read completes: the next piece is the body of the next message.
LEMMA RBodyDone ==
  ASSUME RInv, BodyDone
  PROVE  RInv'
<1>1. bodyReads = 1 /\ headReads = 0 /\ headReads' = 0 /\ bodyReads' = 0 /\ headReads + bodyReads = 1
  BY DEF RInv, RecvTypeOK, OneRead, BodyDone
<1>2. UNCHANGED <<open, receiving, delivered>>
  BY DEF BodyDone, ReadDone, sockVars
<1>4. open => StreamFrom(inStream, <<"body", Len(delivered) + 1>>)
  BY <1>1 DEF RInv, InFrame, AtPiece
<1>5. inStream \in Seq({"head", "body"} \X (1 .. NumIn)) /\ Len(delivered) \in Nat
  BY DEF RInv, RecvTypeOK
<1>6. CASE /\ open /\ inStream # <<>>
           /\ recvStrand' = Append(recvStrand, <<"body", "ok", Head(inStream)[2]>>)
           /\ misframed' = (misframed \/ ("body" = "header") # (Head(inStream)[1] = "head"))
           /\ inStream' = Tail(inStream)
  <2> DEFINE h == <<"body", "ok", Head(inStream)[2]>>
  <2>1. /\ Head(inStream) = <<"body", Len(delivered) + 1>>
        /\ StreamFrom(inStream', After(<<"body", Len(delivered) + 1>>))
    BY <1>4, <1>5, <1>6, StreamTail
  <2>0. Head(inStream) \in {"head", "body"} \X (1 .. NumIn)
    BY ZenonT(20), <1>5, <1>6, PopFacts
  <2>2. h \in RecvHandlers /\ IsRead(h) /\ h[1] = "body" /\ h[2] = "ok" /\ h[3] = Len(delivered) + 1
        /\ Len(delivered) + 1 <= NumIn
    BY <1>5, <2>0, <2>1 DEF RecvHandlers, IsRead
  <2> HIDE DEF h
  <2>3. /\ recvStrand' \in Seq(RecvHandlers) /\ OneRead'
        /\ \E i \in 1 .. Len(recvStrand') : recvStrand'[i] = h
        /\ \A i \in 1 .. Len(recvStrand') : IsRead(recvStrand'[i]) => recvStrand'[i] = h
    BY <1>1, <1>2, <1>6, <2>2, ReadPosts DEF h
  <2>4. Done("body")' /\ ~Done("header")'
    BY <2>2, <2>3 DEF Done, IsRead
  <2>5. inStream' \in Seq({"head", "body"} \X (1 .. NumIn))
    BY <1>5, <1>6, PopFacts
  <2>6. Head(inStream)[1] # "head" /\ "body" # "header"
    BY <2>1
  <2>7. misframed' = FALSE
    BY <1>6, <2>6 DEF RInv, InOrder
  <2>8. RecvTypeOK' /\ InOrder'
    BY <1>1, <1>2, <2>3, <2>5, <2>7 DEF RInv, RecvTypeOK, InOrder
  <2>9. StreamFrom(inStream', <<"head", Len(delivered) + 2>>)
    <3>1. After(<<"body", Len(delivered) + 1>>) = <<"head", Len(delivered) + 2>>
      BY <1>5 DEF After
    <3> QED  BY <2>1, <3>1
  <2>10. AtPiece'
    BY <1>1, <1>2, <2>4, <2>9 DEF AtPiece
  <2>11. InFrame'
    BY <1>2, <2>2, <2>3, <2>10 DEF InFrame, IsRead
  <2> QED  BY <2>3, <2>8, <2>11 DEF RInv
<1>7. ASSUME NEW result \in {"canceled", "eof"}, recvStrand' = Append(recvStrand, <<"body", result, 0>>),
             UNCHANGED <<inStream, misframed>>, ~open \/ inStream = <<>>
      PROVE  RInv'
  <2> DEFINE h == <<"body", result, 0>>
  <2>2. h \in RecvHandlers /\ IsRead(h) /\ h[2] # "ok"
    BY DEF RecvHandlers, IsRead
  <2> HIDE DEF h
  <2>3. /\ recvStrand' \in Seq(RecvHandlers) /\ OneRead'
        /\ \A i \in 1 .. Len(recvStrand') : IsRead(recvStrand'[i]) => recvStrand'[i] = h
    BY <1>1, <1>2, <1>7, <2>2, ReadPosts DEF h
  <2>8. RecvTypeOK' /\ InOrder'
    BY <1>1, <1>2, <1>7, <2>3 DEF RInv, RecvTypeOK, InOrder
  <2>10. open => AtPiece'
    BY <1>7, StreamEmpty DEF AtPiece
  <2>11. InFrame'
    BY <1>2, <2>2, <2>3, <2>10 DEF InFrame, IsRead
  <2> QED  BY <2>3, <2>8, <2>11 DEF RInv
<1> QED  BY <1>6, <1>7 DEF BodyDone, ReadDone

\* The peer closes: the stream may be cut off.
LEMMA RPeerClose ==
  ASSUME RInv, PeerClose
  PROVE  RInv'
<1>1. PICK n \in 0 .. Len(inStream) : inStream' = SubSeq(inStream, 1, n)
  BY DEF PeerClose
<1>2. UNCHANGED <<open, receiving, misframed, headReads, bodyReads, recvStrand, delivered>>
  BY DEF PeerClose, sockVars, recvVars
<1>3. inStream \in Seq({"head", "body"} \X (1 .. NumIn))
  BY DEF RInv, RecvTypeOK
<1>4. \A x : StreamFrom(inStream, x) => StreamFrom(inStream', x)
  BY <1>1, <1>3, StreamCut
<1>5. inStream' \in Seq({"head", "body"} \X (1 .. NumIn))
  BY <1>1, <1>3
<1>6. RecvTypeOK' /\ InOrder' /\ OneRead'
  BY <1>2, <1>5 DEF RInv, RecvTypeOK, InOrder, OneRead
<1>7. (Done("header")' <=> Done("header")) /\ (Done("body")' <=> Done("body"))
  BY <1>2 DEF Done
<1>8. AtPiece => AtPiece'
  BY <1>2, <1>4, <1>7 DEF AtPiece
<1>9. InFrame'
  BY <1>2, <1>8 DEF RInv, InFrame
<1> QED  BY <1>6, <1>9 DEF RInv

\* The peer's messages follow each other, header and body.
LEMMA RInit == Init => RInv
<1> SUFFICES ASSUME Init  PROVE RInv
  OBVIOUS
<1> DEFINE s == [i \in 1 .. 2 * NumIn |-> <<IF i % 2 = 1 THEN "head" ELSE "body", (i + 1) \div 2>>]
<1>0. NumIn \in Nat
  BY SizesAssumption
<1>1. \A i \in 1 .. 2 * NumIn : (i + 1) \div 2 \in 1 .. NumIn
  BY <1>0
<1>2. s \in Seq({"head", "body"} \X (1 .. NumIn)) /\ Len(s) = 2 * NumIn
  <2>1. s \in [1 .. 2 * NumIn -> {"head", "body"} \X (1 .. NumIn)]
    BY <1>1
  <2> HIDE DEF s
  <2> QED  BY SMTT(20), Z3T(20), SMTT(30), <1>0, <2>1
<1>3. s # <<>> => s[1] = <<"head", 1>>
  <2>1. s # <<>> => 1 \in 1 .. 2 * NumIn
    BY <1>0, <1>2
  <2>2. 1 % 2 = 1 /\ (1 + 1) \div 2 = 1
    OBVIOUS
  <2> QED  BY <2>1, <2>2
<1>4. ASSUME NEW i \in 1 .. Len(s), i < Len(s)  PROVE s[i + 1] = After(s[i])
  <2>1. i \in 1 .. 2 * NumIn /\ i + 1 \in 1 .. 2 * NumIn /\ i \in Nat
    BY <1>0, <1>2, <1>4
  <2>2. CASE i % 2 = 1
    <3>1. (i + 1) % 2 # 1 /\ (i + 1 + 1) \div 2 = (i + 1) \div 2
      BY <2>1, <2>2
    <3> QED  BY <2>1, <2>2, <3>1 DEF After
  <2>3. CASE i % 2 # 1
    <3>1. (i + 1) % 2 = 1 /\ (i + 1 + 1) \div 2 = (i + 1) \div 2 + 1
      BY <2>1, <2>3
    <3> QED  BY <2>1, <2>3, <3>1 DEF After
  <2> QED  BY <2>2, <2>3
<1>5. inStream = s /\ StreamFrom(s, <<"head", 1>>)
  BY <1>3, <1>4 DEF Init, StreamFrom
<1> HIDE DEF s
<1>6. /\ recvStrand \in Seq(RecvHandlers) /\ Len(recvStrand) = 1
      /\ recvStrand[1] = <<"recv", "ok", 0>> /\ ~IsRead(recvStrand[1])
  <2>1. <<"recv", "ok", 0>> \in RecvHandlers /\ ~IsRead(<<"recv", "ok", 0>>)
    BY DEF RecvHandlers, IsRead
  <2> QED  BY <2>1 DEF Init
<1>7. delivered = <<>> /\ delivered \in Seq(Nat) /\ Len(delivered) = 0
  BY DEF Init
<1>8. RecvTypeOK
  <2>1. open \in BOOLEAN /\ receiving \in BOOLEAN /\ misframed \in BOOLEAN
    BY DEF Init
  <2>2. headReads \in 0 .. 1 /\ bodyReads \in 0 .. 1
    BY DEF Init
  <2> QED  BY <1>2, <1>5, <1>6, <1>7, <2>1, <2>2 DEF RecvTypeOK
<1>9. OneRead
  BY SMTT(20), Z3T(20), SMTT(30), <1>6 DEF Init, OneRead
<1>10. InOrder
  BY <1>0, <1>7 DEF Init, InOrder
<1>11. ~Done("header") /\ ~Done("body")
  BY <1>6 DEF Done, IsRead
<1>12. bodyReads = 0 /\ StreamFrom(inStream, <<"head", Len(delivered) + 1>>)
  <2>1. Len(delivered) + 1 = 1 /\ bodyReads = 0
    BY <1>7 DEF Init
  <2> QED  BY <1>5, <2>1
<1>13. InFrame
  BY <1>6, <1>11, <1>12 DEF InFrame, AtPiece, IsRead
<1> QED  BY <1>8, <1>9, <1>10, <1>13 DEF RInv

\* Every step keeps the receive side in order.
LEMMA RStep == RInv /\ [Next]_vars => RInv'
<1> SUFFICES ASSUME RInv, [Next]_vars  PROVE RInv'
  OBVIOUS
<1>0. open \in BOOLEAN /\ recvStrand \in Seq(RecvHandlers)
  BY DEF RInv, RecvTypeOK
<1>1. CASE RecvMsg \/ CloseAsync
  <2>1. PICK h \in {<<"recv", "ok", 0>>, <<"close", "ok", 0>>} : recvStrand' = Append(recvStrand, h)
    BY <1>1 DEF RecvMsg, CloseAsync
  <2>2. h \in RecvHandlers /\ ~IsRead(h)
    BY DEF RecvHandlers, IsRead
  <2>3. UNCHANGED <<recvState, open>>
    BY <1>1 DEF RecvMsg, CloseAsync, recvState, sockVars, peerVars
  <2> QED  BY <2>1, <2>2, <2>3, RPush
<1>2. CASE PerformRecv \/ CloseOnStrand
  <2>1. recvStrand # <<>> /\ Head(recvStrand)[1] \in {"recv", "close"} /\ recvStrand' = Tail(recvStrand)
    BY <1>2 DEF PerformRecv, CloseOnStrand, RecvHandler
  <2>2. ~IsRead(recvStrand[1])
    BY <1>0, <2>1, PopFacts DEF IsRead
  <2>3. UNCHANGED <<misframed, bodyReads, inStream, delivered>> /\ open' = open
    BY <1>2 DEF PerformRecv, CloseOnStrand, sockVars, peerVars
  <2>4. \/ UNCHANGED <<receiving, headReads>>
        \/ ~receiving /\ receiving' = TRUE /\ headReads' = headReads + 1
    BY <1>2 DEF PerformRecv, CloseOnStrand
  <2> QED  BY <2>1, <2>2, <2>3, <2>4, RPop
<1>3. CASE ReceivedHeader \/ ReceivedBody \/ HeaderDone \/ BodyDone \/ PeerClose
  BY <1>3, RHeader, RBody, RHeaderDone, RBodyDone, RPeerClose
<1>4. CASE SendMsg \/ PerformSend \/ PerformQueuedSend \/ Sent \/ WriteDone \/ UNCHANGED vars
  <2>1. UNCHANGED <<recvState, recvStrand>> /\ open' = open
    BY <1>4 DEF SendMsg, PerformSend, PerformQueuedSend, Sent, WriteDone, recvState, sockVars, recvVars, peerVars, vars
  <2> QED  BY <1>0, <2>1, RFrame
<1>5. CASE AfterSent \/ SendFail \/ RecvFail \/ FinishClose
  <2>1. UNCHANGED <<recvState, recvStrand>>
    BY <1>5 DEF AfterSent, SendFail, RecvFail, FinishClose, recvState, recvVars, peerVars
  <2>2. open' = open \/ open' = FALSE
    BY <1>5 DEF AfterSent, SendFail, RecvFail, FinishClose, CloseNow, sockVars
  <2>3. open' \in BOOLEAN /\ (open' => open)
    <3>1. CASE open' = open
      BY <1>0, <3>1
    <3>2. CASE open' = FALSE
      BY <3>2
    <3> QED  BY <2>2, <3>1, <3>2
  <2> QED  BY <2>1, <2>3, RFrame
<1> QED  BY <1>1, <1>2, <1>3, <1>4, <1>5 DEF Next, Caller, SendSide, RecvSide, ReadSide

\* ConnectedSocket's reads: whoever calls recv_msg, two reads are never
\* outstanding, a body is never taken for a header, and the callback gets the
\* messages in the order in which the peer sent them.
THEOREM ReadsFramed == Spec => []FramesIntact
<1>1. RInv => FramesIntact
  <2> SUFFICES ASSUME RInv  PROVE FramesIntact
    OBVIOUS
  <2>1. headReads + bodyReads <= 1 /\ ~misframed
    BY DEF RInv, OneRead, InOrder
  <2>2. /\ delivered \in Seq(Nat) /\ Len(delivered) <= NumIn /\ NumIn \in Nat
        /\ \A i \in 1 .. Len(delivered) : delivered[i] = i
    BY SizesAssumption DEF RInv, RecvTypeOK, InOrder
  <2> DEFINE s == [i \in 1 .. NumIn |-> i]
  <2>3. s \in Seq(Nat) /\ Len(s) = NumIn /\ \A i \in 1 .. NumIn : s[i] = i
    BY <2>2
  <2> HIDE DEF s
  <2>4. SubSeq(s, 1, Len(delivered)) \in Seq(Nat) /\ Len(SubSeq(s, 1, Len(delivered))) = Len(delivered)
        /\ \A i \in 1 .. Len(delivered) : SubSeq(s, 1, Len(delivered))[i] = i
    BY SMTT(20), Z3T(20), SMTT(30), <2>2, <2>3
  <2>5. delivered = SubSeq(s, 1, Len(delivered))
    BY <2>2, <2>4
  <2> QED  BY <2>1, <2>2, <2>3, <2>5 DEF FramesIntact, PrefixOf, s
<1> QED  BY <1>1, RInit, RStep, PTL DEF Spec

-----------------------------------------------------------------------------
(* The send side: one write or write handler at a time, and the messages    *)
(* that wait in the two queues in order.                                    *)

SendHandlers == {"send", "queued", "sent"} \X Nat \X {"ok", "error"}

IsSent(h) == h[1] = "sent"
NoSent(q) == \A i \in 1 .. Len(q) : ~IsSent(q[i])
OneSent(q) == \A i, j \in 1 .. Len(q) : IsSent(q[i]) /\ IsSent(q[j]) => i = j
Error(q) == \E i \in 1 .. Len(q) : IsSent(q[i]) /\ q[i][3] = "error"

\* The calls of perform_send in q are for the messages lo, ..., hi in order.
Sends(q, lo, hi) ==
  /\ \A i \in 1 .. Len(q) : q[i][1] = "send" => q[i][2] \in lo .. hi
  /\ \A i, j \in 1 .. Len(q) : q[i][1] = "send" /\ q[j][1] = "send" /\ i < j => q[i][2] < q[j][2]
  /\ \A m \in lo .. hi : \E i \in 1 .. Len(q) : q[i][1] = "send" /\ q[i][2] = m

\* The messages in q are the ones behind n.
QueueFrom(q, n) == \A i \in 1 .. Len(q) : q[i] = n + i

\* The last message that was given to async_write.
Issued == IF writes # {} \/ Error(sendStrand) THEN Len(wire) + 1 ELSE Len(wire)

SendTypeOK ==
  /\ open \in BOOLEAN /\ sending \in BOOLEAN
  /\ sendQueue \in Seq(Nat) /\ bytesQueued \in Int
  /\ sendStrand \in Seq(SendHandlers)
  /\ wire \in Seq(Nat) /\ writes \in SUBSET Nat /\ nextOut \in Nat \ {0}
  /\ accepted \in Seq(Nat) /\ Len(accepted) = nextOut - 1
  /\ \A i \in 1 .. Len(accepted) : accepted[i] = i

\* What was written is what came first; one async_write, or the handler of
\* one, at a time, and none unless sending is set.
OneWrite ==
  /\ Len(wire) < nextOut /\ \A i \in 1 .. Len(wire) : wire[i] = i
  /\ writes \subseteq {Len(wire) + 1} /\ (writes # {} => Len(wire) + 1 < nextOut)
  /\ writes # {} => sending /\ NoSent(sendStrand)
  /\ ~sending => NoSent(sendStrand)
  /\ OneSent(sendStrand)

\* The messages behind the last issued one are in sendQueue, then in the
\* strand; sendQueue is empty when nobody is going to take from it.
Waiting ==
  /\ QueueFrom(sendQueue, Issued)
  /\ Issued + Len(sendQueue) < nextOut
  /\ Sends(sendStrand, Issued + Len(sendQueue) + 1, nextOut - 1)
  /\ sendPc = "idle" /\ ~sending => sendQueue = <<>>

SInv ==
  /\ SendTypeOK
  /\ Sound => OneWrite /\ bytesQueued = Len(sendQueue) /\ (open => Waiting)

\* Posting a handler that is no perform_send.
LEMMA SendsPush ==
  ASSUME NEW q \in Seq(SendHandlers), NEW lo \in Nat, NEW hi \in Int, Sends(q, lo, hi),
         NEW h \in SendHandlers, h[1] # "send"
  PROVE  Sends(Append(q, h), lo, hi)
<1> DEFINE p == Append(q, h)
<1>1. /\ Len(q) \in Nat /\ Len(p) = Len(q) + 1
      /\ \A i \in 1 .. Len(q) : p[i] = q[i]
      /\ p[Len(q) + 1] = h
  BY SMTT(20), Z3T(20), SMTT(30), PushFacts
<1> HIDE DEF p
<1>2. \A i \in 1 .. Len(p) : p[i][1] = "send" => i \in 1 .. Len(q) /\ p[i] = q[i]
  BY SMTT(20), Z3T(20), SMTT(30), <1>1
<1>3. \A i \in 1 .. Len(q) : i \in 1 .. Len(p)
  BY SMTT(20), Z3T(20), SMTT(30), <1>1
<1>4. \A m \in lo .. hi : \E i \in 1 .. Len(p) : p[i][1] = "send" /\ p[i][2] = m
  <2> TAKE m \in lo .. hi
  <2>1. PICK i \in 1 .. Len(q) : q[i][1] = "send" /\ q[i][2] = m
    BY DEF Sends
  <2> QED  BY <1>1, <1>3, <2>1
<1>5. Sends(p, lo, hi)
  BY <1>2, <1>4 DEF Sends
<1> QED  BY <1>5 DEF p

\* send_msg posts the perform_send of the next message.
LEMMA SendsNext ==
  ASSUME NEW q \in Seq(SendHandlers), NEW lo \in Nat, NEW hi \in Int, lo <= hi + 1, Sends(q, lo, hi),
         NEW h \in SendHandlers, h[1] = "send", h[2] = hi + 1
  PROVE  Sends(Append(q, h), lo, hi + 1)
<1> DEFINE p == Append(q, h)
<1>1. /\ Len(q) \in Nat /\ Len(p) = Len(q) + 1
      /\ \A i \in 1 .. Len(q) : p[i] = q[i]
      /\ p[Len(q) + 1] = h
  BY SMTT(20), Z3T(20), SMTT(30), PushFacts
<1> HIDE DEF p
<1>2. \A i \in 1 .. Len(p) : i # Len(q) + 1 => i \in 1 .. Len(q) /\ p[i] = q[i]
  BY SMTT(20), Z3T(20), SMTT(30), <1>1
<1>3. (\A i \in 1 .. Len(q) : i \in 1 .. Len(p) /\ i # Len(q) + 1) /\ Len(q) + 1 \in 1 .. Len(p)
  BY <1>1
<1>4. ASSUME NEW m \in lo .. hi + 1
      PROVE  \E i \in 1 .. Len(p) : p[i][1] = "send" /\ p[i][2] = m
  <2>1. CASE m = hi + 1
    BY <1>1, <1>3, <2>1
  <2>2. CASE m # hi + 1
    <3>1. PICK i \in 1 .. Len(q) : q[i][1] = "send" /\ q[i][2] = m
      BY SMTT(20), Z3T(20), SMTT(30), <2>2 DEF Sends
    <3> QED  BY <1>1, <1>3, <3>1
  <2> QED  BY <2>1, <2>2
<1>5. \A i \in 1 .. Len(p) : p[i][1] = "send" => p[i][2] \in lo .. hi + 1
  BY SMTT(20), Z3T(20), SMTT(30), <1>1, <1>2 DEF Sends
<1>6. ASSUME NEW i \in 1 .. Len(p), NEW j \in 1 .. Len(p), p[i][1] = "send", p[j][1] = "send", i < j
      PROVE  p[i][2] < p[j][2]
  <2>1. i \in 1 .. Len(q) /\ p[i] = q[i] /\ q[i][2] \in lo .. hi
    BY SMTT(20), Z3T(20), SMTT(30), <1>1, <1>2, <1>6 DEF Sends
  <2>2. CASE j = Len(q) + 1
    BY <1>1, <2>1, <2>2
  <2>3. CASE j # Len(q) + 1
    BY <1>2, <1>6, <2>1, <2>3 DEF Sends
  <2> QED  BY <2>2, <2>3
<1>7. Sends(p, lo, hi + 1)
  BY <1>4, <1>5, <1>6 DEF Sends
<1> QED  BY <1>7 DEF p

\* Taking the first handler: a perform_send is for the first message.
LEMMA SendsPop ==
  ASSUME NEW q \in Seq(SendHandlers), q # <<>>, NEW lo \in Nat, NEW hi \in Int, Sends(q, lo, hi)
  PROVE  /\ q[1][1] # "send" => Sends(Tail(q), lo, hi)
         /\ q[1][1] = "send" => q[1][2] = lo /\ lo <= hi /\ Sends(Tail(q), lo + 1, hi)
<1> DEFINE p == Tail(q)
<1>1. /\ Len(q) \in Nat /\ Len(q) >= 1 /\ Len(p) = Len(q) - 1
      /\ \A i \in 1 .. Len(q) - 1 : p[i] = q[i + 1]
  BY PopFacts
<1> HIDE DEF p
<1>2. \A i \in 1 .. Len(p) : i + 1 \in 1 .. Len(q) /\ i + 1 # 1 /\ 1 < i + 1 /\ p[i] = q[i + 1]
  BY <1>1
<1>3. 1 \in 1 .. Len(q) /\ \A j \in 1 .. Len(q) : j # 1 => j - 1 \in 1 .. Len(p) /\ p[j - 1] = q[j]
  <2>1. 1 \in 1 .. Len(q) /\ \A j \in 1 .. Len(q) : j # 1 => j - 1 \in 1 .. Len(p) /\ j - 1 + 1 = j
    BY <1>1
  <2> QED  BY <1>2, <2>1
<1>4. ASSUME NEW i \in 1 .. Len(p), NEW j \in 1 .. Len(p), p[i][1] = "send", p[j][1] = "send", i < j
      PROVE  p[i][2] < p[j][2]
  <2>1. i + 1 < j + 1
    BY SMTT(20), Z3T(20), SMTT(30), <1>1, <1>4
  <2>2. /\ i + 1 \in 1 .. Len(q) /\ j + 1 \in 1 .. Len(q)
        /\ q[i + 1][1] = "send" /\ q[j + 1][1] = "send" /\ p[i] = q[i + 1] /\ p[j] = q[j + 1]
    BY Zenon, <1>2, <1>4
  <2>3. q[i + 1][2] < q[j + 1][2]
    BY Zenon, <2>1, <2>2 DEF Sends
  <2> QED  BY Zenon, <2>2, <2>3
<1>5. ASSUME q[1][1] # "send"  PROVE Sends(p, lo, hi)
  <2>1. \A i \in 1 .. Len(p) : p[i][1] = "send" => p[i][2] \in lo .. hi
    BY SMTT(20), Z3T(20), SMTT(30), <1>2 DEF Sends
  <2>2. ASSUME NEW m \in lo .. hi  PROVE \E i \in 1 .. Len(p) : p[i][1] = "send" /\ p[i][2] = m
    <3>1. PICK j \in 1 .. Len(q) : q[j][1] = "send" /\ q[j][2] = m
      BY DEF Sends
    <3>2. j # 1
      BY <1>5, <3>1
    <3> QED  BY <1>3, <3>1, <3>2
  <2> QED  BY <1>4, <2>1, <2>2 DEF Sends
<1>6. ASSUME q[1][1] = "send"  PROVE q[1][2] = lo /\ lo <= hi /\ Sends(p, lo + 1, hi)
  <2>1. q[1][2] \in lo .. hi
    BY <1>3, <1>6 DEF Sends
  <2>2. lo <= hi /\ lo \in lo .. hi
    BY <2>1
  <2>3. PICK j \in 1 .. Len(q) : q[j][1] = "send" /\ q[j][2] = lo
    BY <2>2 DEF Sends
  <2>4. j # 1 => q[1][2] < lo
    <3>1. j # 1 => 1 < j
      BY <1>1
    <3> QED  BY <1>3, <1>6, <2>3, <3>1 DEF Sends
  <2>5. q[1][2] = lo
    BY <2>1, <2>3, <2>4
  <2>6. \A i \in 1 .. Len(p) : p[i][1] = "send" => p[i][2] \in lo .. hi /\ lo < p[i][2]
    BY SMTT(20), Z3T(20), SMTT(30), <1>2, <1>3, <1>6, <2>5 DEF Sends
  <2>7. \A i \in 1 .. Len(p) : p[i][1] = "send" => p[i][2] \in lo + 1 .. hi
    BY <2>6
  <2>8. ASSUME NEW m \in lo + 1 .. hi  PROVE \E i \in 1 .. Len(p) : p[i][1] = "send" /\ p[i][2] = m
    <3>1. m \in lo .. hi /\ m # lo
      OBVIOUS
    <3>2. PICK k \in 1 .. Len(q) : q[k][1] = "send" /\ q[k][2] = m
      BY <3>1 DEF Sends
    <3>3. k # 1
      BY <2>5, <3>1, <3>2
    <3> QED  BY <1>3, <3>2, <3>3
  <2> QED  BY <1>4, <2>2, <2>5, <2>7, <2>8 DEF Sends
<1> QED  BY <1>5, <1>6 DEF p

\* Posting a handler: the handlers of writes are the ones there were, and the
\* new one if it is a write's.
LEMMA SentPush ==
  ASSUME NEW q \in Seq(SendHandlers), NEW h \in SendHandlers
  PROVE  /\ ~IsSent(h) => /\ NoSent(q) => NoSent(Append(q, h))
                          /\ OneSent(q) => OneSent(Append(q, h))
                          /\ Error(Append(q, h)) <=> Error(q)
         /\ IsSent(h) /\ NoSent(q) => /\ OneSent(Append(q, h))
                                      /\ Error(Append(q, h)) <=> h[3] = "error"
<1> DEFINE p == Append(q, h)
<1>1. /\ Len(q) \in Nat /\ Len(p) = Len(q) + 1
      /\ \A i \in 1 .. Len(q) : p[i] = q[i]
      /\ p[Len(q) + 1] = h
  BY SMTT(20), Z3T(20), SMTT(30), PushFacts
<1> HIDE DEF p
<1>2. \A i \in 1 .. Len(p) : i # Len(q) + 1 => i \in 1 .. Len(q) /\ p[i] = q[i]
  BY <1>1
<1>3. (\A i \in 1 .. Len(q) : i \in 1 .. Len(p) /\ p[i] = q[i]) /\ Len(q) + 1 \in 1 .. Len(p)
  BY <1>1
<1>4. ASSUME ~IsSent(h)
      PROVE  (NoSent(q) => NoSent(p)) /\ (OneSent(q) => OneSent(p)) /\ (Error(p) <=> Error(q))
  <2>1. \A i \in 1 .. Len(p) : IsSent(p[i]) => i \in 1 .. Len(q) /\ p[i] = q[i]
    BY <1>1, <1>2, <1>4
  <2>2. (NoSent(q) => NoSent(p)) /\ (OneSent(q) => OneSent(p))
    BY <2>1 DEF NoSent, OneSent
  <2>3. Error(p) => Error(q)
    BY <2>1 DEF Error
  <2>4. Error(q) => Error(p)
    BY <1>3 DEF Error
  <2> QED  BY <2>2, <2>3, <2>4
<1>5. ASSUME IsSent(h), NoSent(q)
      PROVE  OneSent(p) /\ (Error(p) <=> h[3] = "error")
  <2>1. \A i \in 1 .. Len(p) : IsSent(p[i]) => i = Len(q) + 1
    BY <1>2, <1>5 DEF NoSent
  <2>2. OneSent(p)
    BY <2>1 DEF OneSent
  <2>3. Error(p) => h[3] = "error"
    BY <1>1, <2>1 DEF Error
  <2>4. h[3] = "error" => Error(p)
    BY <1>1, <1>3, <1>5 DEF Error
  <2> QED  BY <2>2, <2>3, <2>4
<1> QED  BY <1>4, <1>5 DEF p

\* Taking the first handler.
LEMMA SentPop ==
  ASSUME NEW q \in Seq(SendHandlers), q # <<>>, OneSent(q)
  PROVE  /\ OneSent(Tail(q))
         /\ NoSent(q) => NoSent(Tail(q))
         /\ IsSent(q[1]) => NoSent(Tail(q)) /\ (Error(q) <=> q[1][3] = "error") /\ ~Error(Tail(q))
         /\ ~IsSent(q[1]) => (Error(Tail(q)) <=> Error(q))
<1> DEFINE p == Tail(q)
<1>1. /\ Len(q) \in Nat /\ Len(q) >= 1 /\ Len(p) = Len(q) - 1
      /\ \A i \in 1 .. Len(q) - 1 : p[i] = q[i + 1]
  BY PopFacts
<1> HIDE DEF p
<1>2. \A i \in 1 .. Len(p) : i + 1 \in 1 .. Len(q) /\ i + 1 # 1 /\ p[i] = q[i + 1]
  BY <1>1
<1>3. 1 \in 1 .. Len(q) /\ \A j \in 1 .. Len(q) : j # 1 => j - 1 \in 1 .. Len(p) /\ p[j - 1] = q[j]
  <2>1. 1 \in 1 .. Len(q) /\ \A j \in 1 .. Len(q) : j # 1 => j - 1 \in 1 .. Len(p) /\ j - 1 + 1 = j
    BY <1>1
  <2> QED  BY <1>2, <2>1
<1>4. OneSent(p)
  <2>1. \A i, j \in 1 .. Len(p) : i + 1 = j + 1 => i = j
    BY <1>1
  <2> QED  BY <1>2, <2>1 DEF OneSent
<1>5. NoSent(q) => NoSent(p)
  BY <1>2 DEF NoSent
<1>6. ASSUME IsSent(q[1])  PROVE NoSent(p) /\ (Error(q) <=> q[1][3] = "error") /\ ~Error(p)
  <2>1. \A j \in 1 .. Len(q) : IsSent(q[j]) => j = 1
    BY <1>3, <1>6 DEF OneSent
  <2>2. NoSent(p)
    BY <1>2, <2>1 DEF NoSent
  <2>3. Error(q) => q[1][3] = "error"
    BY <2>1 DEF Error
  <2>4. q[1][3] = "error" => Error(q)
    BY <1>3, <1>6 DEF Error
  <2>5. ~Error(p)
    BY <2>2 DEF Error, NoSent
  <2> QED  BY <2>2, <2>3, <2>4, <2>5
<1>7. ASSUME ~IsSent(q[1])  PROVE Error(p) <=> Error(q)
  <2>1. Error(p) => Error(q)
    BY <1>2 DEF Error
  <2>2. ASSUME NEW j \in 1 .. Len(q), IsSent(q[j]), q[j][3] = "error"  PROVE Error(p)
    <3>1. j # 1
      BY <1>7, <2>2
    <3> QED  BY <1>3, <2>2, <3>1 DEF Error
  <2> QED  BY <2>1, <2>2 DEF Error
<1> QED  BY <1>4, <1>5, <1>6, <1>7 DEF p

\* Without a handler there is no error.
LEMMA NoSentNoError == \A q : NoSent(q) => ~Error(q) /\ OneSent(q)
  BY DEF NoSent, Error, OneSent

\* Queueing one message behind the others.
LEMMA QueuePush ==
  ASSUME NEW q \in Seq(Nat), NEW n \in Nat, QueueFrom(q, n)
  PROVE  QueueFrom(Append(q, n + Len(q) + 1), n)
<1> DEFINE p == Append(q, n + Len(q) + 1)
<1>1. /\ Len(q) \in Nat /\ Len(p) = Len(q) + 1
      /\ \A i \in 1 .. Len(q) : p[i] = q[i]
      /\ p[Len(q) + 1] = n + Len(q) + 1
  OBVIOUS
<1> HIDE DEF p
<1>2. \A i \in 1 .. Len(p) : i # Len(q) + 1 => i \in 1 .. Len(q)
  BY <1>1
<1>3. n + Len(q) + 1 = n + (Len(q) + 1)
  BY <1>1
<1>4. QueueFrom(p, n)
  BY <1>1, <1>2, <1>3 DEF QueueFrom
<1> QED  BY <1>4 DEF p

\* Taking the first message: the others are behind it.
LEMMA QueuePop ==
  ASSUME NEW q \in Seq(Nat), NEW n \in Nat, QueueFrom(q, n), q # <<>>
  PROVE  Head(q) = n + 1 /\ QueueFrom(Tail(q), n + 1)
<1>1. /\ Head(q) = q[1] /\ Len(q) \in Nat /\ Len(q) >= 1 /\ Len(Tail(q)) = Len(q) - 1
      /\ \A i \in 1 .. Len(q) - 1 : Tail(q)[i] = q[i + 1]
  BY PopFacts
<1>2. 1 \in 1 .. Len(q) /\ \A i \in 1 .. Len(q) - 1 : i + 1 \in 1 .. Len(q) /\ n + (i + 1) = n + 1 + i
  BY SMTT(20), Z3T(20), SMTT(30), <1>1
<1> QED  BY <1>1, <1>2 DEF QueueFrom

\* A step after which neither strand has failed starts where neither has.
LEMMA SoundBack == [Next]_vars /\ Sound' => Sound
<1> SUFFICES ASSUME [Next]_vars, Sound'  PROVE Sound
  OBVIOUS
<1> USE DEF Sound, vars, sockVars, sendVars, recvVars, userVars
<1>1. CASE SendMsg \/ RecvMsg \/ CloseAsync
  BY <1>1 DEF SendMsg, RecvMsg, CloseAsync
<1>2. CASE PerformSend \/ PerformQueuedSend \/ Sent \/ AfterSent \/ SendFail
  BY <1>2 DEF PerformSend, PerformQueuedSend, Sent, AfterSent, SendFail, SendHandler
<1>3. CASE PerformRecv \/ ReceivedHeader \/ ReceivedBody
  BY <1>3 DEF PerformRecv, ReceivedHeader, ReceivedBody, RecvHandler
<1>4. CASE RecvFail \/ CloseOnStrand \/ FinishClose
  BY SMTT(20), Z3T(20), SMTT(30), <1>4 DEF RecvFail, CloseOnStrand, FinishClose, RecvHandler
<1>5. CASE WriteDone \/ HeaderDone \/ BodyDone \/ PeerClose \/ UNCHANGED vars
  BY <1>5 DEF WriteDone, HeaderDone, BodyDone, ReadDone, PeerClose
<1> QED  BY <1>1, <1>2, <1>3, <1>4, <1>5 DEF Next, Caller, SendSide, RecvSide, ReadSide

-----------------------------------------------------------------------------
(* The steps of the send side.                                              *)

\* Every step keeps the types, and the caller's messages are numbered.
LEMMA STypeStep == SendTypeOK /\ [Next]_vars => SendTypeOK'
<1> SUFFICES ASSUME SendTypeOK, [Next]_vars  PROVE SendTypeOK'
  OBVIOUS
<1>0. /\ open \in BOOLEAN /\ sending \in BOOLEAN /\ sendQueue \in Seq(Nat) /\ bytesQueued \in Int
      /\ sendStrand \in Seq(SendHandlers)
      /\ wire \in Seq(Nat) /\ writes \in SUBSET Nat /\ nextOut \in Nat \ {0} /\ accepted \in Seq(Nat)
      /\ Len(accepted) = nextOut - 1 /\ \A i \in 1 .. Len(accepted) : accepted[i] = i
  BY DEF SendTypeOK
<1>e. sendQueue \in Seq(Nat) /\ <<>> \in Seq(Nat)
  BY SMTT(20), Z3T(20), SMTT(30), <1>0
<1>h. sendStrand # <<>> =>
        /\ Tail(sendStrand) \in Seq(SendHandlers) /\ Head(sendStrand)[2] \in Nat /\ Head(sendStrand)[3] \in {"ok", "error"}
        /\ Append(Tail(sendStrand), <<"queued", 0, "ok">>) \in Seq(SendHandlers)
  <2> SUFFICES ASSUME sendStrand # <<>>
               PROVE  /\ Tail(sendStrand) \in Seq(SendHandlers) /\ Head(sendStrand)[2] \in Nat
                      /\ Head(sendStrand)[3] \in {"ok", "error"}
                      /\ Append(Tail(sendStrand), <<"queued", 0, "ok">>) \in Seq(SendHandlers)
    OBVIOUS
  <2>1. Tail(sendStrand) \in Seq(SendHandlers) /\ Head(sendStrand) \in SendHandlers
    BY SMTT(20), Z3T(20), SMTT(30), <1>0, PopFacts
  <2>2. <<"queued", 0, "ok">> \in SendHandlers
    BY DEF SendHandlers
  <2> QED  BY <2>1, <2>2 DEF SendHandlers
<1>1. CASE SendMsg
  <2>1. <<"send", nextOut, "ok">> \in SendHandlers
    BY <1>0 DEF SendHandlers
  <2>2. sendStrand' \in Seq(SendHandlers)
    BY SMTT(20), Z3T(20), SMTT(30), <1>0, <1>1, <2>1 DEF SendMsg
  <2>3. /\ accepted' \in Seq(Nat) /\ Len(accepted') = Len(accepted) + 1 /\ Len(accepted) \in Nat
        /\ \A i \in 1 .. Len(accepted) : accepted'[i] = accepted[i]
        /\ accepted'[Len(accepted) + 1] = nextOut
    BY SMTT(20), Z3T(20), SMTT(30), <1>0, <1>1, PushFacts DEF SendMsg
  <2>4. nextOut' = nextOut + 1
    BY <1>1 DEF SendMsg
  <2>5. \A i \in 1 .. Len(accepted') : i # Len(accepted) + 1 => i \in 1 .. Len(accepted)
    BY <2>3
  <2>6. nextOut' \in Nat \ {0} /\ Len(accepted') = nextOut' - 1 /\ nextOut = Len(accepted) + 1
    BY <1>0, <2>3, <2>4
  <2>7. \A i \in 1 .. Len(accepted') : accepted'[i] = i
    BY <1>0, <2>3, <2>5, <2>6
  <2> QED  BY <1>0, <1>1, <2>2, <2>3, <2>6, <2>7 DEF SendMsg, SendTypeOK, sockVars, peerVars
<1>2. CASE PerformSend
  <2>1. sendStrand' \in Seq(SendHandlers)
    BY <1>2, <1>h DEF PerformSend, SendHandler
  <2>2. sendQueue' \in Seq(Nat) /\ writes' \in SUBSET Nat /\ bytesQueued' \in Int
    <3>1. Head(sendStrand)[2] \in Nat
      BY <1>2, <1>h DEF PerformSend, SendHandler
    <3>2. sendQueue' = sendQueue \/ sendQueue' = Append(sendQueue, Head(sendStrand)[2])
      BY <1>2 DEF PerformSend
    <3>3. writes' = writes \/ writes' = writes \cup {Head(sendStrand)[2]}
      BY <1>2 DEF PerformSend, AsyncWrite
    <3>4. bytesQueued' = bytesQueued \/ bytesQueued' = bytesQueued + 1
      BY <1>2 DEF PerformSend
    <3>5. Append(sendQueue, Head(sendStrand)[2]) \in Seq(Nat) /\ bytesQueued + 1 \in Int
      BY SMTT(20), Z3T(20), SMTT(30), <1>0, <3>1, PushFacts
    <3> QED  BY <1>0, <3>1, <3>2, <3>3, <3>4, <3>5
  <2>3. sending' \in BOOLEAN
    BY <1>0, <1>2 DEF PerformSend, AsyncWrite
  <2> QED  BY <1>0, <1>2, <2>1, <2>2, <2>3 DEF PerformSend, SendTypeOK, sockVars, userVars, peerVars
<1>3. ASSUME WriteQueued
      PROVE  sendQueue' \in Seq(Nat) /\ writes' \in SUBSET Nat /\ bytesQueued' \in Int /\ sending' \in BOOLEAN
  <2>1. sendQueue' \in Seq(Nat) /\ writes' \in SUBSET Nat /\ bytesQueued' \in Int
    <3>1. CASE UNCHANGED <<sendQueue, bytesQueued, writes>>
      BY <1>0, <3>1
    <3>2. CASE /\ sendQueue # <<>> /\ sendQueue' = Tail(sendQueue) /\ writes' = writes \cup {Head(sendQueue)}
               /\ bytesQueued' = bytesQueued - 1
      <4>1. Tail(sendQueue) \in Seq(Nat) /\ Head(sendQueue) \in Nat /\ bytesQueued - 1 \in Int
        BY SMTT(20), Z3T(20), SMTT(30), <1>0, <3>2, PopFacts
      <4> QED  BY <1>0, <3>2, <4>1
    <3> QED  BY <1>3, <3>1, <3>2 DEF WriteQueued, AsyncWrite
  <2>2. sending' \in BOOLEAN
    BY <1>0, <1>3 DEF WriteQueued, AsyncWrite
  <2> QED  BY <2>1, <2>2
<1>4. CASE PerformQueuedSend
  BY <1>0, <1>3, <1>4, <1>h DEF PerformQueuedSend, SendHandler, SendTypeOK, sockVars, userVars, peerVars
<1>5. CASE Sent
  <2>1. sendStrand' \in Seq(SendHandlers) /\ sendQueue' \in Seq(Nat)
    <3>1. sendQueue' = sendQueue \/ sendQueue' = <<>>
      BY <1>5 DEF Sent, FailReset
    <3>2. sendQueue' \in Seq(Nat)
      BY <1>e, <3>1
    <3> QED  BY <1>5, <1>h, <3>2 DEF Sent, SendHandler
  <2>2. sending' \in BOOLEAN
    BY <1>0, <1>5 DEF Sent, FailReset
  <2> QED  BY <1>0, <1>5, <2>1, <2>2 DEF Sent, SendTypeOK, sockVars, userVars, peerVars
<1>6. CASE AfterSent
  <2>1. sendQueue' \in Seq(Nat) /\ writes' \in SUBSET Nat /\ bytesQueued' \in Int /\ sending' \in BOOLEAN
    BY <1>0, <1>3, <1>6 DEF AfterSent
  <2>2. open' \in BOOLEAN
    BY <1>0, <1>6 DEF AfterSent, CloseNow, sockVars
  <2> QED  BY <1>0, <1>6, <2>1, <2>2 DEF AfterSent, SendTypeOK, userVars, peerVars
<1>7. CASE SendFail \/ RecvFail \/ FinishClose
  <2>1. open' \in BOOLEAN
    BY <1>0, <1>7 DEF SendFail, RecvFail, FinishClose, CloseNow
  <2>2. UNCHANGED <<sending, sendQueue, bytesQueued, sendStrand, writes, wire, nextOut, accepted>>
    BY <1>7 DEF SendFail, RecvFail, FinishClose, sendVars, userVars, peerVars
  <2> QED  BY <1>0, <2>1, <2>2 DEF SendTypeOK
<1>8. CASE ReceivedHeader \/ ReceivedBody
  <2>1. sending' \in BOOLEAN
    BY <1>0, <1>8 DEF ReceivedHeader, ReceivedBody, FailReset
  <2>2. sendQueue' \in Seq(Nat)
    <3>1. sendQueue' = sendQueue \/ sendQueue' = <<>>
      BY <1>8 DEF ReceivedHeader, ReceivedBody, FailReset
    <3> QED  BY <1>e, <3>1
  <2>3. UNCHANGED <<open, bytesQueued, sendStrand, writes, wire, nextOut, accepted>>
    BY <1>8 DEF ReceivedHeader, ReceivedBody, sockVars, userVars, peerVars
  <2> QED  BY <1>0, <2>1, <2>2, <2>3 DEF SendTypeOK
<1>9. CASE WriteDone
  <2>1. PICK m \in writes : /\ writes' = writes \ {m}
                            /\ wire' = wire \/ wire' = Append(wire, m)
                            /\ \E r \in {"ok", "error"} : sendStrand' = Append(sendStrand, <<"sent", m, r>>)
                            /\ UNCHANGED <<open, sending, sendQueue, bytesQueued, nextOut, accepted>>
    BY <1>9 DEF WriteDone, sockVars, userVars
  <2>2. m \in Nat /\ \A r \in {"ok", "error"} : <<"sent", m, r>> \in SendHandlers
    BY <1>0 DEF SendHandlers
  <2>3. sendStrand' \in Seq(SendHandlers)
    <3>1. PICK h \in SendHandlers : sendStrand' = Append(sendStrand, h)
      BY <2>1, <2>2
    <3> QED  BY SMTT(20), Z3T(20), SMTT(30), <1>0, <3>1
  <2>4. wire' \in Seq(Nat) /\ writes' \in SUBSET Nat
    <3>1. Append(wire, m) \in Seq(Nat)
      BY SMTT(20), Z3T(20), SMTT(30), <1>0, <2>2
    <3> QED  BY <1>0, <2>1, <3>1
  <2> QED  BY <1>0, <2>1, <2>3, <2>4 DEF SendTypeOK
<1>10. CASE RecvMsg \/ CloseAsync \/ PerformRecv \/ CloseOnStrand \/ HeaderDone \/ BodyDone \/ PeerClose \/ UNCHANGED vars
  <2>1. UNCHANGED <<open, sending, sendQueue, bytesQueued, sendStrand, writes, wire, nextOut, accepted>>
    BY <1>10 DEF RecvMsg, CloseAsync, PerformRecv, CloseOnStrand, HeaderDone, BodyDone, ReadDone, PeerClose,
                 vars, sockVars, sendVars, userVars, peerVars
  <2> QED  BY <1>0, <2>1 DEF SendTypeOK
<1> QED  BY <1>1, <1>2, <1>4, <1>5, <1>6, <1>7, <1>8, <1>9, <1>10 DEF Next, Caller, SendSide, RecvSide, ReadSide

\* What SInv says while neither strand has failed.
Sending == OneWrite /\ bytesQueued = Len(sendQueue) /\ (open => Waiting)

\* A step that leaves the send side alone, closing the socket or not.
LEMMA SFrame ==
  ASSUME SInv, Sound, open' => open,
         UNCHANGED <<sending, sendQueue, bytesQueued, sendStrand, sendPc, writes, wire, nextOut>>
  PROVE  Sending'
<1>1. Issued' = Issued
  BY DEF Issued
<1>2. OneWrite' /\ bytesQueued' = Len(sendQueue')
  BY DEF SInv, OneWrite
<1>3. Waiting => Waiting'
  BY <1>1 DEF Waiting
<1> QED  BY <1>2, <1>3 DEF SInv, Sending

\* send_msg: one more message waits in the strand.
LEMMA SSendMsg ==
  ASSUME SInv, Sound, SendMsg
  PROVE  Sending'
<1>1. SendTypeOK /\ OneWrite /\ bytesQueued = Len(sendQueue) /\ (open => Waiting)
  BY DEF SInv
<1>2. /\ UNCHANGED <<open, sending, sendQueue, bytesQueued, sendPc, writes, wire>> /\ nextOut' = nextOut + 1
      /\ sendStrand' = Append(sendStrand, <<"send", nextOut, "ok">>)
  BY DEF SendMsg, sockVars, peerVars
<1> DEFINE h == <<"send", nextOut, "ok">>
<1>3. h \in SendHandlers /\ ~IsSent(h) /\ h[1] = "send" /\ h[2] = nextOut
  BY <1>1 DEF SendTypeOK, SendHandlers, IsSent
<1>4. sendStrand \in Seq(SendHandlers) /\ sendStrand' = Append(sendStrand, h)
  BY <1>1, <1>2 DEF SendTypeOK
<1> HIDE DEF h
<1>5. /\ NoSent(sendStrand) => NoSent(sendStrand')
      /\ OneSent(sendStrand) => OneSent(sendStrand')
      /\ Error(sendStrand') <=> Error(sendStrand)
  BY <1>3, <1>4, SentPush
<1>6. OneWrite'
  <2>1. Len(wire) < nextOut' /\ (writes # {} => Len(wire) + 1 < nextOut')
    BY <1>1, <1>2 DEF SendTypeOK, OneWrite
  <2> QED  BY <1>1, <1>2, <1>5, <2>1 DEF OneWrite
<1>7. Issued' = Issued /\ Issued \in Nat /\ Len(sendQueue) \in Nat /\ nextOut \in Nat
  BY SMTT(20), Z3T(20), SMTT(30), <1>1, <1>2, <1>5 DEF Issued, SendTypeOK
<1>8. ASSUME Waiting  PROVE Waiting'
  <2>1. Issued + Len(sendQueue) < nextOut /\ Sends(sendStrand, Issued + Len(sendQueue) + 1, nextOut - 1)
    BY <1>8 DEF Waiting
  <2>2. Issued + Len(sendQueue) + 1 \in Nat /\ nextOut - 1 \in Int
        /\ Issued + Len(sendQueue) + 1 <= nextOut - 1 + 1 /\ nextOut - 1 + 1 = nextOut /\ nextOut' - 1 = nextOut
    BY <1>2, <1>7, <2>1
  <2>3. Sends(Append(sendStrand, h), Issued + Len(sendQueue) + 1, nextOut - 1 + 1)
    BY <1>3, <1>4, <2>1, <2>2, SendsNext
  <2>4. Issued + Len(sendQueue) < nextOut'
    BY <1>2, <1>7, <2>1
  <2> QED  BY <1>2, <1>4, <1>7, <1>8, <2>2, <2>3, <2>4 DEF Waiting
<1> QED  BY <1>1, <1>2, <1>6, <1>8 DEF Sending

\* perform_send: the first message of the strand is the one behind sendQueue;
\* it is written at once only when sendQueue is empty.
LEMMA SPerformSend ==
  ASSUME SInv, Sound, PerformSend
  PROVE  Sending'
<1>1. SendTypeOK /\ OneWrite /\ bytesQueued = Len(sendQueue) /\ (open => Waiting)
  BY DEF SInv
<1>2. /\ UNCHANGED <<open, sendPc, wire, nextOut>> /\ sendStrand # <<>> /\ sendPc = "idle"
      /\ Head(sendStrand)[1] = "send"
  BY DEF PerformSend, SendHandler, sockVars, peerVars, userVars
<1>3. sendStrand \in Seq(SendHandlers) /\ sendQueue \in Seq(Nat) /\ Len(sendQueue) \in Nat
      /\ Len(wire) \in Nat /\ nextOut \in Nat
  BY SMTT(20), Z3T(20), SMTT(30), <1>1 DEF SendTypeOK
<1>4. Head(sendStrand) = sendStrand[1] /\ Tail(sendStrand) \in Seq(SendHandlers)
  BY <1>2, <1>3, PopFacts
<1>5. sendStrand[1][1] = "send" /\ ~IsSent(sendStrand[1])
  BY <1>2, <1>4 DEF IsSent
<1>6. OneSent(sendStrand)
  BY <1>1 DEF OneWrite
<1>7. /\ NoSent(sendStrand) => NoSent(Tail(sendStrand))
      /\ OneSent(Tail(sendStrand))
      /\ Error(Tail(sendStrand)) <=> Error(sendStrand)
  BY <1>2, <1>3, <1>5, <1>6, SentPop
<1> DEFINE h == <<"queued", 0, "ok">>
<1>8. h \in SendHandlers /\ ~IsSent(h) /\ h[1] # "send"
  BY DEF SendHandlers, IsSent
<1> HIDE DEF h
<1>9. /\ NoSent(sendStrand) => NoSent(Append(Tail(sendStrand), h))
      /\ OneSent(Append(Tail(sendStrand), h))
      /\ Error(Append(Tail(sendStrand), h)) <=> Error(sendStrand)
  BY <1>4, <1>7, <1>8, SentPush
<1>10. Issued \in Nat
  BY <1>3 DEF Issued
<1>11. ASSUME Waiting
       PROVE  /\ sendStrand[1][2] = Issued + Len(sendQueue) + 1 /\ Issued + Len(sendQueue) + 1 < nextOut
              /\ Sends(Tail(sendStrand), Issued + Len(sendQueue) + 1 + 1, nextOut - 1)
              /\ Sends(Append(Tail(sendStrand), h), Issued + Len(sendQueue) + 1 + 1, nextOut - 1)
  <2>1. Sends(sendStrand, Issued + Len(sendQueue) + 1, nextOut - 1)
    BY <1>11 DEF Waiting
  <2>2. Issued + Len(sendQueue) + 1 \in Nat /\ nextOut - 1 \in Int /\ Issued + Len(sendQueue) + 1 + 1 \in Nat
    BY <1>3, <1>10
  <2>3. /\ sendStrand[1][2] = Issued + Len(sendQueue) + 1 /\ Issued + Len(sendQueue) + 1 <= nextOut - 1
        /\ Sends(Tail(sendStrand), Issued + Len(sendQueue) + 1 + 1, nextOut - 1)
    BY <1>2, <1>3, <1>5, <2>1, <2>2, SendsPop
  <2>4. Sends(Append(Tail(sendStrand), h), Issued + Len(sendQueue) + 1 + 1, nextOut - 1)
    BY <1>4, <1>8, <2>2, <2>3, SendsPush
  <2> QED  BY <1>3, <2>2, <2>3, <2>4
<1>12. CASE ~open /\ sendStrand' = Tail(sendStrand) /\ UNCHANGED <<sending, sendQueue, bytesQueued, writes>>
  <2>1. OneWrite'
    BY <1>1, <1>2, <1>7, <1>12 DEF OneWrite
  <2> QED  BY <1>1, <1>2, <1>12, <2>1 DEF Sending
<1>13. CASE /\ open /\ sending /\ sendQueue' = Append(sendQueue, Head(sendStrand)[2]) /\ bytesQueued' = bytesQueued + 1
            /\ sendStrand' = Append(Tail(sendStrand), h) /\ UNCHANGED <<sending, writes>>
  <2>1. OneWrite'
    BY <1>1, <1>2, <1>9, <1>13 DEF OneWrite
  <2>2. /\ sendStrand[1][2] = Issued + Len(sendQueue) + 1 /\ Issued + Len(sendQueue) + 1 < nextOut
        /\ Sends(sendStrand', Issued + Len(sendQueue) + 1 + 1, nextOut - 1) /\ QueueFrom(sendQueue, Issued)
    BY <1>1, <1>11, <1>13 DEF Waiting
  <2>3. sendQueue' = Append(sendQueue, Issued + Len(sendQueue) + 1)
    BY <1>4, <1>13, <2>2
  <2>4. QueueFrom(sendQueue', Issued)
    BY <1>3, <1>10, <2>2, <2>3, QueuePush
  <2>5. Len(sendQueue') = Len(sendQueue) + 1
    BY SMTT(20), Z3T(20), SMTT(30), <1>3, <1>10, <2>3, PushFacts
  <2>6. Issued' = Issued
    BY <1>2, <1>9, <1>13 DEF Issued
  <2>7. bytesQueued' = Len(sendQueue')
    BY <1>1, <1>13, <2>5
  <2>8. Issued + Len(sendQueue') = Issued + Len(sendQueue) + 1
    BY <1>3, <1>10, <2>5
  <2>9. Waiting'
    BY <1>2, <1>13, <2>2, <2>4, <2>6, <2>8 DEF Waiting
  <2> QED  BY <2>1, <2>7, <2>9 DEF Sending
<1>14. CASE /\ open /\ ~sending /\ AsyncWrite(Head(sendStrand)[2]) /\ sendStrand' = Tail(sendStrand)
            /\ UNCHANGED <<sendQueue, bytesQueued>>
  <2>1. sendQueue = <<>> /\ Len(sendQueue) = 0 /\ writes = {} /\ NoSent(sendStrand) /\ ~Error(sendStrand)
    BY <1>1, <1>2, <1>14, NoSentNoError DEF Waiting, OneWrite
  <2>2. Issued = Len(wire)
    BY <2>1 DEF Issued
  <2>3. /\ sendStrand[1][2] = Issued + Len(sendQueue) + 1 /\ Issued + Len(sendQueue) + 1 < nextOut
        /\ Sends(sendStrand', Issued + Len(sendQueue) + 1 + 1, nextOut - 1)
    BY <1>1, <1>11, <1>14
  <2>4. Issued + Len(sendQueue) + 1 = Len(wire) + 1
    BY <1>3, <2>1, <2>2
  <2>5. writes' = {Len(wire) + 1} /\ sending' = TRUE
    BY <1>4, <1>14, <2>1, <2>3, <2>4 DEF AsyncWrite
  <2>6. OneWrite'
    BY ZenonT(20), <1>1, <1>2, <1>7, <1>14, <2>1, <2>3, <2>4, <2>5 DEF OneWrite
  <2>7. Issued' = Len(wire) + 1
    BY <1>2, <2>5 DEF Issued
  <2>8. Issued' + Len(sendQueue') = Issued + Len(sendQueue) + 1
    BY SMTT(20), Z3T(20), SMTT(30), <1>3, <1>14, <2>1, <2>2, <2>7
  <2>9. QueueFrom(sendQueue', Issued')
    BY <1>14, <2>1 DEF QueueFrom
  <2>10. Waiting'
    BY <1>2, <2>3, <2>5, <2>8, <2>9 DEF Waiting
  <2> QED  BY <1>1, <1>14, <2>6, <2>10 DEF Sending
<1> QED  BY <1>12, <1>13, <1>14 DEF PerformSend, h

\* perform_queued_send: the message it writes is the one behind the last one
\* issued.
LEMMA SWriteQueued ==
  ASSUME SInv, Sound, WriteQueued, UNCHANGED <<open, wire, nextOut>>, sendPc' = "idle",
         sendStrand' \in Seq(SendHandlers), OneSent(sendStrand'),
         NoSent(sendStrand) => NoSent(sendStrand'), Error(sendStrand') <=> Error(sendStrand),
         open /\ Waiting => Sends(sendStrand', Issued + Len(sendQueue) + 1, nextOut - 1)
  PROVE  Sending'
<1>1. SendTypeOK /\ OneWrite /\ bytesQueued = Len(sendQueue) /\ (open => Waiting)
  BY DEF SInv
<1>2. sendQueue \in Seq(Nat) /\ Len(sendQueue) \in Nat /\ Len(wire) \in Nat /\ nextOut \in Nat
  BY SMTT(20), Z3T(20), SMTT(30), <1>1 DEF SendTypeOK
<1>3. CASE (sending \/ sendQueue = <<>> \/ ~open) /\ UNCHANGED <<sending, sendQueue, bytesQueued, writes>>
  <2>1. OneWrite'
    BY <1>1, <1>3 DEF OneWrite
  <2>2. Issued' = Issued
    BY <1>3 DEF Issued
  <2>3. open => Waiting'
    BY <1>1, <1>3, <2>2 DEF Waiting
  <2> QED  BY <1>1, <1>3, <2>1, <2>3 DEF Sending
<1>4. CASE /\ ~sending /\ sendQueue # <<>> /\ open /\ AsyncWrite(Head(sendQueue))
           /\ sendQueue' = Tail(sendQueue) /\ bytesQueued' = bytesQueued - 1
  <2>1. writes = {} /\ NoSent(sendStrand) /\ ~Error(sendStrand) /\ ~Error(sendStrand')
    BY <1>1, <1>4, NoSentNoError DEF OneWrite
  <2>2. Issued = Len(wire)
    BY <2>1 DEF Issued
  <2>3. /\ QueueFrom(sendQueue, Len(wire)) /\ Len(wire) + Len(sendQueue) < nextOut
        /\ Sends(sendStrand', Len(wire) + Len(sendQueue) + 1, nextOut - 1)
    BY <1>1, <1>4, <2>2 DEF Waiting
  <2>4. Head(sendQueue) = Len(wire) + 1 /\ QueueFrom(Tail(sendQueue), Len(wire) + 1)
    BY <1>2, <1>4, <2>3, QueuePop
  <2>5. Len(sendQueue') = Len(sendQueue) - 1 /\ Len(sendQueue) >= 1
    BY <1>2, <1>4, PopFacts
  <2>6. writes' = {Len(wire) + 1} /\ sending' = TRUE
    BY <1>4, <2>1, <2>4 DEF AsyncWrite
  <2>7. Len(wire) + 1 < nextOut
    BY <1>2, <2>3, <2>5
  <2>8. OneWrite'
    BY <1>1, <2>1, <2>6, <2>7 DEF OneWrite
  <2>9. Issued' = Len(wire) + 1
    BY <2>6 DEF Issued
  <2>10. Issued' + Len(sendQueue') = Len(wire) + Len(sendQueue)
    BY SMTT(20), Z3T(20), SMTT(30), <1>2, <2>5, <2>9
  <2>11. Waiting'
    BY <1>4, <2>3, <2>4, <2>6, <2>9, <2>10 DEF Waiting
  <2>12. bytesQueued' = Len(sendQueue')
    BY <1>1, <1>4, <2>5
  <2> QED  BY <2>8, <2>11, <2>12 DEF Sending
<1> QED  BY <1>3, <1>4 DEF WriteQueued

\* perform_queued_send as a posted handler.
LEMMA SPerformQueuedSend ==
  ASSUME SInv, Sound, PerformQueuedSend
  PROVE  Sending'
<1>1. SendTypeOK /\ OneWrite
  BY DEF SInv
<1>2. /\ UNCHANGED <<open, wire, nextOut, sendPc>> /\ sendPc = "idle" /\ sendStrand # <<>> /\ WriteQueued
      /\ Head(sendStrand)[1] = "queued" /\ sendStrand' = Tail(sendStrand)
  BY DEF PerformQueuedSend, SendHandler, sockVars, peerVars, userVars
<1>3. sendStrand \in Seq(SendHandlers) /\ Len(sendQueue) \in Nat /\ Len(wire) \in Nat /\ nextOut \in Nat
  BY SMTT(20), Z3T(20), SMTT(30), <1>1 DEF SendTypeOK
<1>4. Head(sendStrand) = sendStrand[1] /\ sendStrand' \in Seq(SendHandlers)
  BY <1>2, <1>3, PopFacts
<1>5. sendStrand[1][1] # "send" /\ ~IsSent(sendStrand[1])
  BY <1>2, <1>4 DEF IsSent
<1>6. /\ NoSent(sendStrand) => NoSent(sendStrand')
      /\ OneSent(sendStrand')
      /\ Error(sendStrand') <=> Error(sendStrand)
  BY <1>1, <1>2, <1>3, <1>5, SentPop DEF OneWrite
<1>7. Issued + Len(sendQueue) + 1 \in Nat /\ nextOut - 1 \in Int
  BY <1>3 DEF Issued
<1>8. Waiting => Sends(sendStrand', Issued + Len(sendQueue) + 1, nextOut - 1)
  BY <1>2, <1>3, <1>5, <1>7, SendsPop DEF Waiting
<1>9. sendPc' = "idle"
  BY <1>2
<1> QED  BY <1>2, <1>4, <1>6, <1>8, <1>9, SWriteQueued

\* sent: the only write is over.  An error fails the connection.
LEMMA SSent ==
  ASSUME SInv, Sound, Sent, Sound'
  PROVE  Sending'
<1>1. SendTypeOK /\ OneWrite /\ bytesQueued = Len(sendQueue) /\ (open => Waiting)
  BY DEF SInv
<1>2. Head(sendStrand)[3] = "ok"
  BY DEF Sent, Sound
<1>3. /\ UNCHANGED <<open, wire, nextOut, sendQueue, bytesQueued, writes>> /\ sendPc' = "sent" /\ sendStrand # <<>>
      /\ Head(sendStrand)[1] = "sent" /\ sendStrand' = Tail(sendStrand) /\ sending' = FALSE
  BY <1>2 DEF Sent, SendHandler, sockVars, peerVars, userVars
<1>4. sendStrand \in Seq(SendHandlers) /\ Len(sendQueue) \in Nat /\ Len(wire) \in Nat /\ nextOut \in Nat
  BY SMTT(20), Z3T(20), SMTT(30), <1>1 DEF SendTypeOK
<1>5. Head(sendStrand) = sendStrand[1] /\ 1 \in 1 .. Len(sendStrand)
  BY SMTT(20), Z3T(20), SMTT(30), <1>3, <1>4, PopFacts
<1>6. sendStrand[1][1] # "send" /\ IsSent(sendStrand[1]) /\ sendStrand[1][3] # "error"
  BY <1>2, <1>3, <1>5 DEF IsSent
<1>7. NoSent(sendStrand') /\ ~Error(sendStrand) /\ ~Error(sendStrand') /\ OneSent(sendStrand')
  BY <1>1, <1>3, <1>4, <1>6, SentPop DEF OneWrite
<1>8. writes = {}
  BY <1>1, <1>5, <1>6 DEF OneWrite, NoSent
<1>9. OneWrite'
  BY <1>1, <1>3, <1>7, <1>8 DEF OneWrite
<1>10. Issued' = Issued
  BY <1>3, <1>7 DEF Issued
<1>11. Issued + Len(sendQueue) + 1 \in Nat /\ nextOut - 1 \in Int
  BY <1>4 DEF Issued
<1>12. ASSUME Waiting  PROVE Waiting'
  <2>1. Sends(sendStrand', Issued + Len(sendQueue) + 1, nextOut - 1)
    BY ZenonT(20), <1>3, <1>4, <1>6, <1>11, <1>12, SendsPop DEF Waiting
  <2> QED  BY <1>3, <1>10, <1>12, <2>1 DEF Waiting
<1> QED  BY <1>1, <1>3, <1>9, <1>12 DEF Sending

\* The rest of sent: the first message of sendQueue is written next.
LEMMA SAfterSent ==
  ASSUME SInv, Sound, AfterSent
  PROVE  Sending'
<1>1. SendTypeOK /\ OneWrite /\ bytesQueued = Len(sendQueue) /\ (open => Waiting)
  BY DEF SInv
<1>2. UNCHANGED <<wire, nextOut, sendStrand>> /\ sendPc' = "idle"
  BY DEF AfterSent, peerVars, userVars
<1>3. CASE sendQueue # <<>>
  <2>1. WriteQueued /\ open' = open
    BY <1>3 DEF AfterSent, sockVars
  <2>2. sendStrand' \in Seq(SendHandlers) /\ OneSent(sendStrand')
    BY <1>1, <1>2 DEF SendTypeOK, OneWrite
  <2>3. Waiting => Sends(sendStrand', Issued + Len(sendQueue) + 1, nextOut - 1)
    BY <1>2 DEF Waiting
  <2> QED  BY <1>2, <2>1, <2>2, <2>3, SWriteQueued
<1>4. CASE sendQueue = <<>>
  <2>1. UNCHANGED <<sending, sendQueue, bytesQueued, writes>>
    BY <1>4 DEF AfterSent
  <2>2. open' = open \/ open' = FALSE
    BY <1>4 DEF AfterSent, CloseNow, sockVars
  <2>3. OneWrite'
    BY <1>1, <1>2, <2>1 DEF OneWrite
  <2>4. Issued' = Issued
    BY <1>2, <2>1 DEF Issued
  <2>5. Waiting => Waiting'
    BY <1>2, <1>4, <2>1, <2>4 DEF Waiting
  <2>6. open' => open
    <3>1. CASE open' = open
      BY <3>1
    <3>2. CASE open' = FALSE
      BY <3>2
    <3> QED  BY <2>2, <3>1, <3>2
  <2> QED  BY <1>1, <2>1, <2>3, <2>5, <2>6 DEF Sending
<1> QED  BY <1>3, <1>4

\* The only write completes, with its message on the wire or with an error.
LEMMA SWriteDone ==
  ASSUME SInv, Sound, WriteDone
  PROVE  Sending'
<1>1. SendTypeOK /\ OneWrite /\ bytesQueued = Len(sendQueue) /\ (open => Waiting)
  BY DEF SInv
<1>2. /\ sendStrand \in Seq(SendHandlers) /\ wire \in Seq(Nat) /\ Len(sendQueue) \in Nat /\ Len(wire) \in Nat
      /\ nextOut \in Nat
  BY SMTT(20), Z3T(20), SMTT(30), <1>1 DEF SendTypeOK
<1>3. PICK m \in writes :
        /\ writes' = writes \ {m}
        /\ UNCHANGED <<open, sending, sendQueue, bytesQueued, sendPc, nextOut>>
        /\ \/ wire' = Append(wire, m) /\ sendStrand' = Append(sendStrand, <<"sent", m, "ok">>)
           \/ sendStrand' = Append(sendStrand, <<"sent", m, "error">>) /\ UNCHANGED wire
  BY DEF WriteDone, sockVars, userVars
<1>4. /\ m = Len(wire) + 1 /\ writes' = {} /\ writes # {} /\ sending /\ NoSent(sendStrand)
      /\ Len(wire) + 1 < nextOut
  BY <1>1, <1>3 DEF OneWrite
<1>5. Issued = Len(wire) + 1
  BY <1>4 DEF Issued
<1>6. ASSUME NEW r \in {"ok", "error"}, sendStrand' = Append(sendStrand, <<"sent", m, r>>)
      PROVE  /\ OneSent(sendStrand') /\ (Error(sendStrand') <=> r = "error")
             /\ Waiting => Sends(sendStrand', Issued + Len(sendQueue) + 1, nextOut - 1)
  <2> DEFINE h == <<"sent", m, r>>
  <2>1. h \in SendHandlers /\ h[1] # "send" /\ IsSent(h) /\ h[3] = r
    BY SMTT(20), Z3T(20), SMTT(30), <1>2, <1>4 DEF SendHandlers, IsSent
  <2> HIDE DEF h
  <2>2. sendStrand' = Append(sendStrand, h)
    BY <1>6 DEF h
  <2>3. OneSent(sendStrand') /\ (Error(sendStrand') <=> r = "error")
    BY <1>2, <1>4, <2>1, <2>2, SentPush
  <2>4. Issued + Len(sendQueue) + 1 \in Nat /\ nextOut - 1 \in Int
    BY <1>2, <1>5
  <2>5. Waiting => Sends(sendStrand', Issued + Len(sendQueue) + 1, nextOut - 1)
    BY <1>2, <2>1, <2>2, <2>4, SendsPush DEF Waiting
  <2> QED  BY <2>3, <2>5
<1>7. CASE wire' = Append(wire, m) /\ sendStrand' = Append(sendStrand, <<"sent", m, "ok">>)
  <2>1. OneSent(sendStrand') /\ ~Error(sendStrand')
    BY <1>6, <1>7
  <2>2. /\ Len(wire') = Len(wire) + 1 /\ wire'[Len(wire) + 1] = Len(wire) + 1
        /\ \A i \in 1 .. Len(wire) : wire'[i] = wire[i]
    BY SMTT(20), Z3T(20), SMTT(30), <1>2, <1>4, <1>7, PushFacts
  <2>3. \A i \in 1 .. Len(wire') : i # Len(wire) + 1 => i \in 1 .. Len(wire)
    BY SMTT(20), Z3T(20), SMTT(30), <1>2, <2>2
  <2>4. \A i \in 1 .. Len(wire') : wire'[i] = i
    BY <1>1, <2>2, <2>3 DEF OneWrite
  <2>5. OneWrite'
    BY ZenonT(20), <1>3, <1>4, <2>1, <2>2, <2>4 DEF OneWrite
  <2>6. Issued' = Issued
    BY <1>4, <1>5, <2>1, <2>2 DEF Issued
  <2>7. Waiting => Waiting'
    BY ZenonT(20), <1>3, <1>6, <1>7, <2>6 DEF Waiting
  <2> QED  BY <1>1, <1>3, <2>5, <2>7 DEF Sending
<1>8. CASE sendStrand' = Append(sendStrand, <<"sent", m, "error">>) /\ UNCHANGED wire
  <2>1. OneSent(sendStrand') /\ Error(sendStrand')
    BY <1>6, <1>8
  <2>2. OneWrite'
    BY <1>1, <1>3, <1>4, <1>8, <2>1 DEF OneWrite
  <2>3. Issued' = Issued
    BY <1>5, <1>8, <2>1 DEF Issued
  <2>4. Waiting => Waiting'
    BY <1>3, <1>6, <1>8, <2>3 DEF Waiting
  <2> QED  BY <1>1, <1>3, <2>2, <2>4 DEF Sending
<1> QED  BY <1>3, <1>7, <1>8

\* The start.
LEMMA SInit == Init => SInv
<1> SUFFICES ASSUME Init  PROVE SInv
  OBVIOUS
<1>1. /\ open = TRUE /\ sending = FALSE /\ sendQueue = <<>> /\ bytesQueued = 0 /\ sendStrand = <<>>
      /\ wire = <<>> /\ writes = {} /\ nextOut = 1 /\ accepted = <<>> /\ sendPc = "idle"
  BY DEF Init
<1>2. \A S : <<>> \in Seq(S) /\ Len(<<>>) = 0
  OBVIOUS
<1>3. 1 .. 0 = {}
  OBVIOUS
<1>4. SendTypeOK
  <2>1. open \in BOOLEAN /\ sending \in BOOLEAN
    BY <1>1
  <2>2. bytesQueued \in Int /\ nextOut \in Nat \ {0} /\ Len(accepted) = nextOut - 1
    BY <1>1, <1>2
  <2> QED  BY <1>1, <1>2, <1>3, <2>1, <2>2 DEF SendTypeOK
<1>5. NoSent(sendStrand) /\ OneSent(sendStrand) /\ ~Error(sendStrand)
  BY <1>1, <1>2, <1>3 DEF NoSent, OneSent, Error
<1>6. OneWrite
  BY SMTT(20), Z3T(20), SMTT(30), <1>1, <1>2, <1>3, <1>5 DEF OneWrite
<1>7. Issued = 0
  BY <1>1, <1>2, <1>5 DEF Issued
<1>8. QueueFrom(sendQueue, Issued) /\ Issued + Len(sendQueue) < nextOut
  BY SMTT(20), Z3T(20), SMTT(30), <1>1, <1>2, <1>3, <1>7 DEF QueueFrom
<1>9. Issued + Len(sendQueue) + 1 = 1 /\ nextOut - 1 = 0
  BY <1>1, <1>2, <1>7
<1>10. Sends(sendStrand, 1, 0)
  BY <1>1, <1>2, <1>3 DEF Sends
<1>11. Waiting
  BY <1>1, <1>8, <1>9, <1>10 DEF Waiting
<1> QED  BY <1>1, <1>2, <1>4, <1>6, <1>11 DEF SInv

\* Every step keeps the send side in order.
LEMMA SStep == SInv /\ [Next]_vars => SInv'
<1> SUFFICES ASSUME SInv, [Next]_vars  PROVE SInv'
  OBVIOUS
<1>1. SendTypeOK'
  BY STypeStep DEF SInv
<1>2. ASSUME Sound'  PROVE Sending'
  <2>1. Sound
    BY <1>2, SoundBack
  <2>2. open \in BOOLEAN
    BY DEF SInv, SendTypeOK
  <2>3. CASE SendMsg
    BY <2>1, <2>3, SSendMsg
  <2>4. CASE PerformSend
    BY ZenonT(20), <2>1, <2>4, SPerformSend
  <2>5. CASE PerformQueuedSend
    BY <2>1, <2>5, SPerformQueuedSend
  <2>6. CASE Sent
    BY ZenonT(20), <1>2, <2>1, <2>6, SSent
  <2>7. CASE AfterSent
    BY <2>1, <2>7, SAfterSent
  <2>8. CASE WriteDone
    BY <2>1, <2>8, SWriteDone
  <2>9. CASE SendFail \/ RecvFail
    BY <1>2, <2>9 DEF SendFail, RecvFail, Sound
  <2>10. CASE FinishClose
    <3>1. UNCHANGED <<sending, sendQueue, bytesQueued, sendStrand, sendPc, writes, wire, nextOut>>
      BY <2>10 DEF FinishClose, sendVars, userVars, peerVars
    <3>2. open' => open
      BY <2>10 DEF FinishClose, CloseNow
    <3> QED  BY <2>1, <3>1, <3>2, SFrame
  <2>11. CASE ReceivedHeader \/ ReceivedBody
    <3>1. recvPc' # "fail"
      BY <1>2 DEF Sound
    <3>2. UNCHANGED <<open, sending, sendQueue, bytesQueued, sendStrand, sendPc, writes, wire, nextOut>>
      BY ZenonT(20), <2>11, <3>1 DEF ReceivedHeader, ReceivedBody, sockVars, userVars, peerVars
    <3> QED  BY <2>1, <3>2, SFrame
  <2>12. CASE RecvMsg \/ CloseAsync \/ PerformRecv \/ CloseOnStrand \/ HeaderDone \/ BodyDone \/ PeerClose \/ UNCHANGED vars
    <3>1. UNCHANGED <<open, sending, sendQueue, bytesQueued, sendStrand, sendPc, writes, wire, nextOut>>
      BY ZenonT(20), <2>12 DEF RecvMsg, CloseAsync, PerformRecv, CloseOnStrand, HeaderDone, BodyDone, ReadDone, PeerClose,
                   vars, sockVars, sendVars, userVars, peerVars
    <3> QED  BY <2>1, <3>1, SFrame
  <2> QED  BY ZenonT(20), <2>3, <2>4, <2>5, <2>6, <2>7, <2>8, <2>9, <2>10, <2>11, <2>12
           DEF Next, Caller, SendSide, RecvSide, ReadSide
<1> QED  BY <1>1, <1>2 DEF SInv, Sending

\* While sending is set, the write is outstanding or its handler is in the strand.
HasSent(q) == \E i \in 1 .. Len(q) : IsSent(q[i])
UnderWay == Sound /\ sending => writes # {} \/ HasSent(sendStrand)

\* A handler that is posted leaves the one for a write where it was.
LEMMA HasSentPush ==
  ASSUME NEW q \in Seq(SendHandlers), NEW h \in SendHandlers, HasSent(q) \/ IsSent(h)
  PROVE  HasSent(Append(q, h))
<1>1. /\ Len(Append(q, h)) = Len(q) + 1 /\ Append(q, h)[Len(q) + 1] = h /\ Len(q) \in Nat
      /\ \A i \in 1 .. Len(q) : Append(q, h)[i] = q[i]
  BY SMTT(20), Z3T(20), SMTT(30), PushFacts
<1>2. Len(q) + 1 \in 1 .. Len(Append(q, h)) /\ \A i \in 1 .. Len(q) : i \in 1 .. Len(Append(q, h))
  BY SMTT(20), Z3T(20), SMTT(30), <1>1
<1> QED  BY Zenon, <1>1, <1>2 DEF HasSent

\* Running another handler leaves it in the strand too.
LEMMA HasSentPop ==
  ASSUME NEW q \in Seq(SendHandlers), q # <<>>, ~IsSent(q[1]), HasSent(q)
  PROVE  HasSent(Tail(q))
<1>1. PICK i \in 1 .. Len(q) : IsSent(q[i])
  BY DEF HasSent
<1>2. i # 1
  BY <1>1
<1>3. i - 1 \in 1 .. Len(Tail(q)) /\ Tail(q)[i - 1] = q[i]
  BY SMTT(20), Z3T(20), SMTT(30), <1>2
<1> QED  BY <1>1, <1>3 DEF HasSent

\* Every step keeps UnderWay: sending is set with a write, and reset by its handler.
LEMMA UnderWayStep == SInv /\ UnderWay /\ [Next]_vars => UnderWay'
<1> SUFFICES ASSUME SInv, UnderWay, [Next]_vars, Sound', sending'
             PROVE  writes' # {} \/ HasSent(sendStrand')
  BY DEF UnderWay
<1>1. Sound
  BY SoundBack
<1>2. sendStrand \in Seq(SendHandlers) /\ nextOut \in Nat /\ writes \subseteq Nat
  BY DEF SInv, SendTypeOK
<1>3. sending => writes # {} \/ HasSent(sendStrand)
  BY <1>1 DEF UnderWay
<1>4. CASE UNCHANGED <<sending, writes, sendStrand>>
  BY <1>3, <1>4
<1>5. CASE \E m : AsyncWrite(m)
  BY <1>5 DEF AsyncWrite
<1>6. CASE SendMsg
  <2>1. <<"send", nextOut, "ok">> \in SendHandlers
    BY <1>2 DEF SendHandlers
  <2>2. UNCHANGED <<sending, writes>> /\ sendStrand' = Append(sendStrand, <<"send", nextOut, "ok">>)
    BY <1>6 DEF SendMsg
  <2> QED  BY <1>2, <1>3, <2>1, <2>2, HasSentPush
<1>7. CASE PerformSend \/ PerformQueuedSend
  <2>1. CASE \E m : AsyncWrite(m)
    BY <1>5, <2>1
  <2>2. CASE ~\E m : AsyncWrite(m)
    <3>1. /\ UNCHANGED <<sending, writes>> /\ sendStrand # <<>> /\ Head(sendStrand)[1] # "sent"
          /\ sendStrand' \in {Tail(sendStrand), Append(Tail(sendStrand), <<"queued", 0, "ok">>)}
      BY Zenon, <1>7, <2>2 DEF PerformSend, PerformQueuedSend, SendHandler, WriteQueued
    <3>2. Head(sendStrand) = sendStrand[1] /\ Tail(sendStrand) \in Seq(SendHandlers)
      BY <1>2, <3>1, PopFacts
    <3>3. ~IsSent(sendStrand[1])
      BY <3>1, <3>2 DEF IsSent
    <3>4. HasSent(sendStrand) => HasSent(Tail(sendStrand))
      BY <1>2, <3>1, <3>3, HasSentPop
    <3>5. <<"queued", 0, "ok">> \in SendHandlers
      BY DEF SendHandlers
    <3>6. HasSent(Tail(sendStrand)) => HasSent(Append(Tail(sendStrand), <<"queued", 0, "ok">>))
      BY <3>2, <3>5, HasSentPush
    <3> QED  BY <1>3, <3>1, <3>4, <3>6
  <2> QED  BY <2>1, <2>2
<1>8. CASE Sent
  BY <1>8 DEF Sent, FailReset
<1>9. CASE AfterSent
  <2>1. UNCHANGED sendStrand
    BY <1>9 DEF AfterSent
  <2>2. (\E m : AsyncWrite(m)) \/ UNCHANGED <<sending, writes>>
    BY Zenon, <1>9 DEF AfterSent, WriteQueued
  <2> QED  BY <1>4, <1>5, <2>1, <2>2
<1>10. CASE WriteDone
  <2>1. PICK m \in writes, r \in {"ok", "error"} : sendStrand' = Append(sendStrand, <<"sent", m, r>>)
    BY Zenon, <1>10 DEF WriteDone
  <2>2. <<"sent", m, r>> \in SendHandlers /\ IsSent(<<"sent", m, r>>)
    BY <1>2 DEF SendHandlers, IsSent
  <2> QED  BY <1>2, <2>1, <2>2, HasSentPush
<1>11. CASE SendFail \/ RecvFail
  BY <1>11 DEF SendFail, RecvFail, Sound
<1>12. CASE ReceivedHeader \/ ReceivedBody
  <2>1. recvPc' # "fail"
    BY DEF Sound
  <2> QED  BY Zenon, <1>4, <1>12, <2>1 DEF ReceivedHeader, ReceivedBody
<1>13. CASE \/ RecvMsg \/ CloseAsync \/ PerformRecv \/ CloseOnStrand \/ FinishClose \/ HeaderDone
            \/ BodyDone \/ PeerClose \/ UNCHANGED vars
  BY ZenonT(20), <1>4, <1>13 DEF RecvMsg, CloseAsync, PerformRecv, CloseOnStrand, FinishClose, HeaderDone,
     BodyDone, ReadDone, PeerClose, vars, sendVars
<1> QED  BY <1>6, <1>7, <1>8, <1>9, <1>10, <1>11, <1>12, <1>13 DEF Next, Caller, SendSide, RecvSide, ReadSide

\* With no write, no handler and both strands sound, everything accepted is written.
LEMMA NothingForgotten ==
  ASSUME SInv, UnderWay, Sound, open, writes = {}, sendStrand = <<>>, sendPc = "idle"
  PROVE  Len(wire) = Len(accepted)
<1>1. SendTypeOK /\ OneWrite /\ Waiting
  BY DEF SInv
<1>2. Len(sendStrand) = 0 /\ 1 .. 0 = {}
  OBVIOUS
<1>3. ~HasSent(sendStrand) /\ ~Error(sendStrand)
  BY <1>2 DEF HasSent, Error
<1>4. sendQueue = <<>> /\ Len(sendQueue) = 0
  BY <1>1, <1>3 DEF UnderWay, Waiting
<1>5. Issued = Len(wire)
  BY <1>3 DEF Issued
<1>6. /\ Len(wire) \in Nat /\ nextOut \in Nat /\ Len(wire) < nextOut /\ Len(accepted) = nextOut - 1
      /\ Issued + Len(sendQueue) + 1 = Len(wire) + 1
  BY SMTT(20), Z3T(20), SMTT(30), <1>1, <1>4, <1>5 DEF SendTypeOK, OneWrite
<1>7. \A m \in Len(wire) + 1 .. nextOut - 1 : FALSE
  BY <1>1, <1>2, <1>6 DEF Waiting, Sends
<1> QED  BY SMTT(20), Z3T(20), SMTT(30), <1>6, <1>7

\* While neither strand has failed, messages leave in the order send_msg
\* accepted them, by one async_write at a time, and while the socket is open each of
\* them has a write or a handler to come: sent() takes what perform_send queued.
THEOREM WritesInOrder == Spec => []SentInOrder
<1>1. SInv /\ UnderWay => SentInOrder
  <2> SUFFICES ASSUME SInv, UnderWay, Sound
               PROVE  /\ PrefixOf(wire, accepted) /\ Cardinality(writes) <= 1
                      /\ open /\ wire # accepted => writes # {} \/ sendStrand # <<>> \/ sendPc # "idle"
    BY DEF SentInOrder
  <2>1. SendTypeOK /\ OneWrite
    BY DEF SInv
  <2>2. /\ wire \in Seq(Nat) /\ accepted \in Seq(Nat) /\ nextOut \in Nat /\ Len(wire) < nextOut
        /\ Len(accepted) = nextOut - 1
        /\ \A i \in 1 .. Len(accepted) : accepted[i] = i
        /\ \A i \in 1 .. Len(wire) : wire[i] = i
    BY <2>1 DEF SendTypeOK, OneWrite
  <2>3. Len(wire) \in Nat /\ Len(wire) <= Len(accepted)
    BY <2>2
  <2>4. /\ SubSeq(accepted, 1, Len(wire)) \in Seq(Nat) /\ Len(SubSeq(accepted, 1, Len(wire))) = Len(wire)
        /\ \A i \in 1 .. Len(wire) : SubSeq(accepted, 1, Len(wire))[i] = i
    BY SMTT(20), Z3T(20), SMTT(30), <2>2, <2>3
  <2>5. wire = SubSeq(accepted, 1, Len(wire))
    BY <2>2, <2>3, <2>4
  <2>6. PrefixOf(wire, accepted)
    BY <2>3, <2>5 DEF PrefixOf
  <2>7. Cardinality(writes) <= 1
    <3>1. writes = {} \/ writes = {Len(wire) + 1}
      BY <2>1 DEF OneWrite
    <3>2. Cardinality(writes) = 0 \/ Cardinality(writes) = 1
      BY <3>1, FS_EmptySet, FS_Singleton
    <3> QED  BY <3>2
  <2>8. ASSUME Len(wire) = Len(accepted) PROVE wire = accepted
    BY <2>2, <2>8
  <2> QED  BY <2>6, <2>7, <2>8, NothingForgotten
<1>2. Init => UnderWay
  BY DEF Init, UnderWay
<1> QED  BY <1>1, <1>2, SInit, SStep, UnderWayStep, PTL DEF Spec

\* While neither strand has failed, bytesQueued is what sendQueue holds.
THEOREM QueuedCounted == Spec => []BytesQueuedExact
<1>1. SInv => BytesQueuedExact
  BY DEF SInv, BytesQueuedExact
<1> QED  BY <1>1, SInit, SStep, PTL DEF Spec

=============================================================================
