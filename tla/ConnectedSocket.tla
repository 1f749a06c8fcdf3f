-------------------------- MODULE ConnectedSocket --------------------------
(***************************************************************************)
(* One end of a connection (src/src/comm/connected_socket.cc): messages    *)
(* handed to send_msg go through the send strand to one async_write at a   *)
(* time; reads go through the receive strand, header then body; close      *)
(* requests run on the receive strand too.  The two strands are two        *)
(* threads: a handler is split where the other strand can see the middle.  *)
(* The kernel, the peer and the caller are the environment.                *)
(***************************************************************************)
EXTENDS Queues, FiniteSets

CONSTANTS
  NumOut,        \* messages the caller sends: 1, 2, ... in this order
  NumIn,         \* messages the peer sends
  Rearms,        \* bounds the recv_msg calls made outside the receive callback
  PeerMayClose   \* the peer may close its end

ASSUME SizesAssumption == NumOut \in Nat /\ NumIn \in Nat /\ Rearms \in Nat
ASSUME PeerAssumption == PeerMayClose \in BOOLEAN

VARIABLES
  open,         \* sock->is_open()
  sockState,    \* sock_state
  cbSet,        \* closing_cb is the caller's
  sending, sendQueue,
  bytesQueued,  \* in messages of size one
  sendStrand, recvStrand,  \* posted handlers, in order
  sendPc, recvPc,          \* the rest of the handler each strand is in
  receiving,
  writes,       \* messages of outstanding async_writes
  headReads, bodyReads,    \* outstanding async_reads
  nextOut, accepted,       \* the caller: next message, messages send_msg took
  rearmed, closeAsked,
  wire,         \* messages written, as the peer reads them
  inStream,     \* what the peer has sent and nobody has read: <<"head" or "body", i>>
  peerOpen,
  delivered, misframed,    \* bodies passed to recvcb; a body was read as a header
  fired, broken            \* close callbacks fired; recvcb was called with an error

sockVars == <<open, sockState, cbSet, fired>>
sendVars == <<sending, sendQueue, bytesQueued, sendStrand, sendPc, writes>>
recvVars == <<recvStrand, recvPc, receiving, headReads, bodyReads>>
userVars == <<nextOut, accepted, rearmed, closeAsked, broken>>
peerVars == <<wire, inStream, peerOpen, delivered, misframed>>
vars == <<sockVars, sendVars, recvVars, userVars, peerVars>>

\* The peer's messages are on their way, and the first recv_msg has been called.
Init ==
  /\ open = TRUE /\ sockState = "open" /\ cbSet = FALSE /\ fired = 0
  /\ sending = FALSE /\ sendQueue = <<>> /\ bytesQueued = 0
  /\ sendStrand = <<>> /\ sendPc = "idle" /\ writes = {}
  /\ recvStrand = <<<<"recv", "ok", 0>>>> /\ recvPc = "idle" /\ receiving = FALSE
  /\ headReads = 0 /\ bodyReads = 0
  /\ nextOut = 1 /\ accepted = <<>> /\ rearmed = 0 /\ closeAsked = FALSE /\ broken = FALSE
  /\ wire = <<>> /\ peerOpen = TRUE /\ delivered = <<>> /\ misframed = FALSE
  /\ inStream = [i \in 1 .. 2 * NumIn |-> <<IF i % 2 = 1 THEN "head" ELSE "body", (i + 1) \div 2>>]

-----------------------------------------------------------------------------
(* The caller, through ClientConnection.                                   *)

\* send_msg on an open connection posts perform_send and reports success.
SendMsg ==
  /\ nextOut <= NumOut /\ ~closeAsked
  /\ open /\ sockState = "open"
  /\ nextOut' = nextOut + 1
  /\ accepted' = Append(accepted, nextOut)
  /\ sendStrand' = Append(sendStrand, <<"send", nextOut, "ok">>)
  /\ UNCHANGED <<sockVars, sending, sendQueue, bytesQueued, sendPc, writes, recvVars, rearmed,
                 closeAsked, broken, peerVars>>

\* recv_msg from outside the callback, as chain_stopping does.
RecvMsg ==
  /\ rearmed < Rearms /\ ~closeAsked
  /\ rearmed' = rearmed + 1
  /\ recvStrand' = Append(recvStrand, <<"recv", "ok", 0>>)
  /\ UNCHANGED <<sockVars, sendVars, recvPc, receiving, headReads, bodyReads, nextOut, accepted,
                 closeAsked, broken, peerVars>>

\* close_async: connected = false, close_on_strand to the receive strand.
CloseAsync ==
  /\ ~closeAsked
  /\ closeAsked' = TRUE
  /\ recvStrand' = Append(recvStrand, <<"close", "ok", 0>>)
  /\ UNCHANGED <<sockVars, sendVars, recvPc, receiving, headReads, bodyReads, nextOut, accepted,
                 rearmed, broken, peerVars>>

-----------------------------------------------------------------------------
(* Shared by both strands.                                                 *)

\* close_now: cancels what is outstanding and fires the close callback.
CloseNow ==
  /\ open' = FALSE /\ sockState' = "closed"
  /\ fired' = IF cbSet THEN fired + 1 ELSE fired
  /\ UNCHANGED cbSet

\* The first half of fail(); close_now and the error callback follow.
FailReset == sending' = FALSE /\ sendQueue' = <<>>

AsyncWrite(m) == sending' = TRUE /\ writes' = writes \cup {m}

-----------------------------------------------------------------------------
(* The send strand.                                                        *)

SendHandler(kind) ==
  /\ sendPc = "idle" /\ sendStrand # <<>> /\ Head(sendStrand)[1] = kind

\* Mutant: bytesQueued is not charged for a queued message.
PerformSendUncounted ==
  LET m == Head(sendStrand)[2] IN
  /\ SendHandler("send") /\ open
  /\ IF sending
       THEN /\ sendQueue' = Append(sendQueue, m)
            /\ sendStrand' = Append(Tail(sendStrand), <<"queued", 0, "ok">>)
            /\ UNCHANGED <<sending, bytesQueued, writes>>
       ELSE /\ AsyncWrite(m)
            /\ sendStrand' = Tail(sendStrand)
            /\ UNCHANGED <<sendQueue, bytesQueued>>
  /\ UNCHANGED <<sockVars, sendPc, recvVars, userVars, peerVars>>

\* perform_send.
PerformSend ==
  LET m == Head(sendStrand)[2] IN
  /\ SendHandler("send")
  /\ \/ /\ ~open
        /\ sendStrand' = Tail(sendStrand)
        /\ UNCHANGED <<sending, sendQueue, bytesQueued, writes>>
     \/ /\ open /\ sending
        /\ sendQueue' = Append(sendQueue, m)
        /\ bytesQueued' = bytesQueued + 1
        /\ sendStrand' = Append(Tail(sendStrand), <<"queued", 0, "ok">>)
        /\ UNCHANGED <<sending, writes>>
     \/ /\ open /\ ~sending
        /\ AsyncWrite(m)
        /\ sendStrand' = Tail(sendStrand)
        /\ UNCHANGED <<sendQueue, bytesQueued>>
  /\ UNCHANGED <<sockVars, sendPc, recvVars, userVars, peerVars>>

\* The body of perform_queued_send.
WriteQueued ==
  IF sending \/ sendQueue = <<>> \/ ~open
    THEN UNCHANGED <<sending, sendQueue, bytesQueued, writes>>
    ELSE /\ AsyncWrite(Head(sendQueue))
         /\ sendQueue' = Tail(sendQueue)
         /\ bytesQueued' = bytesQueued - 1

\* perform_queued_send as a posted handler.
PerformQueuedSend ==
  /\ SendHandler("queued")
  /\ WriteQueued
  /\ sendStrand' = Tail(sendStrand)
  /\ UNCHANGED <<sockVars, sendPc, recvVars, userVars, peerVars>>

\* sent: sending is reset first; after an error, fail() goes on.
Sent ==
  LET ok == Head(sendStrand)[3] = "ok" IN
  /\ SendHandler("sent")
  /\ IF ok THEN sending' = FALSE /\ UNCHANGED sendQueue ELSE FailReset
  /\ sendPc' = IF ok THEN "sent" ELSE "fail"
  /\ sendStrand' = Tail(sendStrand)
  /\ UNCHANGED <<sockVars, bytesQueued, writes, recvVars, userVars, peerVars>>

\* Mutant: sent() posts perform_queued_send where it should call it.
AfterSentPosts ==
  /\ sendPc = "sent" /\ sendPc' = "idle"
  /\ sendStrand' = Append(sendStrand, <<"queued", 0, "ok">>)
  /\ UNCHANGED <<sockVars, sending, sendQueue, bytesQueued, writes, recvVars, userVars, peerVars>>

\* Mutant: sent() leaves the queue to the handlers perform_send posted.
AfterSentForgets ==
  /\ sendPc = "sent" /\ sendPc' = "idle"
  /\ UNCHANGED <<sockVars, sending, sendQueue, bytesQueued, sendStrand, writes, recvVars, userVars,
                 peerVars>>

\* The rest of sent: the next queued message, or the close that waits for it.
AfterSent ==
  /\ sendPc = "sent" /\ sendPc' = "idle"
  /\ IF sendQueue # <<>>
       THEN WriteQueued /\ UNCHANGED sockVars
       ELSE /\ IF sockState = "closing" THEN CloseNow ELSE UNCHANGED sockVars
            /\ UNCHANGED <<sending, sendQueue, bytesQueued, writes>>
  /\ UNCHANGED <<sendStrand, recvVars, userVars, peerVars>>

\* The rest of fail() on this strand.
SendFail ==
  /\ sendPc = "fail" /\ sendPc' = "idle"
  /\ CloseNow
  /\ broken' = TRUE
  /\ UNCHANGED <<sending, sendQueue, bytesQueued, sendStrand, writes, recvVars, nextOut, accepted,
                 rearmed, closeAsked, peerVars>>

-----------------------------------------------------------------------------
(* The receive strand.                                                     *)

RecvHandler(kind) ==
  /\ recvPc = "idle" /\ recvStrand # <<>> /\ Head(recvStrand)[1] = kind

\* Mutant: perform_recv does not look at receiving.
PerformRecvAlways ==
  /\ RecvHandler("recv")
  /\ IF open THEN receiving' = TRUE /\ headReads' = headReads + 1
             ELSE UNCHANGED <<receiving, headReads>>
  /\ recvStrand' = Tail(recvStrand)
  /\ UNCHANGED <<sockVars, sendVars, recvPc, bodyReads, userVars, peerVars>>

\* perform_recv.
PerformRecv ==
  /\ RecvHandler("recv")
  /\ IF open /\ ~receiving THEN receiving' = TRUE /\ headReads' = headReads + 1
                           ELSE UNCHANGED <<receiving, headReads>>
  /\ recvStrand' = Tail(recvStrand)
  /\ UNCHANGED <<sockVars, sendVars, recvPc, bodyReads, userVars, peerVars>>

\* received_header: a cancelled read only ends the receive; any other error,
\* and a header that arrives after the close, fails the connection.
ReceivedHeader ==
  LET result == Head(recvStrand)[2] IN
  /\ RecvHandler("header")
  /\ \/ /\ result = "canceled"
        /\ receiving' = FALSE
        /\ UNCHANGED <<recvPc, bodyReads, sending, sendQueue>>
     \/ /\ result = "eof" \/ (result = "ok" /\ ~open)
        /\ receiving' = FALSE
        /\ FailReset /\ recvPc' = "fail"
        /\ UNCHANGED bodyReads
     \/ /\ result = "ok" /\ open
        /\ bodyReads' = bodyReads + 1
        /\ UNCHANGED <<recvPc, receiving, sending, sendQueue>>
  /\ recvStrand' = Tail(recvStrand)
  /\ UNCHANGED <<sockVars, bytesQueued, sendStrand, sendPc, writes, headReads, userVars, peerVars>>

\* received_body: any error fails the connection; a message goes to the
\* callback, which asks for the next one or closes the connection at once
\* (close() dispatches, so on this strand close_on_strand runs next).
ReceivedBody ==
  LET result == Head(recvStrand)[2]
      i == Head(recvStrand)[3]
  IN
  /\ RecvHandler("body")
  /\ receiving' = FALSE
  /\ \/ /\ result # "ok"
        /\ FailReset /\ recvPc' = "fail"
        /\ recvStrand' = Tail(recvStrand)
        /\ UNCHANGED <<delivered, closeAsked>>
     \/ /\ result = "ok"
        /\ delivered' = Append(delivered, i)
        /\ \/ recvStrand' = Append(Tail(recvStrand), <<"recv", "ok", 0>>) /\ UNCHANGED closeAsked
           \/ /\ ~closeAsked /\ closeAsked' = TRUE
              /\ recvStrand' = <<<<"close", "ok", 0>>>> \o Tail(recvStrand)
        /\ UNCHANGED <<recvPc, sending, sendQueue>>
  /\ UNCHANGED <<sockVars, bytesQueued, sendStrand, sendPc, writes, headReads, bodyReads, nextOut,
                 accepted, rearmed, broken, wire, inStream, peerOpen, misframed>>

\* The rest of fail() on this strand.
RecvFail ==
  /\ recvPc = "fail" /\ recvPc' = "idle"
  /\ CloseNow
  /\ broken' = TRUE
  /\ UNCHANGED <<sendVars, recvStrand, receiving, headReads, bodyReads, nextOut, accepted, rearmed,
                 closeAsked, peerVars>>

\* close_on_strand up to its test of sending.
CloseOnStrand ==
  /\ RecvHandler("close")
  /\ cbSet' = TRUE
  /\ recvPc' = IF sending THEN "mark" ELSE "close"
  /\ recvStrand' = Tail(recvStrand)
  /\ UNCHANGED <<open, sockState, fired, sendVars, receiving, headReads, bodyReads, userVars,
                 peerVars>>

\* The rest of close_on_strand: close now, or leave it to sent().
FinishClose ==
  /\ recvPc \in {"mark", "close"} /\ recvPc' = "idle"
  /\ IF recvPc = "close"
       THEN CloseNow
       ELSE sockState' = "closing" /\ UNCHANGED <<open, cbSet, fired>>
  /\ UNCHANGED <<sendVars, recvStrand, receiving, headReads, bodyReads, userVars, peerVars>>

-----------------------------------------------------------------------------
(* The kernel and the peer.  An operation outstanding when the socket is   *)
(* closed completes as canceled.                                           *)

WriteDone ==
  \E m \in writes :
    /\ writes' = writes \ {m}
    /\ \/ /\ open
          /\ wire' = Append(wire, m)
          /\ sendStrand' = Append(sendStrand, <<"sent", m, "ok">>)
       \/ /\ ~open \/ ~peerOpen
          /\ sendStrand' = Append(sendStrand, <<"sent", m, "error">>)
          /\ UNCHANGED wire
    /\ UNCHANGED <<sockVars, sending, sendQueue, bytesQueued, sendPc, recvVars, userVars, inStream,
                   peerOpen, delivered, misframed>>

\* A read of the given kind completes with the next piece of the stream, as
\* canceled, or at the end of the stream.
ReadDone(kind) ==
  /\ \/ /\ open /\ inStream # <<>>
        /\ recvStrand' = Append(recvStrand, <<kind, "ok", Head(inStream)[2]>>)
        /\ misframed' = (misframed \/ (kind = "header") # (Head(inStream)[1] = "head"))
        /\ inStream' = Tail(inStream)
     \/ /\ ~open
        /\ recvStrand' = Append(recvStrand, <<kind, "canceled", 0>>)
        /\ UNCHANGED <<inStream, misframed>>
     \/ /\ open /\ inStream = <<>> /\ ~peerOpen
        /\ recvStrand' = Append(recvStrand, <<kind, "eof", 0>>)
        /\ UNCHANGED <<inStream, misframed>>
  /\ UNCHANGED <<sockVars, sendVars, recvPc, receiving, userVars, wire, peerOpen, delivered>>

HeaderDone == headReads > 0 /\ headReads' = headReads - 1 /\ UNCHANGED bodyReads /\ ReadDone("header")

BodyDone == bodyReads > 0 /\ bodyReads' = bodyReads - 1 /\ UNCHANGED headReads /\ ReadDone("body")

\* The peer closes; what it has sent may be cut off.
PeerClose ==
  /\ PeerMayClose /\ peerOpen /\ peerOpen' = FALSE
  /\ \E n \in 0 .. Len(inStream) : inStream' = SubSeq(inStream, 1, n)
  /\ UNCHANGED <<sockVars, sendVars, recvVars, userVars, wire, delivered, misframed>>

-----------------------------------------------------------------------------
Caller == SendMsg \/ RecvMsg \/ CloseAsync
SendSide == PerformSend \/ PerformQueuedSend \/ Sent \/ AfterSent \/ SendFail
RecvSide == PerformRecv \/ ReceivedHeader \/ ReceivedBody \/ RecvFail \/ CloseOnStrand \/ FinishClose
ReadSide == HeaderDone \/ BodyDone

Next == Caller \/ SendSide \/ RecvSide \/ WriteDone \/ ReadSide \/ PeerClose

Spec == Init /\ [][Next]_vars

\* The io_service threads keep running posted handlers, and the kernel
\* completes writes and available reads.  Nothing makes the caller act.
FairSpec ==
  Spec /\ WF_vars(SendSide) /\ WF_vars(RecvSide) /\ WF_vars(WriteDone) /\ WF_vars(ReadSide)

-----------------------------------------------------------------------------
\* Neither strand has entered fail().
Sound == ~broken /\ recvPc # "fail" /\ sendPc # "fail"

\* As long as neither strand fails, messages leave in the order send_msg
\* accepted them, by one async_write at a time, none twice and none skipped,
\* though they wait in two queues (the strand's and sendQueue) and a close
\* may come between any two of them.  While the socket is open none is forgotten
\* either: a message that is not written has a write or a handler still to come.
SentInOrder ==
  Sound =>
    /\ PrefixOf(wire, accepted) /\ Cardinality(writes) <= 1
    /\ open /\ wire # accepted => writes # {} \/ sendStrand # <<>> \/ sendPc # "idle"

\* bytesQueued is what sendQueue holds, so that perform_queued_send never
\* takes its fatal exit, as long as the connection has not failed.
BytesQueuedExact == Sound => bytesQueued = Len(sendQueue)

\* Reads never overlap, whoever calls recv_msg: every header is read as a
\* header and messages reach the callback in order.
FramesIntact ==
  /\ headReads + bodyReads <= 1
  /\ ~misframed
  /\ PrefixOf(delivered, [i \in 1 .. NumIn |-> i])

\* A message that send_msg accepted is written, unless the socket is closed:
\* no message stays in sendQueue with nobody to write it.
AcceptedIsSent ==
  \A m \in 1 .. NumOut : (m \in Elems(accepted)) ~> (m \in Elems(wire) \/ ~open)

\* A requested close happens: "sent() will close" when a write is in progress.
CloseCompletes == closeAsked ~> fired > 0
=============================================================================
