------------------------------- MODULE UecSrc -------------------------------
(***************************************************************************)
(* The sender of a UEC connection, UecSrc (uec_src.cpp), under             *)
(* sender-based congestion control: SLEEK and PFLR are off and the host    *)
(* has one NIC port.  The sender is a record, and each handler an operator *)
(* from the sender before the call to the sender after it; the packets a   *)
(* handler sends are collected in the field "sent".  Packets have serial   *)
(* numbers (psns); an RTS takes a psn of its own.                          *)
(***************************************************************************)
EXTENDS Integers, Sequences, FiniteSets

CONSTANTS
  Packets,   \* size of the flow, in full packets
  Mtu, Hdr,  \* bytes of a full packet and of a header (an RTS is a header)
  InitCwnd,  \* the window the flow starts with
  MaxRts     \* bound on the RTSs of the flow

ASSUME UecSrcAssumption ==
  /\ Packets \in Nat \ {0}
  /\ Mtu \in Nat /\ Hdr \in Nat \ {0} /\ Hdr <= Mtu
  /\ InitCwnd \in Nat
  /\ MaxRts \in Nat

NoPsn == -1
Psns  == 0 .. (Packets + MaxRts - 1)

Larger(a, b) == IF a >= b THEN a ELSE b
Least(S) == CHOOSE p \in S : \A q \in S : p <= q

InitSrc ==
  [started      |-> FALSE,
   highest_sent |-> 0,                        \* the next new psn
   backlog      |-> Packets,                  \* packets never sent
   tx           |-> {},                       \* keys of _tx_bitmap
   send_times   |-> <<>>,                     \* the psns of _send_times, oldest first
   rto          |-> NoPsn,                    \* the psn whose send time armed the timer
   rtx          |-> {},                       \* keys of _rtx_queue
   rts          |-> {},                       \* psns taken by RTSs
   tries        |-> [p \in Psns |-> 0],       \* _rtx_times
   in_flight    |-> 0,
   cwnd         |-> InitCwnd,
   recvd_bytes  |-> 0,                        \* highest value echoed by the sink
   blocked      |-> FALSE,                    \* _send_blocked_on_nic
   requests     |-> 0,                        \* times the source is in UecNIC::_active_srcs
   port_free    |-> TRUE,                     \* the NIC port
   done         |-> FALSE,                    \* _done_sending
   sent         |-> {}]

Size(s, psn) == IF psn \in s.rts THEN Hdr ELSE Mtu

(* UecSrc::getNextPacketSize *)
NextSize(s) ==
  IF s.rtx # {} THEN Size(s, Least(s.rtx)) ELSE IF s.backlog > 0 THEN Mtu ELSE 0

(* UecSrc::can_send_NSCC of the next packet *)
CanSend(s) == NextSize(s) > 0 /\ s.cwnd >= s.in_flight + NextSize(s)

-----------------------------------------------------------------------------
(* Sending. *)

(* UecSrc::createSendRecord, then UecSrc::startRTO: a running timer belongs *)
(* to an older packet and is left alone.                                    *)
Outstanding(s, psn) ==
  [s EXCEPT !.tx = @ \cup {psn},
            !.send_times = Append(@, psn),
            !.rto = IF @ = NoPsn THEN psn ELSE @]

DataPacket(s, psn, try, ar) ==
  [kind |-> "data", psn |-> psn, try |-> try, size |-> Size(s, psn), ar |-> ar]

(* UecSrc::sendNewPacket: the last packet of the flow and the last that the *)
(* window admits ask for an acknowledgement.                                *)
SendNewPacket(s) ==
  LET psn == s.highest_sent
      flight == s.in_flight + Mtu
      ar == s.backlog = 1 \/ flight + Mtu >= s.cwnd
  IN [Outstanding(s, psn) EXCEPT
        !.highest_sent = psn + 1, !.backlog = @ - 1, !.in_flight = flight,
        !.sent = @ \cup {DataPacket(s, psn, 0, ar)}]

(* UecSrc::sendRtxPacket *)
SendRtxPacket(s) ==
  LET psn == Least(s.rtx)
      try == s.tries[psn] + 1
  IN [Outstanding(s, psn) EXCEPT
        !.rtx = @ \ {psn}, !.in_flight = @ + Size(s, psn), !.tries[psn] = try,
        !.sent = @ \cup {DataPacket(s, psn, try, TRUE)}]

(* UecSrc::sendPacket *)
SendPacket(s) == IF s.rtx # {} THEN SendRtxPacket(s) ELSE SendNewPacket(s)

(* UecSrc::sendRTS.  "allowed": the last RTS is at least one RTT old. *)
SendRTS(s, allowed) ==
  LET psn == s.highest_sent
      rts == [kind |-> "rts", psn |-> psn, try |-> 0, size |-> Hdr, ar |-> TRUE]
  IN IF ~allowed THEN s
     ELSE [Outstanding(s, psn) EXCEPT
             !.highest_sent = psn + 1, !.rts = @ \cup {psn}, !.sent = @ \cup {rts}]

(* UecNIC::requestSending with every port busy: the NIC will call back. *)
WaitForNic(s) == [s EXCEPT !.blocked = TRUE, !.requests = @ + 1]

(* UecSrc::sendIfPermitted.  When a packet is sent the port is taken, so the *)
(* recursive call can only send the source to the queue of the NIC.          *)
SendIfPermitted(s) ==
  IF ~CanSend(s) \/ s.blocked THEN s
  ELSE IF ~s.port_free THEN WaitForNic(s)
  ELSE LET t == [SendPacket(s) EXCEPT !.port_free = FALSE]
       IN IF CanSend(t) THEN WaitForNic(t) ELSE t

(* UecSrc::startFlow: the first packet is not held back by the window. *)
StartFlow(s) ==
  LET b == [s EXCEPT !.started = TRUE]
      t == IF b.port_free THEN [SendNewPacket(b) EXCEPT !.port_free = FALSE] ELSE b
  IN IF t.backlog > 0 THEN WaitForNic(t) ELSE t

(* UecSrc::timeToSend, called by the NIC with a free port: the source leaves *)
(* the queue of the NIC, and either uses the port and queues again if it has *)
(* more to send, or gives the port back (UecNIC::cantSend).                  *)
TimeToSend(s) ==
  LET u == [s EXCEPT !.blocked = FALSE, !.requests = @ - 1]
      t == SendPacket(u)
  IN IF ~CanSend(u) THEN [u EXCEPT !.port_free = u.requests = 0]
     ELSE IF CanSend(t) THEN WaitForNic(t) ELSE t

-----------------------------------------------------------------------------
(* Feedback and timeouts. *)

(* The n-th smallest of a set of positions *)
Nth(I, n) == CHOOSE i \in I : Cardinality({h \in I : h <= i}) = n

(* The entries of q for other psns, in the order of q: SelectSeq without    *)
(* recursion, so that it can be reasoned about.                             *)
Remaining(q, psns) ==
  LET kept == {i \in 1..Len(q) : q[i] \notin psns}
  IN [n \in 1..Cardinality(kept) |-> q[Nth(kept, n)]]

(* UecSrc::delFromSendTimes *)
DelFromSendTimes(s, psns) == [s EXCEPT !.send_times = Remaining(@, psns)]

(* UecSrc::recalculateRTO *)
RecalculateRTO(s) ==
  [s EXCEPT !.rto = IF s.send_times = <<>> THEN NoPsn ELSE Head(s.send_times)]

Bytes(s, psns) == Mtu * Cardinality(psns \ s.rts) + Hdr * Cardinality(psns \cap s.rts)

(* The packets waiting for retransmission are not put back in flight. *)
Acknowledge_NoCorrection(s, acked) ==
  LET d == DelFromSendTimes([s EXCEPT !.tx = @ \ acked, !.rtx = @ \ acked], acked)
  IN IF s.rto \in acked /\ s.rto \in s.tx THEN RecalculateRTO(d) ELSE d

(* UecSrc::handleCumulativeAck and UecSrc::handleAckno, for all the psns an *)
(* ACK acknowledges.                                                        *)
Acknowledge(s, acked) ==
  LET a == [s EXCEPT !.tx = @ \ acked, !.rtx = @ \ acked,
                     !.in_flight = @ + Bytes(s, s.rtx \cap acked)]
      d == DelFromSendTimes(a, s.tx \cap acked)
  IN IF s.rto \in s.tx \cap acked THEN RecalculateRTO(d) ELSE d

(* The test for the end counts the psns of RTSs as data. *)
IsFinished_CountsRts(s, cum_ack) == s.done \/ cum_ack >= Packets

(* UecSrc::checkFinished *)
IsFinished(s, cum_ack) == s.done \/ cum_ack - Cardinality(s.rts) >= Packets

(* An ACK that opens the window does not make the sender send. *)
ProcessAck_NoSend(s, m, cwnd) ==
  LET newly == Larger(m.recvd_bytes - s.recvd_bytes, 0)
      a == [Acknowledge(s, {p \in Psns : p < m.cum_ack} \cup m.sacked) EXCEPT
              !.in_flight = @ - newly, !.recvd_bytes = @ + newly, !.cwnd = cwnd]
  IN IF IsFinished(s, m.cum_ack) THEN [a EXCEPT !.done = TRUE] ELSE a

(* UecSrc::processAck.  The congestion control algorithm chooses cwnd. *)
ProcessAck(s, m, cwnd) ==
  LET newly == Larger(m.recvd_bytes - s.recvd_bytes, 0)
      a == [Acknowledge(s, {p \in Psns : p < m.cum_ack} \cup m.sacked) EXCEPT
              !.in_flight = @ - newly, !.recvd_bytes = @ + newly, !.cwnd = cwnd]
  IN IF IsFinished(s, m.cum_ack) THEN [a EXCEPT !.done = TRUE]
     ELSE SendIfPermitted(a)

(* UecSrc::queueForRtx *)
QueueForRtx(s, psn) == SendIfPermitted([s EXCEPT !.rtx = @ \cup {psn}])

(* The timer is left armed for the packet that was nacked. *)
ProcessNack_KeepsTimer(s, m, cwnd) ==
  LET f == DelFromSendTimes([s EXCEPT !.tx = @ \ {m.psn}, !.cwnd = cwnd,
                                      !.in_flight = @ - Size(s, m.psn)], {m.psn})
  IN IF m.psn \notin s.tx THEN s ELSE SendIfPermitted(QueueForRtx(f, m.psn))

(* UecSrc::processNack *)
ProcessNack(s, m, cwnd) ==
  LET f == DelFromSendTimes([s EXCEPT !.tx = @ \ {m.psn}, !.cwnd = cwnd,
                                      !.in_flight = @ - Size(s, m.psn)], {m.psn})
      q == QueueForRtx(f, m.psn)
  IN IF m.psn \notin s.tx THEN s
     ELSE SendIfPermitted(IF s.rto = m.psn THEN RecalculateRTO(q) ELSE q)

(* The packet that timed out is not retransmitted: the RTS stands for it. *)
RtxTimerExpired_OnlyRts(s, allowed) ==
  LET psn == Head(s.send_times)
      f == RecalculateRTO(DelFromSendTimes([s EXCEPT !.tx = @ \ {psn}], {psn}))
  IN SendRTS([f EXCEPT !.in_flight = @ - Size(s, psn),
                       !.cwnd = Larger(@ - Size(s, psn), Mtu)], allowed)

(* UecSrc::rtxTimerExpired: the oldest packet in flight moves to the        *)
(* retransmission queue, and is sent from there if window and NIC permit.   *)
(* The source then sends an RTS if the window, which may hold the packet    *)
(* just sent, has no room for it, and asks the NIC (again) if it has.       *)
RtxTimerExpired(s, allowed) ==
  LET psn  == Head(s.send_times)
      size == Size(s, psn)
      f == RecalculateRTO(DelFromSendTimes([s EXCEPT !.tx = @ \ {psn}], {psn}))
      q == QueueForRtx([f EXCEPT !.in_flight = @ - size,
                                 !.cwnd = Larger(@ - size, Mtu)], psn)
  IN IF s.rtx # {} THEN q
     ELSE IF q.cwnd < size + q.in_flight THEN SendRTS(q, allowed)
     ELSE IF q.port_free THEN [SendRtxPacket(q) EXCEPT !.port_free = FALSE]
     ELSE [q EXCEPT !.requests = @ + 1]
=============================================================================
