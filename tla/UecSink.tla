------------------------------ MODULE UecSink ------------------------------
(***************************************************************************)
(* The receiver of a UEC connection, UecSink (uec_sink.cpp): which psns it *)
(* has, when it acknowledges and what each ACK says.  The sink is a record *)
(* and each handler an operator on it; the ACKs and NACKs a handler sends  *)
(* are collected in the field "replies".  The pull state of the sink is in *)
(* UecPullPacer.                                                           *)
(***************************************************************************)
EXTENDS Integers, FiniteSets

CONSTANTS
  SackWindow,    \* psns covered by the bitmap of an ACK (64)
  AckThreshold,  \* UecSink::_bytes_unacked_threshold
  AckSize        \* UecAckPacket::ACKSIZE, the header of a data packet

ASSUME UecSinkAssumption ==
  SackWindow \in Nat \ {0} /\ AckThreshold \in Nat /\ AckSize \in Nat

InitSink ==
  [expected       |-> 0,      \* _expected_epsn: all below it are received
   rx             |-> {},     \* set bits of _epsn_rx_bitmap
   ooo            |-> 0,      \* _out_of_order_count
   ack_request    |-> FALSE,
   accepted       |-> 0,      \* _accepted_bytes since the last ACK
   received_bytes |-> 0,      \* payload
   recvd_bytes    |-> 0,      \* payload and headers, echoed in ACKs
   replies        |-> {}]

Has(k, psn) == psn < k.expected \/ psn \in k.rx

-----------------------------------------------------------------------------
(* UecSink::sackBitmapBase *)
SackBitmapBase(k, psn) ==
  LET low == psn - (SackWindow - 1)
  IN IF low >= k.expected + 1 THEN low ELSE k.expected + 1

(* UecSink::sack, with UecSink::buildSackBitmap from ref *)
Sack(k, ref, m) ==
  [kind |-> "ack", psn |-> m.psn, try |-> m.try,
   cum_ack |-> k.expected,
   sacked |-> {p \in k.rx : ref <= p /\ p < ref + SackWindow},
   recvd_bytes |-> k.recvd_bytes]

(* UecSink::nack *)
Nack(m) == [kind |-> "nack", psn |-> m.psn, try |-> m.try]

Reply(k, r) == [k EXCEPT !.replies = @ \cup {r}]

(* The first psn after "from" that is not received out of order. *)
NextMissing(rx, from) ==
  CHOOSE p \in {q + 1 : q \in rx \cup {from}} :
    p > from /\ p \notin rx /\ \A q \in (from + 1) .. (p - 1) : q \in rx

(* A new psn: the expected one closes a gap, any other is out of order. *)
Accept(k, psn) ==
  LET next == NextMissing(k.rx, psn)
      closed == (psn + 1) .. (next - 1)
  IN IF psn = k.expected
     THEN [k EXCEPT !.expected = next, !.rx = @ \ closed,
                    !.ooo = @ - Cardinality(closed)]
     ELSE [k EXCEPT !.rx = @ \cup {psn}, !.ooo = @ + 1]

-----------------------------------------------------------------------------
(* The request for an acknowledgement is kept although nothing is missing. *)
ProcessData_KeepsRequest(k, m, ecn) ==
  LET a == Accept([k EXCEPT !.received_bytes = @ + m.size - AckSize,
                            !.recvd_bytes = @ + m.size,
                            !.ack_request = @ \/ m.ar], m.psn)
  IN IF Has(k, m.psn) THEN Reply(k, Sack(k, SackBitmapBase(k, m.psn), m))
     ELSE Reply(a, Sack(a, m.psn, m))

(* UecSink::processData.  A duplicate is acknowledged at once; a new psn is *)
(* acknowledged if it is marked, if it is the first, if it asks for it, if  *)
(* it closes the last gap after a request, or after enough bytes.           *)
ProcessData(k, m, ecn) ==
  LET accepted == k.accepted + m.size
      request == k.ack_request \/ m.ar
      a == Accept([k EXCEPT !.received_bytes = @ + m.size - AckSize,
                            !.recvd_bytes = @ + m.size], m.psn)
      drained == m.psn = k.expected /\ a.ooo = 0 /\ request
      b == [a EXCEPT !.ack_request = request /\ ~drained]
      force_ack == k.received_bytes = 0 \/ m.ar \/ drained
  IN IF Has(k, m.psn)
     THEN Reply([k EXCEPT !.accepted = 0],
                Sack(k, IF ecn THEN m.psn ELSE SackBitmapBase(k, m.psn), m))
     ELSE IF ecn \/ accepted >= AckThreshold \/ force_ack
     THEN Reply([b EXCEPT !.accepted = 0],
                Sack(b, IF ecn \/ m.ar THEN m.psn ELSE SackBitmapBase(b, m.psn), m))
     ELSE [b EXCEPT !.accepted = accepted]

(* UecSink::processTrimmed *)
ProcessTrimmed(k, m) ==
  Reply(k, IF Has(k, m.psn) THEN Sack(k, SackBitmapBase(k, m.psn), m) ELSE Nack(m))

(* UecSink::processRts: the psn of an RTS counts as received, its bytes do *)
(* not, and it is always acknowledged.                                     *)
ProcessRts(k, m) ==
  LET a == Accept(k, m.psn)
      drained == m.psn = k.expected /\ a.ooo = 0
      b == [a EXCEPT !.ack_request = @ /\ ~drained]
  IN IF Has(k, m.psn)
     THEN Reply([k EXCEPT !.accepted = 0], Sack(k, SackBitmapBase(k, m.psn), m))
     ELSE Reply(b, Sack(b, m.psn, m))
=============================================================================
