---------------------------- MODULE UecTransport ----------------------------
(***************************************************************************)
(* One UEC connection: a UecSrc and a UecSink with a network between them  *)
(* that delays, reorders, trims, marks and loses packets.  The NIC of the  *)
(* sender has one port, which other senders of the host use too.           *)
(***************************************************************************)
EXTENDS UecSrc, UecSink

CONSTANTS
  Windows,      \* the windows a congestion control algorithm may set
  Budgets       \* what may go wrong: bounds on the packets lost or trimmed and
                \* on the expiries of the timer, and whether it is timely, so
                \* that a packet times out only if it or its ACK was lost

ASSUME UecTransportAssumption ==
  /\ Windows \subseteq Nat /\ \A w \in Windows : w >= Mtu
  /\ Budgets \subseteq [faults : Nat, timeouts : Nat, timely : BOOLEAN]
  /\ AckSize = Hdr

VARIABLES
  src,       \* the UecSrc
  sink,      \* the UecSink
  fwd,       \* packets under way to the sink
  back,      \* ACKs and NACKs under way to the source
  budget     \* what may still go wrong

vars == <<src, sink, fwd, back, budget>>

(* The packets of a handler leave with it. *)
SrcBecomes(s, delivered) ==
  /\ src' = [s EXCEPT !.sent = {}]
  /\ fwd' = fwd \cup s.sent
  /\ back' = back \ delivered
  /\ UNCHANGED sink

SinkBecomes(k, delivered) ==
  /\ sink' = [k EXCEPT !.replies = {}]
  /\ back' = back \cup k.replies
  /\ fwd' = fwd \ delivered
  /\ UNCHANGED src

Init ==
  /\ src = InitSrc /\ sink = InitSink
  /\ fwd = {} /\ back = {}
  /\ budget \in Budgets

-----------------------------------------------------------------------------
NoFault == UNCHANGED budget

(* The NIC of the source. *)

Start == ~src.started /\ SrcBecomes(StartFlow(src), {}) /\ NoFault

(* UecNIC::doNextEvent: the port becomes free; a source that waits gets it. *)
PortIsFreed ==
  /\ ~src.port_free
  /\ SrcBecomes(IF src.requests > 0 THEN TimeToSend(src)
                ELSE [src EXCEPT !.port_free = TRUE], {})
  /\ NoFault

(* Another sender of the host takes the port. *)
PortIsTaken ==
  /\ src.port_free
  /\ SrcBecomes([src EXCEPT !.port_free = FALSE], {})
  /\ NoFault

-----------------------------------------------------------------------------
(* The network. *)

ReceiveAck ==
  /\ \E m \in back, w \in Windows :
       m.kind = "ack" /\ SrcBecomes(ProcessAck(src, m, w), {m})
  /\ NoFault

ReceiveNack ==
  /\ \E m \in back, w \in Windows :
       m.kind = "nack" /\ SrcBecomes(ProcessNack(src, m, w), {m})
  /\ NoFault

ReceiveData ==
  /\ \E m \in fwd, ecn \in BOOLEAN :
       m.kind = "data" /\ SinkBecomes(ProcessData(sink, m, ecn), {m})
  /\ NoFault

ReceiveRts ==
  /\ \E m \in fwd : m.kind = "rts" /\ SinkBecomes(ProcessRts(sink, m), {m})
  /\ NoFault

Fault ==
  /\ budget.faults > 0
  /\ budget' = [budget EXCEPT !.faults = @ - 1]

(* A switch trims off the payload of a data packet. *)
ReceiveTrimmed ==
  /\ Fault
  /\ \E m \in fwd :
       m.kind = "data" /\ SinkBecomes(ProcessTrimmed(sink, m), {m})

Lose ==
  /\ Fault
  /\ \E m \in fwd \cup back : fwd' = fwd \ {m} /\ back' = back \ {m}
  /\ UNCHANGED <<src, sink>>

(* The retransmission timer expires.  The first RTS is always allowed, the  *)
(* next ones if an RTT has passed.  The code asserts that the oldest send   *)
(* time is of a packet in flight: TimerCoversOldest says that it is.        *)
Timeout ==
  /\ src.rto # NoPsn
  /\ Head(src.send_times) \in src.tx
  /\ budget.timeouts > 0
  /\ budget' = [budget EXCEPT !.timeouts = @ - 1]
  /\ budget.timely => \A m \in fwd \cup back : m.psn # Head(src.send_times)
  /\ \E allowed \in BOOLEAN :
       /\ Cardinality(src.rts) = 0 /\ MaxRts > 0 => allowed
       /\ Cardinality(src.rts) >= MaxRts => ~allowed
       /\ SrcBecomes(RtxTimerExpired(src, allowed), {})

Next ==
  \/ Start \/ PortIsFreed \/ PortIsTaken
  \/ ReceiveAck \/ ReceiveNack
  \/ ReceiveData \/ ReceiveTrimmed \/ ReceiveRts
  \/ Lose \/ Timeout

Spec == Init /\ [][Next]_vars

(* Events happen: the flow starts, a packet that takes a port is eventually  *)
(* sent, the timer expires, and the network delivers what it does not lose.  *)
SrcGets(kind) == \E m \in back : m.kind = kind /\ back' = back \ {m}
SinkGets(kind) == \E m \in fwd : m.kind = kind /\ fwd' = fwd \ {m}

Fairness ==
  /\ WF_vars(Start) /\ WF_vars(PortIsFreed) /\ WF_vars(Timeout)
  /\ WF_back(SrcGets("ack")) /\ WF_back(SrcGets("nack"))
  /\ WF_fwd(SinkGets("rts")) /\ WF_fwd(SinkGets("data"))

FairSpec == Spec /\ Fairness

-----------------------------------------------------------------------------
(* Properties. *)

SentPsns == 0 .. (src.highest_sent - 1)
DataPsns == SentPsns \ src.rts
RangeOf(q) == {q[i] : i \in 1..Len(q)}

(* The sets of psns and the counters stay within what was sent, and the      *)
(* queue position of the source is consistent with the NIC port.             *)
TypeOK ==
  /\ src.highest_sent \in 0 .. (Packets + MaxRts)
  /\ src.backlog \in 0 .. Packets
  /\ src.tx \subseteq SentPsns /\ src.rtx \subseteq SentPsns /\ src.rts \subseteq SentPsns
  /\ Cardinality(DataPsns) = Packets - src.backlog
  /\ src.rto \in SentPsns \cup {NoPsn}
  /\ src.in_flight \in Int /\ src.cwnd \in Nat /\ src.requests \in Nat
  /\ src.blocked \in BOOLEAN /\ src.port_free \in BOOLEAN /\ src.done \in BOOLEAN
  /\ sink.expected \in 0 .. src.highest_sent /\ sink.rx \subseteq SentPsns
  /\ sink.ooo \in Nat /\ sink.accepted \in Nat

(* What uec_src.cpp:608-611 says: a psn is in flight or waits for its        *)
(* retransmission, never both.                                               *)
NeverBoth == src.tx \cap src.rtx = {}

(* The source drops its record of a psn only if the sink has it, whatever    *)
(* was trimmed, nacked, timed out or acknowledged twice on the way.          *)
NothingForgotten ==
  \A p \in SentPsns : p \in src.tx \cup src.rtx \/ Has(sink, p)

(* The timer is armed as long as a packet is outstanding, for the oldest     *)
(* one, and the list of send times holds exactly the packets in flight.      *)
TimerCoversOldest ==
  /\ src.rto = IF src.send_times = <<>> THEN NoPsn ELSE Head(src.send_times)
  /\ RangeOf(src.send_times) = src.tx
  /\ Len(src.send_times) = Cardinality(src.tx)

(* _in_flight is what was sent and is not waiting for retransmission, less   *)
(* what the sink says it received.  An RTS is never added to it, but is      *)
(* subtracted while it waits for a retransmission.                           *)
FlightAccounting ==
  src.in_flight =
    Mtu * Cardinality(DataPsns \ src.rtx) - Hdr * Cardinality(src.rts \cap src.rtx)
      - src.recvd_bytes

(* A source that the window lets send has always asked the NIC.              *)
NoMissedSend == src.started /\ CanSend(src) /\ ~src.done => src.blocked

(* A source that waits for the NIC is known to it, and no port is free while *)
(* a source waits.                                                           *)
WaitingIsKnown ==
  (src.blocked => src.requests > 0) /\ (src.requests > 0 => ~src.port_free)

(* The count of out-of-order packets is exact, so that a request for an      *)
(* acknowledgement that is kept waits for a gap that is still to close.      *)
AckRequestWillFire ==
  /\ sink.ooo = Cardinality(sink.rx) /\ sink.expected \notin sink.rx
  /\ sink.ack_request => sink.ooo > 0

(* The connection implements ReliableFlow: payload is counted exactly once,  *)
(* whatever is duplicated, and the end is reported only after all of it.     *)
Flow == INSTANCE ReliableFlow WITH
  FlowSize <- Packets * (Mtu - Hdr), Mss <- Mtu - Hdr,
  received <- sink.received_bytes, done <- src.done
ImplementsFlow == Flow!Safety

(* Every flow finishes, if only finitely many packets are lost.              *)
FlowFinishes == budget.timely => <>src.done

=============================================================================
