---------------------------- MODULE EcTransport ----------------------------
(***************************************************************************)
(* One erasure-coded flow: its sender, its receiver and the network between*)
(* them.  The four variants of the code differ in whether the receiver     *)
(* keeps a bitmap for each path and in whether the sender has a congestion *)
(* window; the variant is chosen in the initial state.  The paths deliver  *)
(* independently of each other, so the packets of a stripe arrive in any   *)
(* order; every packet, either way, can be lost.                           *)
(***************************************************************************)
EXTENDS EcSrc, TLC

CONSTANTS
  LossyThreshold, RecoverThreshold, BitmapSize, MaxBoundaries, Big,
  Variants,       \* pairs <<perPath, windowed>>
  MaxFaults,      \* bound on the packets that are lost, for each variant
  Prompt,         \* an answer takes longer than the rest of a stripe
  MaxMsn,         \* bound on the message numbers
  MaxEvents       \* bound on the sender's events in the event list

ASSUME SinkAssumption ==
  /\ {BitmapSize, MaxBoundaries} \subseteq Nat \ {0}
  /\ {LossyThreshold, RecoverThreshold} \subseteq Nat
  /\ Variants \subseteq BOOLEAN \X BOOLEAN

\* The bounds admit the messages of the flow, and the positions of the numbers
\* that are followed stay below UINT32_MAX.
ASSUME BoundAssumption ==
  /\ {MaxMsn, MaxEvents, Big} \subseteq Nat
  /\ Messages <= MaxMsn + 1
  /\ (MaxMsn + 2) * Stripes <= Big

VARIABLES
  sender, sink,
  mimd,           \* apply_mimd: which controller moves the window
  data,           \* for each path, the packets on their way to the receiver
  acks,           \* the packets on their way back
  scanning,       \* the scanner of the receiver's timer is still scheduled
  have,           \* the packets of original stripes the receiver recorded
  faults          \* the packets lost so far

vars == <<sender, sink, mimd, data, acks, scanning, have, faults>>

Sink == INSTANCE EcSink

Init ==
  \E v \in Variants :
    /\ sender = InitSender(v[1], v[2])
    /\ sink = Sink!InitSink(v[1], v[2])
    /\ mimd \in IF v[2] THEN BOOLEAN ELSE {FALSE}
    /\ data = [p \in Paths |-> <<>>]
    /\ acks = <<>>
    /\ scanning = TRUE
    /\ have = {}
    /\ faults = 0

-----------------------------------------------------------------------------
(* The sender *)

\* A behaviour is followed until the sender uses up the bounds on its message
\* numbers and events, which a passing run does not let happen.
Exhausted ==
  \/ sender.events > MaxEvents
  \/ sender.nextRetrans > MaxMsn + 1
  \/ \E i \in DOMAIN sender.unfinished : sender.unfinished[i].msn > MaxMsn
Stopped == sender.failed # "no" \/ Exhausted
Running == ~Stopped /\ ~sender.finished

\* doNextEvent without a pending timeout.  The variants without congestion
\* control schedule the next event only when they send; with it an event is
\* always scheduled, so that one that changes nothing is left out.
SendEvent ==
  LET s == StartFlow(sender)
  IN  /\ Running
      /\ ~sender.pending
      /\ sender.events > 0
      /\ HasData(s)
      /\ WindowOpen(s)
      /\ IF s.unfinished = <<>>
         THEN sender' = [s EXCEPT !.failed = "abort"] /\ UNCHANGED data
         ELSE /\ sender' = SendNextPacket(s)
              /\ data' = [data EXCEPT ![NextPacket(s).path] = Append(@, NextPacket(s))]
      /\ UNCHANGED <<sink, mimd, acks, scanning, have, faults>>

\* doNextEvent finds nothing to send and does not schedule another event.
ChainEnds ==
  /\ Running
  /\ ~sender.pending
  /\ sender.started
  /\ sender.events > 0
  /\ ~sender.windowed
  /\ ~HasData(sender)
  /\ sender' = [sender EXCEPT !.events = @ - 1]
  /\ UNCHANGED <<sink, mimd, data, acks, scanning, have, faults>>

\* doNextEvent with a pending timeout: SACKTimeOut.
TimeoutEvent ==
  /\ Running
  /\ sender.pending
  /\ sender' \in SackTimeout([sender EXCEPT
                               !.pending = FALSE,
                               !.events = IF sender.windowed THEN @ ELSE @ - 1])
  /\ UNCHANGED <<sink, mimd, data, acks, scanning, have, faults>>

\* Nothing moves, and the sender has nothing that it may send.
Quiet ==
  /\ acks = <<>>
  /\ \A p \in Paths : data[p] = <<>>
  /\ ~(Running /\ HasData(StartFlow(sender)) /\ WindowOpen(StartFlow(sender)))
  /\ sink.acked = 0
  /\ ~sink.metric

\* restart_flow_timer_hook of the sender (3.5 s).  The receiver's timer
\* (10 ms) comes first whenever it is running.
SenderTimer ==
  /\ Running
  /\ sender.started
  /\ ~sender.pending
  /\ Quiet
  /\ ~sink.pending
  /\ ~(sink.armed /\ sink.active /\ scanning)
  /\ sender' = [sender EXCEPT !.pending = TRUE,
                              !.events = IF sender.windowed THEN @ ELSE @ + 1]
  /\ UNCHANGED <<sink, mimd, data, acks, scanning, have, faults>>

\* The sender is in the middle of a stripe and may go on.
MidStripe ==
  /\ Running
  /\ HasData(sender)
  /\ WindowOpen(sender)
  /\ IF SendsOriginal(sender) THEN NextOriginal(sender).pkt # 0
     ELSE NextRetransmission(sender).pkt # 0

\* receivePacket of the sender
ReceiveAck ==
  /\ ~Stopped
  /\ acks # <<>>
  /\ Prompt => ~MidStripe
  /\ acks' = Tail(acks)
  /\ LET pk == Head(acks)
     IN  sender' \in CASE pk.type = "SACK"   -> ProcessSack(sender, pk)
                       [] pk.type = "NACK"   -> {RestartFlow(sender)}
                       [] pk.type = "METRIC" -> ProcessMetricAck(sender, mimd, pk.bytes)
  /\ UNCHANGED <<sink, mimd, data, scanning, have, faults>>

-----------------------------------------------------------------------------
(* The receiver *)

Recorded(pk) ==
  IF pk.data # None /\ Sink!Accepts(sink, pk) THEN {<<pk.data, pk.path>>} ELSE {}

ReceiveData(p) ==
  /\ ~Stopped
  /\ data[p] # <<>>
  /\ have' = have \cup Recorded(Head(data[p]))
  /\ \E r \in {Sink!ReceivePacket(sink, Head(data[p]))} :
       sink' = r.sink /\ acks' = acks \o r.acks
  /\ data' = [data EXCEPT ![p] = Tail(@)]
  /\ UNCHANGED <<sender, mimd, scanning, faults>>

\* restart_flow_timer_hook of the receiver, called by its scanner
SinkTimer ==
  /\ Running
  /\ scanning
  /\ sink.active
  /\ sink.armed
  /\ ~sink.pending
  /\ Quiet
  /\ sink' = Sink!RestartHook(sink)
  /\ UNCHANGED <<sender, mimd, data, acks, scanning, have, faults>>

\* The scanner schedules itself again only while some flow is active.
ScannerStops ==
  /\ Running
  /\ scanning
  /\ ~sink.active
  /\ scanning' = FALSE
  /\ UNCHANGED <<sender, sink, mimd, data, acks, have, faults>>

\* metric_ack_timer_hook, called by its own scanner
MetricTimer ==
  /\ Running
  /\ sink.windowed
  /\ sink.active
  /\ sink.acked > 0
  /\ ~sink.metric
  /\ sink' = Sink!MetricHook(sink)
  /\ UNCHANGED <<sender, mimd, data, acks, scanning, have, faults>>

\* doNextEvent of the receiver
SinkEvent ==
  /\ Running
  /\ sink.pending \/ sink.metric
  /\ LET r == Sink!SinkEvent(sink)
     IN  sink' = r.sink /\ acks' = acks \o r.acks
  /\ UNCHANGED <<sender, mimd, data, scanning, have, faults>>

-----------------------------------------------------------------------------
(* Faults *)

LoseData(p) ==
  /\ ~Stopped
  /\ faults < MaxFaults[<<sender.perPath, sender.windowed>>]
  /\ data[p] # <<>>
  /\ data' = [data EXCEPT ![p] = Tail(@)]
  /\ faults' = faults + 1
  /\ UNCHANGED <<sender, sink, mimd, acks, scanning, have>>

LoseAck ==
  /\ ~Stopped
  /\ faults < MaxFaults[<<sender.perPath, sender.windowed>>]
  /\ acks # <<>>
  /\ acks' = Tail(acks)
  /\ faults' = faults + 1
  /\ UNCHANGED <<sender, sink, mimd, data, scanning, have>>

\* The flow is complete, or the program has stopped.
Over ==
  /\ ~Running
  /\ UNCHANGED vars

Next ==
  \/ SendEvent \/ ChainEnds \/ TimeoutEvent \/ SenderTimer \/ ReceiveAck
  \/ \E p \in Paths : ReceiveData(p) \/ LoseData(p)
  \/ SinkTimer \/ ScannerStops \/ MetricTimer \/ SinkEvent
  \/ LoseAck \/ Over

Spec == Init /\ [][Next]_vars

\* A packet reaches the end of its path.
Leaves(p) ==
  /\ ~Stopped
  /\ data[p] # <<>>
  /\ data' = [data EXCEPT ![p] = Tail(@)]

\* The event list runs every event that is scheduled and the network delivers
\* what it does not lose.
Fairness ==
  /\ WF_vars(SendEvent) /\ WF_vars(ChainEnds) /\ WF_vars(TimeoutEvent)
  /\ WF_vars(SenderTimer) /\ WF_vars(ReceiveAck)
  /\ \A p \in Paths : WF_data(Leaves(p))
  /\ WF_vars(SinkTimer) /\ WF_vars(ScannerStops)
  /\ WF_vars(MetricTimer) /\ WF_vars(SinkEvent)

FairSpec == Spec /\ Fairness

-----------------------------------------------------------------------------
Delivered(d) == Cardinality({p \in Paths : <<d, p>> \in have}) >= K

Unfinished(d) ==
  \E i \in DOMAIN sender.unfinished :
    d \in Range(sender.content[sender.unfinished[i].msn])

\* No stripe is forgotten (the lists that processECSACK, SACKTimeOut and
\* restartFlow renumber): as long as fewer than K of its packets have been
\* recorded, some message on the sender's list of unfinished messages stands
\* for it.  A finished flow is then delivered in full.
NothingForgotten ==
  sender.started /\ ~Stopped
    => \A d \in OriginalStripes : Delivered(d) \/ Unfinished(d)

\* The boundaries of the messages ascend, which complete_mbl relies on when it
\* takes as many entries off the head as it found ended anywhere in the list.
BoundariesAscend ==
  \A i, j \in DOMAIN sink.mbl : i < j => sink.mbl[i] <= sink.mbl[j]

\* The sender never finds data to send without an unfinished message, where
\* more_data_available aborts, and never pops its empty list of messages.
NeverFails == sender.failed = "no"

\* Without congestion control the sender goes on only from one event to the
\* next (doNextEvent): while it has something to send, one is scheduled.
SenderAwake ==
  Running /\ sender.started /\ HasData(sender) => sender.events > 0

\* As long as nothing was lost no timer runs out on either side: the answers
\* of the receiver alone keep the window open and complete the flow.
NoTimerWithoutLoss == faults = 0 => ~sender.pending /\ ~sink.pending

\* send_next_packet_ec sends all original messages first: when none is left
\* to send, and nothing was lost, a packet of every message that is unfinished
\* and no retransmission has arrived or is under way.
OriginalsFirst ==
  faults = 0 /\ Running /\ sender.started /\ ~SendsOriginal(sender)
    => \A i \in DOMAIN sender.unfinished :
         sender.unfinished[i].orig = None
           => \E d \in Range(sender.content[sender.unfinished[i].msn]), p \in Paths :
                \/ <<d, p>> \in have
                \/ \E n \in DOMAIN data[p] : data[p][n].data = d

\* Every flow finishes, whatever is lost within the bound.
FlowFinishes == <>(sender.finished)
=============================================================================
