---------------------------- MODULE RoceNetwork ----------------------------
(***************************************************************************)
(* A RoCE flow through a switch of lossless queues.  The switch has a      *)
(* queue to each neighbour ("down"), and each neighbouring switch a queue  *)
(* towards it ("up"); Switch::sendPause calls the neighbours' queues       *)
(* directly.  The flow enters through the queue of its first switch, whose *)
(* host is never paused, and leaves behind the neighbour Target; its       *)
(* answers go the other way.  The host queue under the priority flow       *)
(* control of LosslessPfc is a component of its own: which of the two is   *)
(* followed is chosen in the initial state, since they share nothing.      *)
(***************************************************************************)
EXTENDS LosslessQueue, Roce

CONSTANTS
  Ports,          \* the neighbours of the switch
  Origin, Target, \* the flow comes from one and goes to the other
  Loads           \* what a behaviour is loaded with: the flow or not, and whether
                  \* a trigger starts it, the queues that other flows use, and
                  \* bounds on all that happens

Bounded == {"others",     \* packets of other flows that cross the switch
            "drops",      \* packets dropped at random (isDrop)
            "marks",      \* packets marked by decide_ECN
            "spurious",   \* timeouts while packets are still under way
            "silences",   \* pauses of our queues by the neighbours
            "hosted",     \* packets that come to the host queue
            "frames"}     \* PAUSE and resume frames that come to it

ASSUME PortsAssumption ==
  Origin \in Ports /\ Target \in Ports /\ Origin # Target

VARIABLES
  src, sink,
  down, up,       \* for each neighbour, the queue to it and its queue to us
  silenced,       \* the neighbours that have paused our queue to them
  scanning,       \* RoceSrcACKTimerScanner is scheduled
  trigger,        \* a trigger will still call RoceSrc::activate
  host,           \* the host queue
  load, counts    \* the load and the counters for its bounds

net == <<down, up>>
flow == <<src, sink, scanning, trigger>>
rest == <<host, load>>
vars == <<flow, net, silenced, counts, rest>>

H == INSTANCE HostQueue

Init ==
  /\ load \in Loads
  /\ counts = [b \in Bounded |-> 0]
  /\ trigger = load.triggered
  /\ src = InitSrc(load.flow /\ ~trigger)
  /\ sink = InitSink
  /\ down = [p \in Ports |-> EmptyQueue]
  /\ up = [p \in Ports |-> EmptyQueue]
  /\ silenced = {}
  /\ scanning = load.flow
  /\ \E fair \in BOOLEAN :
       /\ fair \/ load.bound.hosted > 0
       /\ host = H!EmptyHostQueue(fair)

Count(b) == counts[b] < load.bound[b] /\ counts' = [counts EXCEPT ![b] = @ + 1]

-----------------------------------------------------------------------------
(* The switch *)

\* The neighbour behind the full queue is paused as well.
SendPause_ToAll(queues, problem, pause) ==
  [p \in Ports |-> IF pause THEN ReceivePause(queues[p])
                   ELSE IF p = problem THEN queues[p]
                   ELSE ReceiveResume(queues[p])]

\* Switch::sendPause: PAUSE or resume frames to all the neighbours but that of
\* the queue which asks for it
SendPause(queues, problem, pause) ==
  [p \in Ports |-> IF p = problem THEN queues[p]
                   ELSE IF pause THEN ReceivePause(queues[p])
                   ELSE ReceiveResume(queues[p])]

\* The queues of the neighbours once down[p] has become q
Told(queues, p, q) ==
  IF q.recv = down[p].recv THEN queues
  ELSE SendPause(queues, p, q.recv = "PAUSED")

\* A packet reaches the queue to p: receivePacket.
Arrives(queues, p, pk) ==
  LET q == Receive(down[p], pk)
  IN  down' = [down EXCEPT ![p] = q] /\ up' = Told(queues, p, q)

\* The packets of one handler, two at the most, reach a neighbour's queue.
ReceiveAll(q, pks) ==
  CASE pks = <<>>    -> q
    [] Len(pks) = 1 -> Receive(q, pks[1])
    [] OTHER         -> Receive(Receive(q, pks[1]), pks[2])

OtherArrives(p) ==
  /\ p \in load.others
  /\ Count("others")
  /\ Arrives(up, p, [type |-> "OTHER"])
  /\ UNCHANGED <<flow, silenced, rest>>

\* The packet's way out of the switch
Exit(pk) == IF pk.type = "DATA" THEN Target ELSE Origin

\* A neighbour's queue completes the service of a packet, which decide_ECN may
\* mark, and the packet reaches the switch; isDrop may drop it there.
UpCompletes(p) ==
  LET pk == Head(up[p].packets)
      queues == [up EXCEPT ![p] = CompleteService(@)]
  IN /\ up[p].sending
     /\ \/ Arrives(queues, Exit(pk), pk) /\ UNCHANGED counts
        \/ /\ pk.type = "DATA"
           /\ Count("marks")
           /\ Arrives(queues, Exit(pk), [pk EXCEPT !.marked = TRUE])
        \/ /\ ~Control(pk)
           /\ Count("drops")
           /\ up' = queues
           /\ UNCHANGED down
     /\ UNCHANGED <<flow, silenced, rest>>

\* A queue of the switch completes the service of a packet.
DownCompletes(p) ==
  LET pk == Head(down[p].packets)
      q == CompleteService(down[p])
      got == ReceiveData(sink, pk)
  IN /\ down[p].sending
     /\ down' = [down EXCEPT ![p] = q]
     /\ IF pk.type = "DATA"
        THEN /\ sink' = [got EXCEPT !.out = <<>>]
             /\ up' = Told([up EXCEPT ![Target] = ReceiveAll(@, got.out)], p, q)
             /\ UNCHANGED src
        ELSE /\ up' = Told(up, p, q)
             /\ src' \in IF pk.type = "OTHER" THEN {src} ELSE ReceiveAnswer(src, pk)
             /\ UNCHANGED sink
     /\ UNCHANGED <<silenced, scanning, trigger, counts, rest>>

\* A neighbour's own queues pass their thresholds: it pauses and resumes us.
NeighbourPauses(p) ==
  /\ p \notin silenced
  /\ Count("silences")
  /\ silenced' = silenced \cup {p}
  /\ down' = [down EXCEPT ![p] = ReceivePause(@)]
  /\ UNCHANGED <<flow, up, rest>>

NeighbourResumes(p) ==
  /\ p \in silenced
  /\ silenced' = silenced \ {p}
  /\ down' = [down EXCEPT ![p] = ReceiveResume(@)]
  /\ UNCHANGED <<flow, up, counts, rest>>

-----------------------------------------------------------------------------
(* The flow *)

\* The spacing may pass at any time, also while packets are in service or wait
\* in the first queue: every speed of the source is covered, more than the code's.
SrcEvent(e) ==
  /\ e \in src.events
  /\ \E s \in DoNextEvent(src, e) :
       /\ src' = [s EXCEPT !.out = <<>>]
       /\ up' = [up EXCEPT ![Origin] = ReceiveAll(@, s.out)]
  /\ UNCHANGED <<sink, down, silenced, scanning, trigger, counts, rest>>

Elapse ==
  /\ ~src.elapsed /\ ~src.done
  /\ src' = [src EXCEPT !.elapsed = TRUE]
  /\ UNCHANGED <<sink, net, silenced, scanning, trigger, counts, rest>>

IntervalEnd ==
  /\ sink.recent
  /\ sink' = [IntervalEnds(sink) EXCEPT !.out = <<>>]
  /\ up' = [up EXCEPT ![Target] = ReceiveAll(@, IntervalEnds(sink).out)]
  /\ UNCHANGED <<src, down, silenced, scanning, trigger, counts, rest>>

FlowPackets ==
  {pk \in UNION {Range(q.packets) : q \in Range(up) \cup Range(down)} :
     pk.type # "OTHER"}

\* Nothing has come for the 60 ms of the timeout because nothing is under way
\* and the source has nothing to send.
Quiet ==
  /\ FlowPackets = {}
  /\ src.events \subseteq {"update"}
  /\ src.events = {} \/ src.highest = FlowSize

\* RoceSrcACKTimerScanner::doNextEvent, for a source whose timeout has passed
AckTimer ==
  /\ scanning
  /\ ~src.done /\ ~src.pending
  /\ IF Quiet THEN UNCHANGED counts ELSE Count("spurious")
  /\ src' = AckTimerHook(src)
  /\ UNCHANGED <<sink, net, silenced, scanning, trigger, rest>>

\* The scanner is not scheduled again once all its sources are done.
ScannerStops ==
  /\ scanning /\ src.done
  /\ scanning' = FALSE
  /\ UNCHANGED <<src, sink, net, silenced, trigger, counts, rest>>

\* RoceSrc::activate, called by the trigger of another flow at any time
Activate ==
  /\ trigger
  /\ trigger' = FALSE
  /\ src' = StartFlow(src)
  /\ UNCHANGED <<sink, net, silenced, scanning, counts, rest>>

-----------------------------------------------------------------------------
(* The host queue.  The input queue of the switch sends PAUSE and resume   *)
(* frames in turn, which reach the host in that order.                     *)

HostPacket(p) ==
  /\ Count("hosted")
  /\ host' = H!HostReceive(host, p)
  /\ UNCHANGED <<flow, net, silenced, load>>

HostFrame ==
  /\ Count("frames")
  /\ host' = IF counts.frames % 2 = 0 THEN H!HostPause(host) ELSE H!HostResume(host)
  /\ UNCHANGED <<flow, net, silenced, load>>

HostService ==
  /\ host.due > 0
  /\ host' = H!HostComplete(host)
  /\ UNCHANGED <<flow, net, silenced, counts, load>>

-----------------------------------------------------------------------------
Next ==
  \/ \E p \in Ports : \/ OtherArrives(p) \/ UpCompletes(p) \/ DownCompletes(p)
                      \/ NeighbourPauses(p) \/ NeighbourResumes(p)
  \/ \E e \in SrcEvents : SrcEvent(e)
  \/ Elapse \/ IntervalEnd \/ AckTimer \/ ScannerStops \/ Activate
  \/ \E p \in H!Priorities : HostPacket(p)
  \/ HostFrame \/ HostService

Spec == Init /\ [][Next]_vars

\* Every event of the event list comes, and a neighbour that pauses us resumes
\* us some time.
Fairness ==
  /\ \A p \in Ports : WF_vars(UpCompletes(p)) /\ WF_vars(DownCompletes(p))
  /\ \A p \in Ports : WF_vars(NeighbourResumes(p))
  /\ \A e \in SrcEvents : WF_vars(SrcEvent(e))
  /\ WF_vars(Elapse) /\ WF_vars(IntervalEnd) /\ WF_vars(AckTimer)

FairSpec == Spec /\ Fairness

-----------------------------------------------------------------------------
Queues == Range(up) \cup Range(down)

\* The constants bound what they are meant to bound: no queue holds more than
\* MaxSize packets and neither end runs past the flow.
TypeOK ==
  /\ src.events \subseteq SrcEvents
  /\ {src.highest, src.last, sink.cum} \subseteq 0 .. FlowSize
  /\ \A q \in Queues :
       Len(q.packets) <= MaxSize /\ q.send \in {"READY", "PAUSED", "PAUSE_RECEIVED"}

\* A lossless queue that may send and has a packet has a completion in the event
\* list, and a completion finds a packet and a queue that may send it.
LinkServes(q) ==
  /\ q.packets # <<>> /\ q.send = "READY" => q.sending
  /\ q.sending => q.packets # <<>> /\ q.send # "PAUSED"

\* So does a FairPriorityQueue, which has one completion in the event list while
\* a packet is in service and else none: one that came while it is PAUSED would be
\* ignored, and its packet never sent.
FairServes ==
  /\ H!Waiting(host) /\ host.send = "READY" => host.sending
  /\ host.sending => H!Waiting(host) /\ host.send # "PAUSED"
  /\ host.due = (IF host.sending THEN 1 ELSE 0)

\* Of a PriorityQueue only this holds: if it may send and has a packet, it has a
\* completion in the event list.  It may have more than one, and one that sends a
\* packet while it is PAUSED, although queue.cpp:340 says that it will do nothing.
PriorityGoesOn == H!Waiting(host) /\ host.send = "READY" => host.due > 0

HostServes == IF host.fair THEN FairServes ELSE PriorityGoesOn

\* No queue stops for good, however PAUSE and resume frames, packets and
\* completions are interleaved, and neither a lossless queue nor a
\* FairPriorityQueue is served twice over or while it is PAUSED
\* (queue_lossless.cpp:89 and :227, queue.cpp:431 and :489).  A PriorityQueue, which
\* begins a second service when it is resumed during one (queue.cpp:261), only
\* does not stop.
QueuesServe == (\A q \in Queues : LinkServes(q)) /\ HostServes

\* A neighbour is silent only while another queue of the switch than the one
\* towards it asks for that: sendPause (switch.cpp:17) skips the queue that asks,
\* on the pause and on the resume alike, and the queues ask independently.
NoneLeftSilenced ==
  \A p \in Ports :
    up[p].send # "READY" => \E o \in Ports \ {p} : down[o].recv = "PAUSED"

FinalAck == [type |-> "ACK", no |-> FlowSize, marked |-> FALSE]

Ended == sink.cum = FlowSize /\ (src.done \/ FinalAck \notin FlowPackets)

\* Every packet of the flow is received in the end, and the source learns of it
\* unless the last acknowledgement is lost or arrives before the flow is started
\* again: what queues drop on overflow (queue_lossless.cpp:157) or at random
\* comes again by a NACK or a timeout (roce.cpp:121 and :107).  The sink does
\* not answer an old packet, so that a source that misses the last
\* acknowledgement sends for ever.
FlowFinishes == load.flow => <>[]Ended
=============================================================================
