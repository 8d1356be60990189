----------------------------- MODULE LosslessPfc -----------------------------
(***************************************************************************)
(* Priority flow control between two switches: LosslessOutputQueue         *)
(* (queue_lossless_output.cpp), LosslessInputQueue                         *)
(* (queue_lossless_input.cpp) and the wires between them.  A link leads    *)
(* from an output queue of another switch over a wire to an input queue of *)
(* this switch; the input queue only counts what the fabric and the output *)
(* queues of this switch hold on its behalf, and pauses and resumes the    *)
(* output queue at the other end.  What is below the output queues of this *)
(* switch pauses and resumes them at will.  Sizes are in packets.          *)
(***************************************************************************)
EXTENDS Integers, Sequences, FiniteSets

CONSTANTS
  Links,     \* the links into this switch, each an output queue elsewhere
  Outs,      \* the output queues of this switch
  High,      \* LosslessInputQueue::_high_threshold
  Low,       \* LosslessInputQueue::_low_threshold
  Slots,     \* packets a link can send in the latency of its wire
  Supply     \* bound, per link: packets that come to it

Queues == Links \cup Outs

(* The constructor asserts the first two. *)
ASSUME PfcAssumption ==
  /\ High \in Nat \ {0} /\ Low \in Nat
  /\ Low < High
  /\ Slots \in Nat \ {0}
  /\ Links \cap Outs = {}

ASSUME SupplyAssumption == Supply \in [Links -> Nat]

VARIABLES
  enqueued,    \* per output queue: _enqueued; the head is being sent if sending
  state_send,  \* per output queue: "ready", "paused" or "pause_received"
  sending,     \* per output queue: _sending
  wire,        \* per link: packets on the wire, oldest first
  fabric,      \* packets that cross this switch, oldest first
  frames,      \* per link: PAUSE (TRUE) and resume (FALSE) frames on the way back
  ages,        \* per link and frame: packets sent since the frame left
  queuesize,   \* per link: _queuesize of the input queue
  state_recv,  \* per link: the input queue has paused the other end
  supplied     \* per link: packets so far (bound only)

outputVars == <<enqueued, state_send, sending>>
inputVars  == <<queuesize, state_recv, frames, ages>>
vars == <<outputVars, wire, fabric, inputVars, supplied>>

(* A packet is the link it came over and the output queue it goes to. *)
Packet(l, o) == [link |-> l, out |-> o]

Init ==
  /\ enqueued = [q \in Queues |-> <<>>]
  /\ state_send = [q \in Queues |-> "ready"]
  /\ sending = [q \in Queues |-> FALSE]
  /\ wire = [l \in Links |-> <<>>] /\ fabric = <<>>
  /\ frames = [l \in Links |-> <<>>] /\ ages = [l \in Links |-> <<>>]
  /\ queuesize = [l \in Links |-> 0]
  /\ state_recv = [l \in Links |-> FALSE]
  /\ supplied = [l \in Links |-> 0]

-----------------------------------------------------------------------------
(* LosslessOutputQueue. *)

(* LosslessOutputQueue::receivePacket of a data packet *)
Enqueue(q, pkt) ==
  /\ enqueued' = [enqueued EXCEPT ![q] = Append(@, pkt)]
  /\ sending' = [sending EXCEPT
       ![q] = @ \/ (enqueued[q] = <<>> /\ state_send[q] = "ready")]
  /\ UNCHANGED state_send

(* A PAUSE that comes during the service of a packet is ignored. *)
ReceiveFrame_IgnoresBusy(q, pause) ==
  /\ state_send' = [state_send EXCEPT
       ![q] = IF pause /\ ~sending[q] THEN "paused" ELSE "ready"]
  /\ sending' = [sending EXCEPT
       ![q] = @ \/ (~pause /\ enqueued[q] # <<>>)]
  /\ UNCHANGED enqueued

(* A resume frame does not start the service of what is waiting. *)
ReceiveFrame_NoStart(q, pause) ==
  /\ state_send' = [state_send EXCEPT
       ![q] = IF ~pause THEN "ready" ELSE IF sending[q] THEN "pause_received" ELSE "paused"]
  /\ UNCHANGED <<enqueued, sending>>

(* LosslessOutputQueue::receivePacket of a PAUSE frame *)
ReceiveFrame(q, pause) ==
  /\ state_send' = [state_send EXCEPT
       ![q] = IF ~pause THEN "ready" ELSE IF sending[q] THEN "pause_received" ELSE "paused"]
  /\ sending' = [sending EXCEPT
       ![q] = @ \/ (~pause /\ enqueued[q] # <<>>)]
  /\ UNCHANGED enqueued

(* A queue that is paused while it sends goes on with the next packet. *)
CompleteService_SendsOn(q) ==
  /\ sending[q]
  /\ enqueued' = [enqueued EXCEPT ![q] = Tail(@)]
  /\ sending' = [sending EXCEPT ![q] = Len(enqueued[q]) > 1]
  /\ UNCHANGED state_send

(* LosslessOutputQueue::completeService *)
CompleteService(q) ==
  /\ sending[q]
  /\ enqueued' = [enqueued EXCEPT ![q] = Tail(@)]
  /\ state_send' = [state_send EXCEPT
       ![q] = IF @ = "pause_received" THEN "paused" ELSE @]
  /\ sending' = [sending EXCEPT
       ![q] = Len(enqueued[q]) > 1 /\ state_send[q] = "ready"]

-----------------------------------------------------------------------------
(* LosslessInputQueue. *)

(* LosslessInputQueue::sendPause *)
SendPause(l, pause) ==
  /\ frames' = [frames EXCEPT ![l] = Append(@, pause)]
  /\ ages' = [ages EXCEPT ![l] = Append(@, 0)]

(* LosslessInputQueue::receivePacket *)
CountIn(l) ==
  /\ queuesize' = [queuesize EXCEPT ![l] = @ + 1]
  /\ IF queuesize[l] + 1 > High /\ ~state_recv[l]
     THEN SendPause(l, TRUE) /\ state_recv' = [state_recv EXCEPT ![l] = TRUE]
     ELSE UNCHANGED <<state_recv, frames, ages>>

(* LosslessInputQueue::completedService *)
CountOut(l) ==
  /\ queuesize' = [queuesize EXCEPT ![l] = @ - 1]
  /\ IF queuesize[l] - 1 < Low /\ state_recv[l]
     THEN SendPause(l, FALSE) /\ state_recv' = [state_recv EXCEPT ![l] = FALSE]
     ELSE UNCHANGED <<state_recv, frames, ages>>

-----------------------------------------------------------------------------
(* Steps. *)

(* A packet comes to the other end of a link. *)
Arrive(l) ==
  /\ supplied[l] < Supply[l]
  /\ supplied' = [supplied EXCEPT ![l] = @ + 1]
  /\ \E o \in Outs : Enqueue(l, Packet(l, o))
  /\ UNCHANGED <<wire, fabric, inputVars>>

(* The other end finishes a packet.  Nothing stays on the wire, or on the    *)
(* way back, for longer than its latency: Slots more packets can be sent     *)
(* before it has arrived.                                                    *)
LinkSends(l) ==
  /\ CompleteService(l)
  /\ Len(wire[l]) < Slots
  /\ \A i \in 1..Len(ages[l]) : ages[l][i] < Slots
  /\ wire' = [wire EXCEPT ![l] = Append(@, Head(enqueued[l]))]
  /\ ages' = [ages EXCEPT ![l] = [i \in 1..Len(@) |-> @[i] + 1]]
  /\ UNCHANGED <<queuesize, state_recv, frames, fabric, supplied>>

(* A packet reaches this switch and enters its fabric. *)
LinkDelivers(l) ==
  /\ wire[l] # <<>>
  /\ wire' = [wire EXCEPT ![l] = Tail(@)]
  /\ CountIn(l)
  /\ fabric' = Append(fabric, Head(wire[l]))
  /\ UNCHANGED <<outputVars, supplied>>

(* A packet has crossed the fabric (the pipe of the switch). *)
Forward ==
  /\ fabric # <<>>
  /\ fabric' = Tail(fabric)
  /\ Enqueue(Head(fabric).out, Head(fabric))
  /\ UNCHANGED <<wire, inputVars, supplied>>

(* A frame reaches the other end of the link. *)
FrameArrives(l) ==
  /\ frames[l] # <<>>
  /\ frames' = [frames EXCEPT ![l] = Tail(@)]
  /\ ages' = [ages EXCEPT ![l] = Tail(@)]
  /\ ReceiveFrame(l, Head(frames[l]))
  /\ UNCHANGED <<wire, fabric, queuesize, state_recv, supplied>>

(* The packet is counted out where the newest of the queue came from: _vq is *)
(* taken from the end that it is put in at.                                  *)
OutSends_Newest(o) ==
  /\ CompleteService(o)
  /\ CountOut(enqueued[o][Len(enqueued[o])].link)
  /\ UNCHANGED <<wire, fabric, supplied>>

(* An output queue of this switch finishes a packet. *)
OutSends(o) ==
  /\ CompleteService(o)
  /\ CountOut(Head(enqueued[o]).link)
  /\ UNCHANGED <<wire, fabric, supplied>>

(* The next switch pauses an output queue, and resumes it. *)
OutIsPaused(o) ==
  /\ state_send[o] = "ready"
  /\ ReceiveFrame(o, TRUE)
  /\ UNCHANGED <<wire, fabric, inputVars, supplied>>

OutIsResumed(o) ==
  /\ state_send[o] # "ready"
  /\ ReceiveFrame(o, FALSE)
  /\ UNCHANGED <<wire, fabric, inputVars, supplied>>

Next ==
  \/ \E l \in Links : Arrive(l)
  \/ \E l \in Links : LinkSends(l)
  \/ \E l \in Links : LinkDelivers(l)
  \/ Forward
  \/ \E l \in Links : FrameArrives(l)
  \/ \E o \in Outs : OutSends(o)
  \/ \E o \in Outs : OutIsPaused(o)
  \/ \E o \in Outs : OutIsResumed(o)

Spec == Init /\ [][Next]_vars

(* Wires deliver, a packet in service is finished, and the next switch does *)
(* not pause for ever.                                                      *)
FairSpec ==
  /\ Spec /\ WF_vars(Forward)
  /\ \A l \in Links : /\ WF_vars(LinkSends(l)) /\ WF_vars(LinkDelivers(l))
                      /\ WF_vars(FrameArrives(l))
  /\ \A o \in Outs : WF_vars(OutSends(o)) /\ WF_vars(OutIsResumed(o))

-----------------------------------------------------------------------------
(* Properties. *)

Packets == [link : Links, out : Outs]

(* Queues hold packets, every frame has an age, and no input queue counts    *)
(* fewer than no packets (asserted in completedService).                     *)
TypeOK ==
  /\ enqueued \in [Queues -> Seq(Packets)]
  /\ state_send \in [Queues -> {"ready", "paused", "pause_received"}]
  /\ sending \in [Queues -> BOOLEAN]
  /\ wire \in [Links -> Seq(Packets)]
  /\ fabric \in Seq(Packets)
  /\ frames \in [Links -> Seq(BOOLEAN)] /\ ages \in [Links -> Seq(Nat)]
  /\ \A l \in Links : Len(frames[l]) = Len(ages[l])
  /\ queuesize \in [Links -> Nat]
  /\ state_recv \in [Links -> BOOLEAN]
  /\ supplied \in [Links -> Nat] /\ \A l \in Links : supplied[l] <= Supply[l]

(* An output queue sends exactly if it has a packet and is not paused, except *)
(* that a packet in service is finished after a PAUSE.  The assertions of     *)
(* beginService and completeService follow from it.                           *)
ServiceIsRight ==
  \A q \in Queues :
    /\ state_send[q] = "ready" => (sending[q] <=> enqueued[q] # <<>>)
    /\ state_send[q] = "pause_received" => sending[q] /\ enqueued[q] # <<>>
    /\ state_send[q] = "paused" => ~sending[q]

(* The two ends agree: the other end is paused as the last frame on the way  *)
(* to it says, or as the input queue wants it when no frame is on the way.   *)
EndsAgree ==
  \A l \in Links :
    IF frames[l] = <<>> THEN state_recv[l] <=> state_send[l] # "ready"
    ELSE state_recv[l] <=> frames[l][Len(frames[l])]

(* PAUSE and resume alternate on the way back, and the first of them is news *)
(* to the output queue: no frame is wasted.                                  *)
FramesAlternate ==
  \A l \in Links :
    /\ frames[l] # <<>> => (Head(frames[l]) <=> state_send[l] = "ready")
    /\ \A i \in 1..(Len(frames[l]) - 1) : frames[l][i] # frames[l][i + 1]

(* The other end is paused above the high and resumed below the low          *)
(* threshold, and nowhere between.                                           *)
Hysteresis ==
  \A l \in Links : IF state_recv[l] THEN queuesize[l] >= Low ELSE queuesize[l] <= High

(* The buffer an input queue needs above its threshold: the packet that      *)
(* crosses it, those on the wire, those sent while the PAUSE is on its way   *)
(* and the one in service when it arrives.                                   *)
Headroom == \A l \in Links : queuesize[l] <= High + 2 * Slots + 1

(* The places, in queues or in a fabric, of the packets that came over l. *)
Held(queues, l) ==
  {e \in UNION {{q} \X DOMAIN queues[q] : q \in DOMAIN queues} : queues[e[1]][e[2]].link = l}

(* An input queue counts exactly what this switch still has of its link, in   *)
(* the fabric and in all output queues: each packet is counted out once, by   *)
(* the queue that counted it in, so that the assertion of completedService    *)
(* holds and no link is paused for packets that have left.                    *)
CountIsExact ==
  \A l \in Links :
    queuesize[l] = Cardinality(Held([x \in {0} |-> fabric], l))
                     + Cardinality(Held([o \in Outs |-> enqueued[o]], l))

(* A packet that waits at the other end of a link leaves it, and a packet     *)
(* that is counted in leaves this switch, whatever is paused meanwhile.      *)
AllLeave ==
  \A l \in Links :
    enqueued[l] # <<>> \/ queuesize[l] > 0 ~> enqueued[l] = <<>> /\ queuesize[l] = 0
=============================================================================
