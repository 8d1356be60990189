--------------------------- MODULE LosslessQueue ---------------------------
(***************************************************************************)
(* LosslessQueue (queue_lossless.cpp): an output queue that can be paused  *)
(* by the switch at the other end of its link and that asks its own switch *)
(* to pause all the others when it fills up.  The queue is a record and    *)
(* each handler an operator on it; the composition compares "recv" before  *)
(* and after to see whether the switch is to send a pause or a resume.     *)
(* Sizes are packets.                                                      *)
(***************************************************************************)
EXTENDS Integers, SequencesExt

CONSTANTS
  MaxSize,    \* _maxsize
  High,       \* _high_threshold
  Low         \* _low_threshold

(* initThresholds asserts that high is above low, sets low to three packets *)
(* and leaves room above high for three packets of each port.               *)
ASSUME ThresholdAssumption ==
  /\ {MaxSize, High, Low} \subseteq Nat \ {0}
  /\ Low < High /\ High < MaxSize

EmptyQueue ==
  [packets |-> <<>>,      \* _enqueued; the head is in service if "sending"
   sending |-> FALSE,     \* _sending: its completion is scheduled
   send    |-> "READY",   \* _state_send
   recv    |-> "READY"]   \* _state_recv

(* isControlPacket: what is never dropped at random *)
Control(pk) == pk.type \in {"ACK", "NACK", "CNP"}

-----------------------------------------------------------------------------
(* receivePacket of a PAUSE frame *)
ReceivePause(q) ==
  [q EXCEPT !.send = IF q.sending THEN "PAUSE_RECEIVED" ELSE "PAUSED"]

(* receivePacket of a resume frame *)
ReceiveResume(q) ==
  [q EXCEPT !.send = "READY", !.sending = @ \/ q.packets # <<>>]

(* receivePacket of any other packet.  A queue that is full first drops its *)
(* newest packet; unless that is a control packet it then returns, so that  *)
(* the packet that came is lost as well.                                    *)
Full(q) == Len(q.packets) >= MaxSize

Kept(q) == IF Full(q) THEN Front(q.packets) ELSE q.packets

Receive(q, pk) ==
  IF Full(q) /\ ~Control(Last(q.packets))
  THEN [q EXCEPT !.packets = Kept(q)]
  ELSE [q EXCEPT !.packets = Append(Kept(q), pk),
                 !.recv = IF Len(Kept(q)) + 1 > High THEN "PAUSED" ELSE @,
                 !.sending = @ \/ (q.packets = <<>> /\ q.send = "READY")]

(* completeService, but for the packet, which moves on to the pipe *)
CompleteService(q) ==
  LET rest == Tail(q.packets)
      send == IF q.send = "PAUSE_RECEIVED" THEN "PAUSED" ELSE q.send
  IN [packets |-> rest,
      sending |-> rest # <<>> /\ send = "READY",
      send    |-> send,
      recv    |-> IF Len(rest) < Low THEN "READY" ELSE q.recv]
=============================================================================
