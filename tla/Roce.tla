-------------------------------- MODULE Roce --------------------------------
(***************************************************************************)
(* The two ends of a RoCE flow with DCQCN: DCQCNSrc over RoceSrc and       *)
(* DCQCNSink over RoceSink (roce.cpp, dcqcn.cpp).  Go-back-N: the receiver *)
(* acknowledges the packet it expects, answers a later one with a NACK and *)
(* ignores an earlier one.  Both ends are records and each handler an      *)
(* operator on one; packets to be sent are collected in the field "out".   *)
(*                                                                         *)
(* Of the time only this is kept: whether the packet spacing has passed    *)
(* since the last packet, and which events are in the event list.  Several *)
(* events that are due at once are one.                                    *)
(***************************************************************************)
EXTENDS Integers, Sequences, FiniteSetsExt

CONSTANT FlowSize   \* packets of the flow

ASSUME FlowAssumption == FlowSize \in Nat \ {0}

(* The events of the source: due now, at the end of the packet spacing, at *)
(* some other time soon, and after a _cc_update_period.                    *)
SrcEvents == {"now", "paced", "soon", "update"}

InitSrc(scheduled) ==
  [started |-> FALSE,      \* _flow_started
   highest |-> 0,          \* _highest_sent
   last    |-> 0,          \* _last_acked
   done    |-> FALSE,      \* _done
   pending |-> FALSE,      \* _ack_timeout_pending
   elapsed |-> TRUE,       \* now - _time_last_sent >= _packet_spacing
   events  |-> IF scheduled THEN {"now"} ELSE {},
   out     |-> <<>>]

Data(seq) == [type |-> "DATA", no |-> seq, marked |-> FALSE]

Schedule(s, e) == [s EXCEPT !.events = @ \cup {e}]

-----------------------------------------------------------------------------
(* RoceSrc::startflow, also what a trigger calls *)
StartFlow(s) ==
  Schedule([s EXCEPT !.started = TRUE, !.highest = 0, !.last = 0, !.done = FALSE], "now")

(* The timeout calls the source again, but does not go back. *)
AckTimeout_GoesOn(s) == Schedule([s EXCEPT !.pending = FALSE], "now")

(* RoceSrc::ACKTimeout *)
AckTimeout(s) ==
  Schedule([s EXCEPT !.pending = FALSE, !.highest = s.last], "now")

(* RoceSrc::send_packet, and the pacing event of doNextEvent.  An event for *)
(* the packet before, if there is still one, goes on.                       *)
SendPacket(s) ==
  [s EXCEPT !.highest = @ + 1, !.elapsed = FALSE,
            !.events = @ \cup {"paced"} \cup (IF "paced" \in @ THEN {"soon"} ELSE {}),
            !.out = Append(@, Data(s.highest + 1))]

(* RoceSrc::doNextEvent *)
RoceEvent(s) ==
  CASE s.pending                          -> AckTimeout(s)
    [] ~s.pending /\ ~s.started           -> StartFlow(s)
    [] ~s.pending /\ s.started /\ s.highest < FlowSize /\ s.elapsed -> SendPacket(s)
    [] OTHER                              -> s

(* DCQCNSrc::doNextEvent for one of the events.  When _cc_update_period has *)
(* passed since the last update another event follows a period later.       *)
DoNextEvent(s, e) ==
  LET now == [s EXCEPT !.events = @ \ {e},
                       !.elapsed = @ \/ e \in {"paced", "update"}]
      run == RoceEvent(now)
  IN IF s.done THEN {now}
     ELSE {Schedule(run, "update")} \cup (IF e = "update" THEN {} ELSE {run})

-----------------------------------------------------------------------------
(* RoceSrc::processNack *)
ProcessNack(s, ackno) ==
  Schedule([s EXCEPT !.last = ackno, !.highest = ackno], "now")

(* EventList::cancelPendingSource: the earliest event only *)
CancelFirst(s) ==
  IF s.events = {} THEN {s}
  ELSE IF "now" \in s.events THEN {[s EXCEPT !.events = @ \ {"now"}]}
  ELSE {[s EXCEPT !.events = @ \ {e}] : e \in s.events}

(* RoceSrc::processAck *)
ProcessAck(s, ackno) ==
  LET acked == [s EXCEPT !.last = Max({@, ackno})]
  IN IF ackno >= FlowSize THEN CancelFirst([acked EXCEPT !.done = TRUE])
     ELSE {acked}

(* DCQCNSrc::processCNP: the spacing grows, so that the pacing event comes *)
(* before its end; the next event of the source is a period away.          *)
ProcessCnp(s) ==
  Schedule([s EXCEPT
    !.elapsed = FALSE,
    !.events = IF "paced" \in @ THEN (@ \ {"paced"}) \cup {"soon"} ELSE @], "update")

(* DCQCNSrc::receivePacket *)
ReceiveAnswer(s, pk) ==
  CASE s.done                          -> {s}
    [] ~s.done /\ pk.type = "ACK"      -> ProcessAck(s, pk.no)
    [] ~s.done /\ pk.type = "NACK"     -> {ProcessNack(s, pk.no)}
    [] ~s.done /\ pk.type = "CNP"      -> {ProcessCnp(s)}

(* RoceSrc::ack_timer_hook, once the timeout has passed.  Whatever event of *)
(* the source comes next sees _ack_timeout_pending.                         *)
AckTimerHook(s) ==
  IF s.done \/ s.pending THEN s
  ELSE Schedule([s EXCEPT !.pending = TRUE], "soon")

-----------------------------------------------------------------------------
InitSink ==
  [cum    |-> 0,        \* _cumulative_ack
   recent |-> FALSE,    \* less than _cnp_interval since the last CNP, and an
                        \* event at its end
   marked |-> 0,        \* _marked_packets_since_last_cnp
   out    |-> <<>>]

Answer(k, type) ==
  [k EXCEPT !.out = Append(@, [type |-> type, no |-> k.cum, marked |-> FALSE])]

(* DCQCNSink::send_cnp *)
SendCnp(k) == [Answer(k, "CNP") EXCEPT !.recent = TRUE, !.marked = 0]

(* RoceSink::receivePacket *)
RoceReceive(k, seq) ==
  CASE seq = k.cum + 1 -> Answer([k EXCEPT !.cum = seq], "ACK")
    [] seq > k.cum + 1 -> Answer(k, "NACK")
    [] OTHER           -> k

(* DCQCNSink::receivePacket *)
ReceiveData(k, pk) ==
  LET got == RoceReceive(k, pk.no)
  IN CASE ~pk.marked             -> got
       [] pk.marked /\ ~k.recent -> SendCnp(got)
       [] pk.marked /\ k.recent  -> [got EXCEPT !.marked = @ + 1]

(* DCQCNSink::doNextEvent at the end of the interval *)
IntervalEnds(k) ==
  IF k.marked > 0 THEN SendCnp(k) ELSE [k EXCEPT !.recent = FALSE]
=============================================================================
