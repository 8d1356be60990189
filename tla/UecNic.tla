------------------------------- MODULE UecNic -------------------------------
(***************************************************************************)
(* UecNIC (uec_nic.cpp) and the part of the UecSrcs of a host that talks   *)
(* to it.  Sources that find no free port wait in a list and are called    *)
(* back in turn; ACKs, NACKs, pulls and RTSs wait in a control queue; the  *)
(* two share the ports in a fixed ratio.  Of a source only the number of   *)
(* packets is kept that its queues hold and its window admits.  Ports are  *)
(* alike, so only the number of busy ones is kept.                         *)
(***************************************************************************)
EXTENDS Integers, Sequences

CONSTANTS
  Srcs,          \* the UecSrcs of the host
  Ports,         \* _no_of_ports
  RatioData,     \* _ratio_data
  RatioControl,  \* _ratio_control
  MaxWant,       \* bound on the packets a source may send
  MaxControl,    \* bound on the control packets waiting
  MaxRtos        \* bound on the expiries of retransmission timers

ASSUME UecNicAssumption ==
  /\ Ports \in Nat \ {0}
  /\ RatioData \in Nat \ {0} /\ RatioControl \in Nat \ {0}
  /\ MaxWant \in Nat /\ MaxControl \in Nat /\ MaxRtos \in Nat
  /\ "control" \notin Srcs /\ "nobody" \notin Srcs

VARIABLES
  busy,      \* _busy_ports
  active,    \* _active_srcs, whose length is _num_queued_srcs
  control,   \* length of _control
  crt,       \* _crt
  want,      \* per source: packets queued that the window admits
  blocked,   \* per source: _send_blocked_on_nic
  sent,      \* sources that have sent a packet, and may have armed a timer
  aborted,   \* an assertion failed or an exception was thrown
  last,      \* who got the port that became free last
  streak,    \* data (> 0) or control (< 0) turns in a row with both waiting
  rtos       \* expiries of timers so far (bound only)

nicVars == <<busy, active, control, crt>>
vars == <<nicVars, want, blocked, sent, aborted, last, streak, rtos>>

Queued(s, list) == \E i \in 1..Len(list) : list[i] = s
Least(S) == CHOOSE i \in S : \A j \in S : i <= j
Smaller(a, b) == IF a <= b THEN a ELSE b

Init ==
  /\ busy = 0 /\ active = <<>> /\ control = 0 /\ crt = 0
  /\ want = [s \in Srcs |-> 0] /\ blocked = [s \in Srcs |-> FALSE]
  /\ sent = {} /\ aborted = FALSE /\ last = "nobody" /\ streak = 0 /\ rtos = 0

-----------------------------------------------------------------------------
(* Sources. *)

(* How many of the w packets UecSrc::sendIfPermitted sends at once: as many *)
(* as there are free ports, unless the source waits already.                *)
SendsNow(s, w) == IF blocked[s] THEN 0 ELSE Smaller(w, Ports - busy)

(* UecNIC::requestSending asserts that no control packet waits when a port   *)
(* is free, UecNIC::startSending that no source does (WorkConserving says    *)
(* that the list is empty then, so that the pop of its head is left out).    *)
RequestFails == control > 0 \/ active # <<>>

(* The source with w packets to send calls sendIfPermitted, which sends as   *)
(* many as it can and asks the NIC to be called back for the rest.           *)
SendIfPermitted(s, w) ==
  LET k == SendsNow(s, w)
  IN /\ want' = [want EXCEPT ![s] = w - k]
     /\ busy' = busy + k
     /\ blocked' = [blocked EXCEPT ![s] = @ \/ w > k]
     /\ active' = IF w > k /\ ~blocked[s] THEN Append(active, s) ELSE active
     /\ aborted' = (aborted \/ (k > 0 /\ RequestFails))
     /\ sent' = IF k > 0 THEN sent \cup {s} ELSE sent
     /\ UNCHANGED <<control, crt, last, streak>>

(* A source that has no port to send on does not ask to be called back. *)
WindowMoves_NotQueued(s) ==
  /\ \E w \in 0..MaxWant :
       LET k == SendsNow(s, w)
       IN /\ want' = [want EXCEPT ![s] = w - k]
          /\ busy' = busy + k
          /\ aborted' = (aborted \/ (k > 0 /\ RequestFails))
          /\ sent' = IF k > 0 THEN sent \cup {s} ELSE sent
          /\ UNCHANGED <<active, blocked, control, crt, last, streak>>
  /\ UNCHANGED rtos

(* An ACK or a NACK moves the window, or new data comes. *)
WindowMoves(s) ==
  /\ \E w \in 0..MaxWant : SendIfPermitted(s, w)
  /\ UNCHANGED rtos

(* UecSrc::rtxTimerExpired with an empty retransmission queue.  The packet   *)
(* that timed out is one of the w.  When sendIfPermitted returns and the     *)
(* window is open for a packet of this size, the source asks the NIC again   *)
(* and sends the head of the retransmission queue if it gets a port.  The    *)
(* assertion of sendRtxPacket fails if the packet has been sent.             *)
RtxTimerExpired(s) ==
  /\ s \in sent /\ rtos < MaxRtos
  /\ rtos' = rtos + 1
  /\ \E w \in 0..MaxWant, open \in BOOLEAN :
       LET k == SendsNow(s, w)
           requests == (IF w > k /\ ~blocked[s] THEN 1 ELSE 0)
                       + (IF open /\ busy + k = Ports THEN 1 ELSE 0)
       IN /\ (w = 0 => ~open) /\ (w > k => open)
          /\ want' = [want EXCEPT ![s] = w - k]
          /\ busy' = busy + k
          /\ blocked' = [blocked EXCEPT ![s] = @ \/ w > k]
          /\ active' = active \o [i \in 1..requests |-> s]
          /\ aborted' = (aborted \/ (k > 0 /\ RequestFails)
                                 \/ (open /\ busy + k < Ports))
          /\ UNCHANGED <<sent, control, crt, last, streak>>

-----------------------------------------------------------------------------
(* Control packets. *)

(* The packet always goes through the queue. *)
SendControlPacket_Queues ==
  /\ control < MaxControl
  /\ control' = control + 1
  /\ UNCHANGED <<busy, active, crt, want, blocked, sent, aborted, last, streak, rtos>>

(* UecNIC::sendControlPacket *)
SendControlPacket ==
  /\ \/ busy < Ports /\ busy' = busy + 1 /\ UNCHANGED control
     \/ busy = Ports /\ control < MaxControl /\ control' = control + 1 /\ UNCHANGED busy
  /\ UNCHANGED <<active, crt, want, blocked, sent, aborted, last, streak, rtos>>

-----------------------------------------------------------------------------
(* A port becomes free. *)

BothWait == active # <<>> /\ control > 0
Ready == {i \in 1..Len(active) : want[active[i]] > 0}
FirstReady == Least(Ready)

(* The streak after a turn of either class; it counts to one past the share. *)
AfterControl ==
  IF ~BothWait THEN 0
  ELSE IF streak >= 0 THEN -1
  ELSE IF streak >= -RatioControl THEN streak - 1 ELSE streak
AfterData ==
  IF ~BothWait THEN 0
  ELSE IF streak <= 0 THEN 1
  ELSE IF streak <= RatioData THEN streak + 1 ELSE streak

(* UecNIC::sendControlPktNow on the port that became free *)
ControlTurn ==
  /\ control' = control - 1
  /\ last' = "control"
  /\ streak' = AfterControl
  /\ UNCHANGED <<busy, active, want, blocked, sent, aborted>>

(* UecSrc::timeToSend of the first source that can send; UecNIC::cantSend   *)
(* removes the ones before it.  A source that has more to send queues up     *)
(* again, and throws an exception if the NIC has a port for it.              *)
DataTurn ==
  LET i == FirstReady
      s == active[i]
      more == want[s] > 1
      rest == SubSeq(active, i + 1, Len(active))
      asked == {active[j] : j \in 1..i}
  IN /\ active' = IF more THEN Append(rest, s) ELSE rest
     /\ want' = [want EXCEPT ![s] = @ - 1]
     /\ blocked' = [x \in Srcs |-> IF x \in asked THEN x = s /\ more ELSE blocked[x]]
     /\ aborted' = (aborted \/ (more /\ busy < Ports))
     /\ last' = s
     /\ streak' = AfterData
     /\ sent' = sent \cup {s}
     /\ UNCHANGED <<busy, control>>

(* Every waiting source has called cantSend; a control packet gets the port. *)
NobodyReady ==
  /\ active' = <<>>
  /\ blocked' = [s \in Srcs |-> blocked[s] /\ ~Queued(s, active)]
  /\ control' = IF control > 0 THEN control - 1 ELSE 0
  /\ busy' = IF control > 0 THEN busy ELSE busy - 1
  /\ last' = IF control > 0 THEN "control" ELSE "nobody"
  /\ streak' = 0
  /\ UNCHANGED <<want, sent, aborted>>

NextTurn(c) == (c + 1) % (RatioControl + RatioData)

(* A turn too many for the sources, or one of the two always first. *)
IsControlTurn_OffByOne(c) == c > RatioData
IsControlTurn_Never(c) == FALSE
IsControlTurn_Always(c) == TRUE
IsControlTurn(c) == c >= RatioData

(* UecNIC::doNextEvent *)
PortIsFreed ==
  LET next == NextTurn(crt)
      turn == control > 0 /\ (active = <<>> \/ IsControlTurn(next))
  IN /\ busy > 0
     /\ crt' = IF BothWait THEN next ELSE crt
     /\ \/ turn /\ ControlTurn
        \/ ~turn /\ Ready # {} /\ DataTurn
        \/ ~turn /\ Ready = {} /\ NobodyReady
     /\ UNCHANGED rtos

Next ==
  \/ \E s \in Srcs : WindowMoves(s)
  \/ \E s \in Srcs : RtxTimerExpired(s)
  \/ SendControlPacket
  \/ PortIsFreed

Spec == Init /\ [][Next]_vars

(* A packet on a port is eventually sent. *)
FairSpec == Spec /\ WF_vars(PortIsFreed)

-----------------------------------------------------------------------------
(* Properties. *)

(* The queues hold sources and the counters stay within their bounds; the   *)
(* round-robin counter stays below the sum of the ratios.                    *)
TypeOK ==
  /\ busy \in 0..Ports
  /\ active \in Seq(Srcs)
  /\ control \in Nat
  /\ crt \in 0..(RatioControl + RatioData - 1)
  /\ want \in [Srcs -> Nat]
  /\ blocked \in [Srcs -> BOOLEAN] /\ sent \subseteq Srcs
  /\ aborted \in BOOLEAN
  /\ last \in Srcs \cup {"control", "nobody"}
  /\ streak \in Int /\ rtos \in Nat

(* No port is free while a source or a control packet waits: nothing else   *)
(* would wake the NIC up.                                                    *)
WorkConserving == busy < Ports => active = <<>> /\ control = 0

(* A source that has a packet to send, and one that believes it waits for   *)
(* the NIC, is in the list of the NIC: nobody waits for a call that never    *)
(* comes.                                                                    *)
WaitingIsQueued ==
  \A s \in Srcs : want[s] > 0 \/ blocked[s] => Queued(s, active)

(* No assertion of the NIC and of the calls of the sources to it fails.      *)
NoAbort == ~aborted

(* While both wait, at most RatioControl control packets go before a source  *)
(* has its turn, and at most RatioData sources before a control packet.      *)
SharesArePaid == 0 - RatioControl <= streak /\ streak <= RatioData

(* Every source that waits with a packet is called back and sends, or its    *)
(* window closes, however many other sources and control packets compete.    *)
SourceIsCalled ==
  \A s \in Srcs : want[s] > 0 ~> (last = s \/ want[s] = 0)

(* Every control packet queue makes progress, however many sources compete.  *)
ControlIsSent == control > 0 ~> last = "control"

(* uec_src.cpp:3010 asserts that the retransmission queue is not empty when  *)
(* the head of it is sent.                                                   *)
RtxQueueNotEmpty == ~aborted
=============================================================================
