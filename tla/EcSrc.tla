------------------------------- MODULE EcSrc -------------------------------
(***************************************************************************)
(* The sender of the erasure-coded transports (msft_ai/kec_cc.cpp,         *)
(* kecbr.cpp and their single-bitmap twins 1ec_cc.cpp and 1ecbr.cpp).  A    *)
(* flow is cut into messages of Stripes stripes; a stripe is K data and M  *)
(* parity packets, one for each path.  The handlers are operators from the *)
(* sender's state, a record, to its next state; EcTransport turns them     *)
(* into actions.  A packet is one unit of the window.                      *)
(***************************************************************************)
EXTENDS Integers, Sequences, FiniteSets, SequencesExt

CONSTANTS
  Messages,      \* number_of_messages: messages of the flow
  Stripes,       \* get_stripe_num(): stripes of a message
  K, M,          \* data and parity packets of a stripe
  Windows,       \* the congestion windows that can occur and the first one
  StartWindow    \* (_bdp * starting_cwnd_bdp_ratio), for each twin (perPath)

ASSUME EcAssumption ==
  /\ {Messages, Stripes, K, M} \subseteq Nat \ {0}
  /\ \A b \in BOOLEAN : /\ Windows[b] \subseteq {w \in Nat : w >= K + M}
                        /\ StartWindow[b] \in Windows[b]

Chunk == K + M
Paths == 0 .. Chunk - 1

None    == -1  \* 0xFFFFFFFF: the message is not a retransmission
Unknown == -2  \* a variable that was read before it was set

\* What the flow has to deliver: the stripes of its messages.
OriginalStripes == 0 .. Messages * Stripes - 1

\* The sender before its first event.  `content` is not in the code: it
\* records which original stripes the stripes of a message number stand for.
\* `erased` is the last number taken off the list of unfinished messages.
\* The two twins with congestion control differ: only kec_cc
\* takes the packets of a stripe off the window on a SACK, and only it resets
\* the window on a NACK.
InitSender(perPath, windowed) ==
  [ perPath    |-> perPath,    \* a bitmap for each path (kec_cc, kecbr)
    windowed   |-> windowed,   \* with congestion control (kec_cc, 1ec_cc)
    started    |-> FALSE,      \* _flow_started
    finished   |-> FALSE,      \* _flow_finished
    pending    |-> FALSE,      \* _restart_timeout_pending
    failed     |-> "no",       \* how the program stopped, if it did
    events     |-> 1,          \* its own events in the event list
    messages   |-> <<>>,       \* message_list
    original   |-> <<>>,       \* original_packet_list: the next packet
    sacks      |-> <<>>,       \* received_msg_sacks: [msn, num]
    retrans    |-> <<>>,       \* retransmission_packet_list
    unfinished |-> <<>>,       \* unfinished_message_list: [msn, orig, num]
    nextRetrans |-> 0,         \* _next_retrans_msn
    unacked    |-> 0,          \* _unacked
    cwnd       |-> StartWindow[perPath], \* _cwnd
    erased     |-> 0,
    content    |-> <<>> ]

StartFlow(s) ==
  IF s.started THEN s
  ELSE [s EXCEPT
         !.started     = TRUE,
         !.messages    = [i \in 1 .. Messages |-> i - 1],
         !.unfinished  = [i \in 1 .. Messages |->
                            [msn |-> i - 1, orig |-> None, num |-> Stripes]],
         !.original    = <<[msn |-> 0, stripe |-> 0, pkt |-> 0]>>,
         !.nextRetrans = Messages,
         !.content     = [m \in 0 .. Messages - 1 |->
                            [i \in 1 .. Stripes |-> m * Stripes + i - 1]]]

-----------------------------------------------------------------------------
(* Sending *)

WindowOpen(s) == s.windowed => s.unacked + Chunk <= s.cwnd

\* more_data_available, without its abort
HasData(s) == s.messages # <<>> \/ s.sacks # <<>>

\* The place of the next original packet.  The list of messages is popped
\* although a SACK or a timeout may have taken the message off it already;
\* popping the empty list is undefined and ends the behaviour.
UpdateOffsets(s, cur) ==
  IF cur.pkt + 1 < Chunk
  THEN [s EXCEPT !.original = <<[cur EXCEPT !.pkt = @ + 1]>>]
  ELSE IF cur.stripe + 1 < Stripes
  THEN [s EXCEPT !.original = <<[cur EXCEPT !.stripe = @ + 1, !.pkt = 0]>>]
  ELSE IF s.messages = <<>>
  THEN [s EXCEPT !.failed = "pop_front of an empty list"]
  ELSE LET rest == Tail(s.messages)
       IN  [s EXCEPT !.messages = rest,
                     !.original = IF rest = <<>> THEN <<>>
                                  ELSE <<[msn |-> Head(rest), stripe |-> 0, pkt |-> 0]>>]

\* The place of the next retransmitted packet.  All but the first packet of
\* a message are numbered by nextRetrans, not by the entry of the list.
UpdateRetransOffsets(s, cur) ==
  IF cur.pkt + 1 < Chunk
  THEN [s EXCEPT !.retrans = <<[cur EXCEPT !.msn = s.nextRetrans, !.pkt = @ + 1]>>]
  ELSE IF cur.stripe + 1 < cur.num
  THEN [s EXCEPT !.retrans = <<[cur EXCEPT !.msn = s.nextRetrans,
                                           !.stripe = @ + 1, !.pkt = 0]>>]
  ELSE LET rest == Tail(s.sacks)
       IN  IF rest = <<>>
           THEN [s EXCEPT !.sacks = rest, !.retrans = <<>>, !.nextRetrans = @ + 1]
           ELSE [s EXCEPT !.sacks = rest, !.nextRetrans = Head(rest).msn,
                          !.retrans = <<[msn |-> Head(rest).msn, stripe |-> 0,
                                         pkt |-> 0, num |-> Head(rest).num]>>]

\* send_next_packet_ec chooses an original packet while there are any.
SendsOriginal(s) == s.original # <<>> \/ s.messages # <<>>

NextOriginal(s) ==
  IF s.original # <<>> THEN Head(s.original)
  ELSE [msn |-> Head(s.messages), stripe |-> 0, pkt |-> 0]

NextRetransmission(s) ==
  IF s.retrans # <<>> THEN Head(s.retrans)
  ELSE [msn |-> Head(s.sacks).msn, stripe |-> 0, pkt |-> 0,
        num |-> Head(s.sacks).num]

\* The original stripe that a stripe of a message number stands for.
Carries(s, msn, stripe) ==
  IF msn \in DOMAIN s.content /\ stripe < Len(s.content[msn])
  THEN s.content[msn][stripe + 1] ELSE None

\* send_packet_ec: the packet that goes out.  `num` is the number of stripes
\* that its message has (last_psn_in_msg).
PacketOf(s, cur, num) ==
  [msn |-> cur.msn, stripe |-> cur.stripe, path |-> cur.pkt, num |-> num,
   data |-> Carries(s, cur.msn, cur.stripe)]

NextPacket(s) ==
  IF SendsOriginal(s) THEN PacketOf(s, NextOriginal(s), Stripes)
  ELSE PacketOf(s, NextRetransmission(s), NextRetransmission(s).num)

Count(s, packets) == IF s.windowed THEN [s EXCEPT !.unacked = @ + packets] ELSE s

SendNextPacket(s) ==
  IF SendsOriginal(s) THEN UpdateOffsets(Count(s, 1), NextOriginal(s))
  ELSE UpdateRetransOffsets(Count(s, 1), NextRetransmission(s))

-----------------------------------------------------------------------------
(* Answers and timeouts *)

ReduceUnackedIfMore(s, packets) ==
  IF s.windowed /\ s.unacked > packets THEN [s EXCEPT !.unacked = @ - packets] ELSE s
ReduceUnacked(s, packets) ==
  IF s.windowed THEN [s EXCEPT !.unacked = IF @ >= packets THEN @ - packets ELSE 0]
  ELSE s

ScheduleForgotten(s) == s
Schedule(s) == IF s.windowed THEN s ELSE [s EXCEPT !.events = @ + 1]

\* finish_flow takes one of the sender's events off the event list.
FinishFlow(s) ==
  IF s.finished THEN s
  ELSE [s EXCEPT !.finished = TRUE,
                 !.events = IF s.windowed \/ @ = 0 THEN @ ELSE @ - 1]

\* The messages a list still holds, without the first one with this number.
Without(list, msn) ==
  LET i == SelectInSeq(list, LAMBDA e : e.msn = msn)
  IN  IF i = 0 THEN list ELSE RemoveAt(list, i)

HasMsn(list, msn) == SelectInSeq(list, LAMBDA e : e.msn = msn) # 0

\* The number of the last unfinished message.  The code reads it also when
\* the list is empty: it then gets the number of an entry erased before.
BackMsns(s) ==
  IF s.unfinished # <<>> THEN {Last(s.unfinished).msn} ELSE 0 .. s.erased

\* Queue a retransmission of `num` stripes under the number after `back`; an
\* event is scheduled if nothing was left to send.
AddRetransmission(s, back, orig, num, stripes) ==
  LET new    == back + 1
      queued == [s EXCEPT
                  !.sacks      = Append(@, [msn |-> new, num |-> num]),
                  !.unfinished = Append(@, [msn |-> new, orig |-> orig, num |-> num]),
                  !.content    = [m \in DOMAIN @ \cup {new} |->
                                    IF m = new THEN stripes ELSE @[m]]]
  IN  IF HasData(s) THEN queued ELSE Schedule(queued)

EraseMessagePopsFront(s, msn) ==
  [s EXCEPT !.unfinished = Without(@, msn),
            !.messages   = IF @ = <<>> THEN @ ELSE Tail(@),
            !.sacks      = Without(@, msn),
            !.erased     = msn]
EraseMessage(s, msn) ==
  [s EXCEPT !.unfinished = Without(@, msn),
            !.messages   = RemoveFirst(@, msn),
            !.sacks      = Without(@, msn),
            !.erased     = msn]

\* processECSACK, as the set of its outcomes.  pk.missing lists the stripes
\* of the message, by their offsets, that the receiver has given up.
ProcessSack(s, pk) ==
  LET reduced == IF s.perPath THEN ReduceUnacked(s, Chunk) ELSE s
      known   == IF HasMsn(s.unfinished, pk.msn)
                 THEN EraseMessage(reduced, pk.msn) ELSE reduced
      stripes == [i \in 1 .. Len(pk.missing) |-> Carries(s, pk.msn, pk.missing[i])]
      after   == IF pk.missing = <<>> THEN {known}
                 ELSE {AddRetransmission(known, back, pk.msn, Len(pk.missing), stripes)
                         : back \in BackMsns(known)}
  IN  {IF n.unfinished = <<>> /\ ~HasData(n) THEN FinishFlow(n) ELSE n : n \in after}

\* restartFlow, on a NACK: every unfinished message is sent again in full and
\* all of them are numbered from 0.
RestartFlow(s) ==
  IF s.unfinished = <<>>
  THEN IF HasData(s) THEN s ELSE FinishFlow(s)
  ELSE LET n == Len(s.unfinished)
       IN  Schedule(
             [s EXCEPT
               !.unfinished  = [i \in 1 .. n |-> [msn |-> i - 1, orig |-> None,
                                                  num |-> s.unfinished[i].num]],
               !.messages    = [i \in 1 .. n |-> i - 1],
               !.content     = [m \in 0 .. n - 1 |->
                                  s.content[s.unfinished[m + 1].msn]],
               !.original    = <<[msn |-> 0, stripe |-> 0, pkt |-> 0]>>,
               !.retrans     = <<>>,
               !.sacks       = <<>>,
               !.nextRetrans = n,
               !.unacked     = 0,
               !.cwnd        = IF s.perPath THEN StartWindow[TRUE] ELSE @])

\* Where SACKTimeOut may find the list entry of the message that the timed-out
\* one retransmits.  It looks for the number of the original message, which
\* may never have been set.
TimeoutMatches(s, front) ==
  IF front.orig = None THEN {0}
  ELSE IF front.orig = Unknown THEN 0 .. Len(s.sacks)
  ELSE {SelectInSeq(s.sacks, LAMBDA e : e.msn = front.orig)}

\* SACKTimeOut takes the first unfinished message off the lists.
DropFirst(s) ==
  LET msn == Head(s.unfinished).msn
  IN  [s EXCEPT !.unfinished = Tail(@), !.erased = msn,
                !.messages = RemoveFirst(@, msn)]

\* It queues that message, or what the list entry at `match` asks for, under
\* the number after `back`.
TimeoutOutcome(s, match, back) ==
  LET front   == Head(s.unfinished)
      inList  == Contains(s.messages, front.msn)
      num     == IF match # 0 THEN s.sacks[match].num
                 ELSE IF inList THEN Stripes ELSE front.num
      label   == IF match # 0 \/ inList THEN front.msn ELSE Unknown
      stripes == s.content[IF match # 0 THEN s.sacks[match].msn ELSE front.msn]
      taken   == IF match = 0 THEN DropFirst(s)
                 ELSE [DropFirst(s) EXCEPT !.sacks = RemoveAt(@, match)]
  IN  ReduceUnacked(AddRetransmission(taken, back, label, num, stripes), num * Chunk)

\* SACKTimeOut, as the set of its outcomes: the first unfinished message is
\* queued for retransmission as if a SACK had reported all of it missing.
SackTimeout(s) ==
  IF s.unfinished = <<>> THEN {s}
  ELSE {TimeoutOutcome(s, match, back) :
          match \in TimeoutMatches(s, Head(s.unfinished)),
          back \in BackMsns(DropFirst(s))}

\* processECMetricACK, as the set of its outcomes: the bytes acknowledged
\* leave the window and the window moves.  The multiplicative controller also
\* forgets what is in flight (reset_unacked).
AdjustWindowMimd(s) ==
  {s} \cup {[s EXCEPT !.cwnd = w, !.unacked = 0] : w \in Windows[s.perPath]}
AdjustWindowAimd(s) ==
  IF s.finished THEN {s} ELSE {[s EXCEPT !.cwnd = w] : w \in Windows[s.perPath]}
ProcessMetricAck(s, mimd, acked) ==
  LET reduced == ReduceUnacked(s, acked)
  IN  IF mimd THEN AdjustWindowMimd(reduced) ELSE AdjustWindowAimd(reduced)
=============================================================================
