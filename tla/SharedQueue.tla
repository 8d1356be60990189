----------------------------- MODULE SharedQueue -----------------------------
(***************************************************************************)
(* The output ports of a switch with a shared buffer: SharedQueue          *)
(* (shared_queue.cpp), the DwrrQosScheduler of each port                   *)
(* (qos_scheduler.cpp) and the SwitchBuffer all of them use                *)
(* (switch_buffer.cpp).  A packet is admitted if its class does not hold   *)
(* more than alpha times what is left of the buffer; a data packet that is *)
(* not is trimmed to a header and tried again.  Of a packet only its size  *)
(* is kept, and ECN marking is left out.  An exception ends the simulation. *)
(***************************************************************************)
EXTENDS Integers, Sequences, FiniteSets, Functions

CONSTANTS
  Ports,               \* the SharedQueues of the switch
  Classes,             \* DEFAULT_NUM_QOS_CLASSES
  Buffer,              \* SwitchBuffer::_max_buffer_size
  AlphaNum, AlphaDen,  \* _alpha of a class is AlphaNum[class] / AlphaDen
  Weights,             \* per class: DwrrQosScheduler::_weights
  Cap,                 \* DwrrQosScheduler::_cap_factor
  Sizes,               \* sizes of data packets
  Trimming,            \* TrimConfig::enabled
  TrimSize,            \* TrimConfig::trim_size, also the size of control packets
  MaxSize              \* the largest packet

Qos == 0 .. (Classes - 1)

ASSUME SharedQueueAssumption ==
  /\ IsFiniteSet(Ports)
  /\ Classes \in Nat /\ Classes > 1
  /\ Buffer \in Nat
  /\ AlphaNum \in [Qos -> Nat \ {0}] /\ AlphaDen \in Nat \ {0}
  /\ \A c \in Qos : AlphaNum[c] <= AlphaDen   \* not checked by the code
  /\ Weights \in [Qos -> Nat] /\ Cap \in Nat \ {0}
  /\ \A c \in Qos : Weights[c] >= MaxSize     \* not checked by the code
  /\ Trimming \in BOOLEAN
  /\ MaxSize \in Nat /\ Sizes \subseteq 1..MaxSize /\ TrimSize \in 1..MaxSize

VARIABLES
  queued,    \* per port and class: _buffer_per_qos, as sizes, oldest first
  bytes,     \* per port and class: _bytes_queued_per_qos
  tokens,    \* per port and class: _current_tokens
  last_qos,  \* per port: _last_qos_chosen
  next_qos,  \* per port: _qos_to_dequeue_next
  events,    \* per port: completions of service in the event list
  used,      \* SwitchBuffer::_bytes_in_buffer
  failure,   \* the exception thrown, or "none"
  waited     \* per port, class c and class d: bytes of d chosen while c waits

portVars == <<queued, bytes, tokens, last_qos, next_qos, events>>
vars == <<portVars, used, failure, waited>>

Nothing == [c \in Qos |-> 0]

Init ==
  /\ queued = [p \in Ports |-> [c \in Qos |-> <<>>]]
  /\ bytes = [p \in Ports |-> Nothing]
  /\ tokens = [p \in Ports |-> Weights]
  /\ last_qos = [p \in Ports |-> Classes - 1]
  /\ next_qos = [p \in Ports |-> 0]
  /\ events = [p \in Ports |-> 0]
  /\ used = 0 /\ failure = "none"
  /\ waited = [p \in Ports |-> [c \in Qos |-> Nothing]]

-----------------------------------------------------------------------------
(* The scheduler of a port whose classes hold the packets q and the bytes b, *)
(* with the tokens t.                                                        *)

(* The classes that have a packet and the tokens for it. *)
Eligible(q, b, t) == {c \in Qos : b[c] > 0 /\ t[c] >= Head(q[c])}

(* The scan starts after the last class chosen: the turn at which c is tried. *)
Turn(last, c) == IF c > last THEN c - last ELSE c - last + Classes

(* DwrrQosScheduler::trySelectNextQosClass *)
FirstOf(S, last) == CHOOSE c \in S : \A d \in S : Turn(last, c) <= Turn(last, d)

(* Tokens are handed out without a limit. *)
Refreshed_NoCap(t) == [c \in Qos |-> t[c] + Weights[c]]

(* DwrrQosScheduler::refreshTokens *)
Refreshed(t) ==
  [c \in Qos |-> IF t[c] + Weights[c] <= Cap * Weights[c] THEN t[c] + Weights[c]
                 ELSE Cap * Weights[c]]

(* The tokens are not refreshed. *)
TokensFor_NotRefreshed(q, b, t) == t

(* The tokens selectNextQosClass decides with. *)
TokensFor(q, b, t) == IF Eligible(q, b, t) = {} THEN Refreshed(t) ELSE t

(* The bytes of each class that were chosen while class c waits; it counts   *)
(* to one past what NoStarvation allows.                                       *)
Limit(d) == Cap * Weights[d] + MaxSize
WaitedAfter(w, q, chosen) ==
  [c \in Qos |->
    IF c = chosen \/ q[c] = <<>> THEN Nothing
    ELSE IF w[c][chosen] > Limit(chosen) THEN w[c]
    ELSE [w[c] EXCEPT ![chosen] = @ + Head(q[chosen])]]

(* SharedQueue::beginService with DwrrQosScheduler::selectNextQosClass, when *)
(* port p holds the packets q of b bytes and n completions are pending.      *)
BeginService(p, q, b, n) ==
  LET t == TokensFor(q, b, tokens[p])
      chosen == FirstOf(Eligible(q, b, t), last_qos[p])
  IN IF Eligible(q, b, t) = {}
     THEN /\ failure' = "no tokens"
          /\ events' = [events EXCEPT ![p] = n]
          /\ UNCHANGED <<tokens, last_qos, next_qos, waited>>
     ELSE /\ tokens' = [tokens EXCEPT ![p] = [t EXCEPT ![chosen] = @ - Head(q[chosen])]]
          /\ last_qos' = [last_qos EXCEPT ![p] = chosen]
          /\ next_qos' = [next_qos EXCEPT ![p] = chosen]
          /\ events' = [events EXCEPT ![p] = n + 1]
          /\ waited' = [waited EXCEPT ![p] = WaitedAfter(@, q, chosen)]
          /\ UNCHANGED failure

-----------------------------------------------------------------------------
(* Admission. *)

(* Only the space that is left counts, not the share of the class. *)
CanStore_NoShare(p, c, size) == size <= Buffer - used

(* SharedQueue::canStorePacket *)
CanStore(p, c, size) ==
  AlphaDen * (bytes[p][c] + size) <= AlphaNum[c] * (Buffer - used)

(* _queuesize, the sum of the bytes of the classes, is 0. *)
Empty(b) == \A c \in Qos : b[c] = 0

(* Every packet that comes schedules the service of its port. *)
Enqueue_BeginsAlways(p, c, size) ==
  LET q == [queued[p] EXCEPT ![c] = Append(@, size)]
      b == [bytes[p] EXCEPT ![c] = @ + size]
  IN /\ queued' = [queued EXCEPT ![p] = q]
     /\ bytes' = [bytes EXCEPT ![p] = b]
     /\ IF used + size > Buffer
        THEN /\ failure' = "overflow"
             /\ UNCHANGED <<used, tokens, last_qos, next_qos, events, waited>>
        ELSE /\ used' = used + size
             /\ BeginService(p, q, b, events[p])

(* SharedQueue::enqueuePacket with SwitchBuffer::useBuffer, and the end of   *)
(* SharedQueue::receivePacket *)
Enqueue(p, c, size) ==
  LET q == [queued[p] EXCEPT ![c] = Append(@, size)]
      b == [bytes[p] EXCEPT ![c] = @ + size]
  IN /\ queued' = [queued EXCEPT ![p] = q]
     /\ bytes' = [bytes EXCEPT ![p] = b]
     /\ IF used + size > Buffer
        THEN /\ failure' = "overflow"
             /\ UNCHANGED <<used, tokens, last_qos, next_qos, events, waited>>
        ELSE /\ used' = used + size
             /\ IF Empty(bytes[p]) THEN BeginService(p, q, b, events[p])
                ELSE UNCHANGED <<tokens, last_qos, next_qos, events, failure, waited>>

(* A header goes to the highest class. *)
HeaderClass == Classes - 1

(* SharedQueue::receivePacket of a control packet or of one trimmed before *)
ReceiveHeader(p) ==
  /\ failure = "none"
  /\ IF CanStore(p, HeaderClass, TrimSize) THEN Enqueue(p, HeaderClass, TrimSize)
     ELSE UNCHANGED vars

(* SharedQueue::receivePacket of a data packet, which is trimmed if it is    *)
(* not admitted as it is.                                                    *)
ReceiveData(p, c, size) ==
  /\ failure = "none"
  /\ IF CanStore(p, c, size) THEN Enqueue(p, c, size)
     ELSE IF Trimming /\ CanStore(p, HeaderClass, TrimSize)
     THEN Enqueue(p, HeaderClass, TrimSize)
     ELSE UNCHANGED vars

-----------------------------------------------------------------------------
(* The space of a packet that leaves is not given back. *)
DequeuePacket_KeepsBuffer(p, c) ==
  /\ queued' = [queued EXCEPT ![p][c] = Tail(@)]
  /\ bytes' = [bytes EXCEPT ![p][c] = @ - Head(queued[p][c])]
  /\ UNCHANGED used

(* SharedQueue::dequeuePacket with SwitchBuffer::freeBuffer *)
DequeuePacket(p, c) ==
  /\ queued' = [queued EXCEPT ![p][c] = Tail(@)]
  /\ bytes' = [bytes EXCEPT ![p][c] = @ - Head(queued[p][c])]
  /\ used' = IF used < Head(queued[p][c]) THEN used ELSE used - Head(queued[p][c])

(* SharedQueue::completeService *)
CompleteService(p) ==
  LET c == next_qos[p]
      q == [queued[p] EXCEPT ![c] = Tail(@)]
      b == [bytes[p] EXCEPT ![c] = @ - Head(queued[p][c])]
  IN /\ failure = "none" /\ events[p] > 0
     /\ DequeuePacket(p, c)
     /\ IF used < Head(queued[p][c])
        THEN /\ failure' = "underflow"
             /\ UNCHANGED <<tokens, last_qos, next_qos, events, waited>>
        ELSE IF ~ Empty(b) THEN BeginService(p, q, b, events[p] - 1)
        ELSE /\ events' = [events EXCEPT ![p] = @ - 1]
             /\ UNCHANGED <<tokens, last_qos, next_qos, failure, waited>>

Next ==
  \E p \in Ports :
    \/ ReceiveHeader(p)
    \/ \E c \in Qos \ {HeaderClass}, size \in Sizes : ReceiveData(p, c, size)
    \/ CompleteService(p)

Spec == Init /\ [][Next]_vars

-----------------------------------------------------------------------------
(* Properties. *)

TypeOK ==
  /\ queued \in [Ports -> [Qos -> Seq(1..MaxSize)]]
  /\ bytes \in [Ports -> [Qos -> Int]]
  /\ tokens \in [Ports -> [Qos -> Nat]]
  /\ last_qos \in [Ports -> Qos] /\ next_qos \in [Ports -> Qos]
  /\ events \in [Ports -> Nat]
  /\ used \in Int
  /\ failure \in {"none", "overflow", "underflow", "no tokens"}
  /\ waited \in [Ports -> [Qos -> [Qos -> Nat]]]

(* The switch buffer counts what the ports hold, and each port what its      *)
(* classes hold, so that the space of a packet is given back exactly once    *)
(* and never more than was taken.                                            *)
Total(f) ==
  LET sum[S \in SUBSET DOMAIN f] ==
        LET some == CHOOSE i \in S : TRUE
        IN IF S = {} THEN 0 ELSE f[some] + sum[S \ {some}]
  IN sum[DOMAIN f]
BufferIsExact ==
  /\ \A p \in Ports : \A c \in Qos : bytes[p][c] = Total(queued[p][c])
  /\ used = Total([e \in Ports \X Qos |-> bytes[e[1]][e[2]]])
  /\ failure # "underflow"

(* A port has one completion of service pending while it holds packets and   *)
(* none otherwise, and the packet that completes is of the class that paid:  *)
(* a port never stops with packets and never sends two at a time.            *)
OneService ==
  failure = "none" =>
    \A p \in Ports :
      /\ events[p] = IF \E c \in Qos : queued[p][c] # <<>> THEN 1 ELSE 0
      /\ events[p] > 0 => queued[p][next_qos[p]] # <<>>

(* An admitted packet fits into the buffer however the ports fill it, and    *)
(* one refresh gives some class the tokens it needs: neither exception is    *)
(* ever thrown.                                                              *)
NoFailure == failure \notin {"overflow", "no tokens"}

(* While a class waits, each other class sends no more than the tokens it    *)
(* can have saved and one packet, whatever arrives.                          *)
NoStarvation ==
  \A p \in Ports : \A c, d \in Qos : waited[p][c][d] <= Limit(d)

(* One class of one port never takes the buffer from the others: its share   *)
(* is alpha / (1 + alpha), up to one packet.                                 *)
NoMonopoly ==
  \A p \in Ports : \A c \in Qos :
    (AlphaNum[c] + AlphaDen) * bytes[p][c] <= AlphaNum[c] * (Buffer + MaxSize)
=============================================================================
