--------------------------- MODULE CompositeQueue ---------------------------
(***************************************************************************)
(* One output queue of a trimming switch: CompositeQueue                   *)
(* (compositequeue.cpp).  Data waits in the low queue; if there is no room *)
(* the packet that comes or the newest that waits is trimmed to a header,  *)
(* which goes to the high queue, or is dropped.  A weighted arbiter serves *)
(* the two queues.  Of a packet only its size and kind are kept; a random  *)
(* drop, a link that is down and a PAUSE leave no trace in the queue, and  *)
(* ECN marking is left out.                                                *)
(***************************************************************************)
EXTENDS Integers, Sequences, SequencesExt

CONSTANTS
  MaxSize,              \* _maxsize
  Sizes,                \* sizes of data packets
  TrimSize,             \* _trim_size, also the size of headers and probes
  RatioHigh, RatioLow,  \* _ratio_high and _ratio_low
  MaxForced             \* bound on the low queue for packets put in unconditionally

ASSUME CompositeQueueAssumption ==
  /\ MaxSize \in Nat /\ TrimSize \in Nat \ {0} /\ Sizes \subseteq Nat \ {0}
  /\ RatioHigh \in Nat \ {0} /\ RatioLow \in Nat \ {0}
  /\ MaxForced \in Nat

Options == [disable_trim : BOOLEAN, low_priority_trim : BOOLEAN,
            no_droping_low_header : BOOLEAN, drops : BOOLEAN]

VARIABLES
  config,     \* _disable_trim, _low_priority_trim and _no_droping_low_header
  low, high,  \* _enqueued_low and _enqueued_high, oldest first
  size_low, size_high,  \* _queuesize_low and _queuesize_high
  serv,       \* _serv: "none", "low" or "high"
  crt,        \* _crt
  events,     \* completions of service in the event list
  in_row      \* how often each queue was chosen in a row while both wait

queues == <<low, high, size_low, size_high>>
service == <<serv, crt, events, in_row>>
vars == <<config, queues, service>>

Packet(k, s) == [kind |-> k, size |-> s]

(* CompositeQueue::CompositeQueue *)
Configure(disable, low_priority, no_droping) ==
  [disable_trim |-> disable,
   low_priority_trim |-> disable /\ low_priority,
   no_droping_low_header |-> no_droping]

(* FatTreeTopology::alloc_queue passes its options one parameter early:      *)
(* _disable_trim is taken for no_ecn, and the probability of a random drop   *)
(* for no_droping_low_header.  The other topologies pass none.               *)
AllocQueue(o) ==
  Configure(o.low_priority_trim, o.no_droping_low_header, o.drops)

Init ==
  /\ config \in {AllocQueue(o) : o \in Options}
  /\ low = <<>> /\ high = <<>> /\ size_low = 0 /\ size_high = 0
  /\ serv = "none" /\ crt = 0 /\ events = 0
  /\ in_row = [low |-> 0, high |-> 0]

-----------------------------------------------------------------------------
(* Service. *)

(* The arbiter counts on without starting over. *)
NextTurn_NoWrap == crt + 1

(* The turn of the arbiter, which moves on only if both queues wait. *)
NextTurn == IF crt + 1 >= RatioHigh + RatioLow THEN 0 ELSE crt + 1

(* One past what SharesAreKept allows is enough to count. *)
Counted(n) == IF n > RatioHigh + RatioLow THEN n ELSE n + 1

(* CompositeQueue::beginService, when lo and hi wait and n completions are   *)
(* pending                                                                   *)
BeginService(lo, hi, n) ==
  LET both == lo # <<>> /\ hi # <<>>
      turn == IF both THEN NextTurn ELSE crt
      q    == IF hi # <<>> /\ (both => turn < RatioHigh) THEN "high" ELSE "low"
  IN /\ crt' = turn
     /\ serv' = q
     /\ events' = n + 1
     /\ in_row' = [r \in {"low", "high"} |->
                    IF both /\ q = r THEN Counted(in_row[r]) ELSE 0]

(* Every packet that comes begins a service. *)
BeginIfIdle_Always(lo, hi) == BeginService(lo, hi, events)

(* The end of CompositeQueue::receivePacket *)
BeginIfIdle(lo, hi) ==
  IF serv = "none" THEN BeginService(lo, hi, events) ELSE UNCHANGED service

(* CompositeQueue::completeService *)
CompleteService ==
  /\ events > 0 /\ serv # "none"
  /\ low' = IF serv = "low" THEN Tail(low) ELSE low
  /\ size_low' = IF serv = "low" THEN size_low - Head(low).size ELSE size_low
  /\ high' = IF serv = "high" THEN Tail(high) ELSE high
  /\ size_high' = IF serv = "high" THEN size_high - Head(high).size ELSE size_high
  /\ IF low' # <<>> \/ high' # <<>> THEN BeginService(low', high', events - 1)
     ELSE /\ serv' = "none" /\ events' = events - 1
          /\ in_row' = [r \in {"low", "high"} |-> 0]
          /\ UNCHANGED crt
  /\ UNCHANGED config

-----------------------------------------------------------------------------
(* CompositeQueue::receivePacket *)

PushLow(p) ==
  /\ low' = Append(low, p) /\ size_low' = size_low + p.size
  /\ UNCHANGED <<config, high, size_high>>
  /\ BeginIfIdle(low', high)

(* A header: one received, or what is left of a data packet. *)
PushHigh(p) ==
  IF size_high + p.size > 2 * MaxSize THEN UNCHANGED vars
  ELSE /\ high' = Append(high, p) /\ size_high' = size_high + p.size
       /\ UNCHANGED <<config, low, size_low>>
       /\ BeginIfIdle(low, high')

Header == Packet("header", TrimSize)

ReceiveHeader == PushHigh(Header)

Fits(p) == size_low + p.size <= MaxSize

(* A packet that needs more room than is left is trimmed in the low queue.   *)
Arriving(p) ==
  IF config.low_priority_trim /\ p.kind # "low_trim" /\ ~Fits(p)
  THEN Packet("low_trim", TrimSize) ELSE p

(* The packet leaves at the other end. *)
MakeRoom_Oldest(p) ==
  LET booted == Head(low)
      rest == Append(Tail(low), p)
      trimmed == ~config.disable_trim /\ size_high + TrimSize <= 2 * MaxSize
  IN /\ low' = rest /\ size_low' = size_low - booted.size + p.size
     /\ high' = IF trimmed THEN Append(high, Header) ELSE high
     /\ size_high' = IF trimmed THEN size_high + TrimSize ELSE size_high
     /\ UNCHANGED config
     /\ BeginIfIdle(low', high')

(* The newest packet of the low queue, which may be the one in service,      *)
(* makes room for packet p.  Its header is lost if the high queue is full.   *)
MakeRoom(p) ==
  LET booted == Last(low)
      trimmed == ~config.disable_trim /\ size_high + TrimSize <= 2 * MaxSize
  IN /\ low' = Append(Front(low), p)
     /\ size_low' = size_low - booted.size + p.size
     /\ high' = IF trimmed THEN Append(high, Header) ELSE high
     /\ size_high' = IF trimmed THEN size_high + TrimSize ELSE size_high
     /\ UNCHANGED config
     /\ BeginIfIdle(low', high')

(* A packet that is put in whatever its size. *)
Forced(p) ==
  /\ config.disable_trim /\ config.no_droping_low_header
  /\ p.kind = "probe" \/ (config.low_priority_trim /\ p.kind = "low_trim")

(* Packet p finds no room and does not get it from another packet.           *)
Refuse(p) ==
  IF Forced(p) THEN Len(low) < MaxForced /\ PushLow(p)
  ELSE IF config.disable_trim THEN UNCHANGED vars
  ELSE PushHigh(Header)

ReceiveLow(packet) ==
  LET p == Arriving(packet)
  IN IF Fits(p) THEN PushLow(p)
     ELSE \/ ~config.no_droping_low_header /\ low # <<>> /\ MakeRoom(p)
          \/ Refuse(p)

ReceiveData == \E s \in Sizes : ReceiveLow(Packet("data", s))
ReceiveProbe == ReceiveLow(Packet("probe", TrimSize))

(* A packet that a queue like this one trimmed before. *)
ReceiveLowTrim ==
  config.low_priority_trim /\ ReceiveLow(Packet("low_trim", TrimSize))

Next ==
  \/ CompleteService
  \/ ReceiveHeader \/ ReceiveData \/ ReceiveProbe \/ ReceiveLowTrim

Spec == Init /\ [][Next]_vars

-----------------------------------------------------------------------------
(* Properties. *)

Queued == Seq([kind : {"data", "probe", "low_trim", "header"}, size : Nat \ {0}])

TypeOK ==
  /\ config \in [disable_trim : BOOLEAN, low_priority_trim : BOOLEAN,
                 no_droping_low_header : BOOLEAN]
  /\ low \in Queued /\ high \in Queued
  /\ size_low \in Int /\ size_high \in Int
  /\ serv \in {"none", "low", "high"}
  /\ crt \in 0 .. (RatioHigh + RatioLow - 1) /\ events \in Nat
  /\ in_row \in [{"low", "high"} -> Nat]

(* One completion is pending while packets wait and none otherwise, and the  *)
(* queue it takes its packet from has one, although the packet in service    *)
(* may be trimmed away meanwhile: completeService never finds an empty       *)
(* queue, and the port never stops with packets.                             *)
ServiceIsRight ==
  /\ events = IF low # <<>> \/ high # <<>> THEN 1 ELSE 0
  /\ serv = "none" <=> events = 0
  /\ serv = "low" => low # <<>>
  /\ serv = "high" => high # <<>>

(* The limits hold for packets of any size: booting one packet for a larger  *)
(* one again and again takes the low queue past its limit by no more than    *)
(* the newest packet, and trimming fills the high queue to twice the limit.  *)
(* Where probes and trimmed packets are put in unconditionally no limit      *)
(* holds for the low queue.                                                  *)
ForcesSome == config.disable_trim /\ config.no_droping_low_header
WithinLimits ==
  /\ ~ForcesSome /\ low # <<>> => size_low - Last(low).size <= MaxSize
  /\ size_high <= 2 * MaxSize

(* The counters that the limits are kept by are the bytes that wait.         *)
Bytes(q) ==
  LET first[i \in 0..Len(q)] == IF i = 0 THEN 0 ELSE first[i - 1] + q[i].size
  IN first[Len(q)]
BytesAreBounded ==
  /\ WithinLimits
  /\ size_low = Bytes(low) /\ size_high = Bytes(high)

(* While both queues wait neither is served more often in a row than its     *)
(* share allows, whatever comes and whatever is booted.                      *)
SharesAreKept == in_row["high"] <= RatioHigh /\ in_row["low"] <= RatioLow
=============================================================================
