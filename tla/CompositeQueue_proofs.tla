------------------------ MODULE CompositeQueue_proofs ------------------------
(***************************************************************************)
(* Proofs about CompositeQueue, for all sizes, limits and ratios: the      *)
(* service never finds an empty queue, the limits hold and the shares of   *)
(* the two queues are kept.  What a handler does to the queues (PushLow,   *)
(* PushHigh, MakeRoom, the completion) is separate from the service it may *)
(* begin, so the invariant has a part for each: QueuesOK and ServiceOK.    *)
(* That the counters are exact is a second invariant, Accounted, which     *)
(* names the partial sums of a queue instead of computing them.            *)
(***************************************************************************)
EXTENDS CompositeQueue, TLAPS, WellFoundedInduction, SequenceTheorems

Kinds == {"data", "probe", "low_trim", "header"}
Packets == [kind : Kinds, size : Nat]
Configs == [disable_trim : BOOLEAN, low_priority_trim : BOOLEAN,
            no_droping_low_header : BOOLEAN]

QueuesOK ==
  /\ config \in Configs
  /\ low \in Seq(Packets) /\ high \in Seq(Packets)
  /\ size_low \in Int /\ size_high \in Int
  /\ WithinLimits

(* How often a queue was chosen in a row follows from the turn. *)
TurnOK ==
  /\ crt \in 0 .. (RatioHigh + RatioLow - 1)
  /\ in_row \in [{"low", "high"} -> Nat]
  /\ crt < RatioHigh => in_row["high"] <= crt + 1 /\ in_row["low"] = 0
  /\ crt >= RatioHigh => in_row["high"] = 0 /\ in_row["low"] <= crt - RatioHigh + 1

ServiceOK == serv \in {"none", "low", "high"} /\ ServiceIsRight

IInv == QueuesOK /\ TurnOK /\ ServiceOK

-----------------------------------------------------------------------------
(* A service that begins takes its packet from a queue that has one. *)
LEMMA BeginServiceOK ==
  ASSUME TurnOK, NEW lo, NEW hi, lo # <<>> \/ hi # <<>>, BeginService(lo, hi, 0)
  PROVE  /\ TurnOK'
         /\ events' = 1 /\ serv' \in {"low", "high"}
         /\ serv' = "low" => lo # <<>>
         /\ serv' = "high" => hi # <<>>
<1> DEFINE both == lo # <<>> /\ hi # <<>>
           turn == IF both THEN NextTurn ELSE crt
           q == IF hi # <<>> /\ (both => turn < RatioHigh) THEN "high" ELSE "low"
<1>1. /\ crt' = turn /\ serv' = q /\ events' = 0 + 1
      /\ in_row' = [r \in {"low", "high"} |->
                     IF both /\ q = r THEN Counted(in_row[r]) ELSE 0]
  BY DEF BeginService
<1>2. events' = 1
  BY <1>1
<1>3. /\ serv' \in {"low", "high"}
      /\ serv' = "low" => lo # <<>>
      /\ serv' = "high" => hi # <<>>
  BY <1>1
<1>4. /\ RatioHigh \in Nat /\ RatioHigh > 0 /\ RatioLow \in Nat /\ RatioLow > 0
      /\ crt \in Int /\ 0 <= crt /\ crt < RatioHigh + RatioLow
      /\ in_row["high"] \in Nat /\ in_row["low"] \in Nat
  BY CompositeQueueAssumption DEF TurnOK
<1>5. /\ Counted(in_row["high"]) \in Nat /\ Counted(in_row["low"]) \in Nat
      /\ Counted(in_row["high"]) <= in_row["high"] + 1
      /\ Counted(in_row["low"]) <= in_row["low"] + 1
  BY <1>4 DEF Counted
<1>6. /\ in_row'["high"] = IF both /\ q = "high" THEN Counted(in_row["high"]) ELSE 0
      /\ in_row'["low"] = IF both /\ q = "low" THEN Counted(in_row["low"]) ELSE 0
      /\ in_row' \in [{"low", "high"} -> Nat]
  <2>1. /\ in_row'["high"] = IF both /\ q = "high" THEN Counted(in_row["high"]) ELSE 0
        /\ in_row'["low"] = IF both /\ q = "low" THEN Counted(in_row["low"]) ELSE 0
    BY <1>1
  <2> QED
    BY <1>1, <1>5, <2>1
<1>7. TurnOK'
  <2>1. CASE both
    <3>1. crt' = NextTurn /\ q = IF NextTurn < RatioHigh THEN "high" ELSE "low"
      BY <1>1, <2>1
    <3>2. crt' \in 0 .. (RatioHigh + RatioLow - 1)
      BY <1>4, <3>1 DEF NextTurn
    <3>3. CASE NextTurn < RatioHigh
      <4>1. in_row'["low"] = 0 /\ in_row'["high"] = Counted(in_row["high"])
        BY <1>6, <2>1, <3>1, <3>3
      <4>2. in_row["high"] <= NextTurn
        BY <1>4, <3>3 DEF NextTurn, TurnOK
      <4> QED
        BY <1>4, <1>5, <1>6, <3>1, <3>2, <3>3, <4>1, <4>2 DEF TurnOK
    <3>4. CASE ~(NextTurn < RatioHigh)
      <4>1. in_row'["high"] = 0 /\ in_row'["low"] = Counted(in_row["low"])
        BY <1>6, <2>1, <3>1, <3>4
      <4>2. in_row["low"] <= NextTurn - RatioHigh
        BY <1>4, <3>4 DEF NextTurn, TurnOK
      <4> QED
        BY <1>4, <1>5, <1>6, <3>1, <3>2, <3>4, <4>1, <4>2 DEF TurnOK
    <3> QED
      BY <3>3, <3>4
  <2>2. CASE ~both
    <3>1. crt' = crt /\ in_row'["high"] = 0 /\ in_row'["low"] = 0
      BY <1>1, <1>6, <2>2
    <3> QED
      BY <1>4, <1>6, <3>1 DEF TurnOK
  <2> QED
    BY <2>1, <2>2
<1> QED
  BY <1>2, <1>3, <1>7

(* A handler that leaves a packet in each queue that had one, and at least   *)
(* one packet, keeps the service right.                                      *)
LEMMA BeginIfIdleOK ==
  ASSUME IInv, NEW lo, NEW hi, low' = lo, high' = hi,
         lo # <<>> \/ hi # <<>>, low # <<>> => lo # <<>>, high # <<>> => hi # <<>>,
         BeginIfIdle(lo, hi)
  PROVE  TurnOK' /\ ServiceOK'
<1>1. CASE serv = "none"
  <2>1. events = 0
    BY <1>1 DEF IInv, ServiceOK, ServiceIsRight
  <2>2. BeginService(lo, hi, 0)
    BY <1>1, <2>1 DEF BeginIfIdle
  <2> QED
    BY <2>2, BeginServiceOK DEF IInv, ServiceOK, ServiceIsRight
<1>2. CASE serv # "none"
  <2>1. UNCHANGED <<serv, crt, events, in_row>>
    BY <1>2 DEF BeginIfIdle, service
  <2> QED
    BY <1>2, <2>1 DEF IInv, TurnOK, ServiceOK, ServiceIsRight
<1> QED
  BY <1>1, <1>2

LEMMA PushLowOK ==
  ASSUME IInv, NEW p \in Packets, Fits(p) \/ ForcesSome, PushLow(p)
  PROVE  IInv'
<1>1. /\ low' = Append(low, p) /\ size_low' = size_low + p.size
      /\ config' = config /\ high' = high /\ size_high' = size_high
      /\ BeginIfIdle(low', high)
  BY DEF PushLow
<1>2. low \in Seq(Packets) /\ p.size \in Nat /\ size_low \in Int /\ MaxSize \in Nat
  BY CompositeQueueAssumption DEF IInv, QueuesOK, Packets
<1>3. low' \in Seq(Packets) /\ low' # <<>> /\ Last(low') = p
  BY <1>1, <1>2 DEF Last
<1>4. TurnOK' /\ ServiceOK'
  BY <1>1, <1>3, BeginIfIdleOK
<1>5. ~ForcesSome' => size_low' - Last(low').size <= MaxSize
  BY <1>1, <1>2, <1>3 DEF ForcesSome, Fits
<1>6. QueuesOK'
  BY <1>1, <1>2, <1>3, <1>5 DEF IInv, QueuesOK, WithinLimits
<1> QED
  BY <1>4, <1>6 DEF IInv

LEMMA PushHighOK ==
  ASSUME IInv, NEW p \in Packets, PushHigh(p)
  PROVE  IInv'
<1>1. CASE UNCHANGED vars
  BY <1>1 DEF vars, queues, service, IInv, QueuesOK, WithinLimits, ForcesSome, TurnOK,
              ServiceOK, ServiceIsRight
<1>2. CASE ~(size_high + p.size > 2 * MaxSize)
  <2>1. /\ high' = Append(high, p) /\ size_high' = size_high + p.size
        /\ config' = config /\ low' = low /\ size_low' = size_low
        /\ BeginIfIdle(low, high')
    BY <1>2 DEF PushHigh
  <2>2. high \in Seq(Packets) /\ p.size \in Nat /\ size_high \in Int /\ MaxSize \in Nat
    BY CompositeQueueAssumption DEF IInv, QueuesOK, Packets
  <2>3. high' \in Seq(Packets) /\ high' # <<>>
    BY <2>1, <2>2
  <2>4. TurnOK' /\ ServiceOK'
    BY <2>1, <2>3, BeginIfIdleOK
  <2>5. QueuesOK'
    BY <1>2, <2>1, <2>2, <2>3 DEF IInv, QueuesOK, WithinLimits, ForcesSome
  <2> QED
    BY <2>4, <2>5 DEF IInv
<1> QED
  BY <1>1, <1>2 DEF PushHigh

LEMMA HeaderIsPacket == Header \in Packets /\ TrimSize \in Nat
BY CompositeQueueAssumption DEF Header, Packet, Packets, Kinds

(* The packet booted was not part of what the limit is about. *)
LEMMA MakeRoomOK ==
  ASSUME IInv, NEW p \in Packets, ~config.no_droping_low_header, low # <<>>, MakeRoom(p)
  PROVE  IInv'
<1> DEFINE trimmed == ~config.disable_trim /\ size_high + TrimSize <= 2 * MaxSize
<1>1. /\ low' = Append(Front(low), p)
      /\ size_low' = size_low - Last(low).size + p.size
      /\ high' = IF trimmed THEN Append(high, Header) ELSE high
      /\ size_high' = IF trimmed THEN size_high + TrimSize ELSE size_high
      /\ config' = config
      /\ BeginIfIdle(low', high')
  BY DEF MakeRoom
<1>2. /\ low \in Seq(Packets) /\ high \in Seq(Packets) /\ p.size \in Nat
      /\ size_low \in Int /\ size_high \in Int /\ MaxSize \in Nat
      /\ size_low - Last(low).size <= MaxSize /\ size_high <= 2 * MaxSize
  BY CompositeQueueAssumption DEF IInv, QueuesOK, WithinLimits, ForcesSome, Packets
<1>3. Last(low) \in Packets /\ Last(low).size \in Nat
  <2>1. Last(low) \in Packets
    BY <1>2 DEF Last
  <2> QED
    BY <2>1 DEF Packets
<1>4. low' \in Seq(Packets) /\ low' # <<>> /\ Last(low') = p
  <2>1. Front(low) \in Seq(Packets)
    BY <1>2 DEF Front
  <2> QED
    BY <1>1, <2>1 DEF Last
<1>5. high' \in Seq(Packets) /\ (high # <<>> => high' # <<>>)
  BY <1>1, <1>2, HeaderIsPacket
<1>6. TurnOK' /\ ServiceOK'
  BY <1>1, <1>4, <1>5, BeginIfIdleOK
<1>7. size_low' \in Int /\ size_low' - Last(low').size <= MaxSize
  BY <1>1, <1>2, <1>3, <1>4
<1>8. size_high' \in Int /\ size_high' <= 2 * MaxSize
  BY <1>1, <1>2, HeaderIsPacket
<1>9. QueuesOK'
  BY <1>1, <1>4, <1>5, <1>7, <1>8 DEF IInv, QueuesOK, WithinLimits
<1> QED
  BY <1>6, <1>9 DEF IInv

LEMMA ReceiveLowOK ==
  ASSUME IInv, NEW packet \in Packets, ReceiveLow(packet)
  PROVE  IInv'
<1> DEFINE p == Arriving(packet)
<1>1. p \in Packets
  BY CompositeQueueAssumption DEF Arriving, Packet, Packets, Kinds
<1>2. \/ Fits(p) /\ PushLow(p)
      \/ ~config.no_droping_low_header /\ low # <<>> /\ MakeRoom(p)
      \/ Refuse(p)
  BY DEF ReceiveLow
<1> HIDE DEF p
<1>3. CASE Fits(p) /\ PushLow(p)
  BY <1>1, <1>3, PushLowOK
<1>4. CASE ~config.no_droping_low_header /\ low # <<>> /\ MakeRoom(p)
  BY <1>1, <1>4, MakeRoomOK
<1>5. CASE Refuse(p)
  <2>1. CASE Forced(p)
    BY <1>1, <1>5, <2>1, PushLowOK DEF Refuse, Forced, ForcesSome
  <2>2. CASE ~Forced(p) /\ config.disable_trim
    <3>1. UNCHANGED vars
      BY <1>5, <2>2 DEF Refuse
    <3> QED
      BY <3>1 DEF vars, queues, service, IInv, QueuesOK, WithinLimits, ForcesSome, TurnOK,
                  ServiceOK, ServiceIsRight
  <2>3. CASE ~Forced(p) /\ ~config.disable_trim
    BY <1>5, <2>3, HeaderIsPacket, PushHighOK DEF Refuse
  <2> QED
    BY <2>1, <2>2, <2>3
<1> QED
  BY <1>2, <1>3, <1>4, <1>5

LEMMA CompleteServiceOK ==
  ASSUME IInv, CompleteService
  PROVE  IInv'
<1>1. /\ low' = IF serv = "low" THEN Tail(low) ELSE low
      /\ size_low' = IF serv = "low" THEN size_low - Head(low).size ELSE size_low
      /\ high' = IF serv = "high" THEN Tail(high) ELSE high
      /\ size_high' = IF serv = "high" THEN size_high - Head(high).size ELSE size_high
      /\ config' = config /\ events > 0
  BY DEF CompleteService
<1>2. /\ low \in Seq(Packets) /\ high \in Seq(Packets)
      /\ size_low \in Int /\ size_high \in Int /\ MaxSize \in Nat
      /\ serv = "low" => low # <<>>
      /\ serv = "high" => high # <<>>
  BY CompositeQueueAssumption DEF IInv, QueuesOK, ServiceOK, ServiceIsRight
<1>3. low' \in Seq(Packets) /\ high' \in Seq(Packets)
  BY <1>1, <1>2
<1>4. /\ serv = "low" => Head(low).size \in Nat
      /\ serv = "high" => Head(high).size \in Nat
  <2>1. /\ serv = "low" => Head(low) \in Packets
        /\ serv = "high" => Head(high) \in Packets
    BY <1>2
  <2> QED
    BY <2>1 DEF Packets
<1>5. size_low' \in Int /\ size_low' <= size_low /\ size_high' \in Int /\ size_high' <= size_high
  BY <1>1, <1>2, <1>4
<1>6. low' # <<>> => low # <<>> /\ Last(low') = Last(low)
  BY <1>1, <1>2 DEF Last
<1>7. low' # <<>> => Last(low).size \in Nat
  <2>1. low' # <<>> => Last(low) \in Packets
    BY <1>2, <1>6 DEF Last
  <2> QED
    BY <2>1 DEF Packets
<1>8. ~ForcesSome' /\ low' # <<>> => size_low' - Last(low').size <= MaxSize
  <2>1. ~ForcesSome' /\ low' # <<>> => size_low - Last(low).size <= MaxSize
    BY <1>1, <1>6 DEF IInv, QueuesOK, WithinLimits, ForcesSome
  <2> QED
    BY <1>2, <1>5, <1>6, <1>7, <2>1
<1>9. size_high' <= 2 * MaxSize
  BY <1>2, <1>5 DEF IInv, QueuesOK, WithinLimits
<1>10. QueuesOK'
  BY <1>1, <1>3, <1>5, <1>8, <1>9 DEF IInv, QueuesOK, WithinLimits
<1>11. events = 1
  BY <1>1 DEF IInv, ServiceOK, ServiceIsRight
<1>12. TurnOK' /\ ServiceOK'
  <2>1. CASE low' # <<>> \/ high' # <<>>
    <3>1. BeginService(low', high', 0)
      BY <1>11, <2>1 DEF CompleteService
    <3>2. TurnOK
      BY DEF IInv
    <3> QED
      BY <2>1, <3>1, <3>2, BeginServiceOK DEF ServiceOK, ServiceIsRight
  <2>2. CASE ~(low' # <<>> \/ high' # <<>>)
    <3>1. /\ serv' = "none" /\ events' = events - 1 /\ crt' = crt
          /\ in_row' = [r \in {"low", "high"} |-> 0]
      BY <2>2 DEF CompleteService
    <3>2. ServiceOK'
      BY <1>11, <2>2, <3>1 DEF ServiceOK, ServiceIsRight
    <3>3. in_row' \in [{"low", "high"} -> Nat] /\ in_row'["low"] = 0 /\ in_row'["high"] = 0
      BY <3>1
    <3>4. TurnOK'
      BY <3>1, <3>3, CompositeQueueAssumption DEF IInv, TurnOK
    <3> QED
      BY <3>2, <3>4
  <2> QED
    BY <2>1, <2>2
<1> QED
  BY <1>10, <1>12 DEF IInv

-----------------------------------------------------------------------------
LEMMA InitOK == Init => IInv
<1> SUFFICES ASSUME Init PROVE IInv
  OBVIOUS
<1>1. config \in Configs
  BY DEF Init, AllocQueue, Configure, Options, Configs
<1>2. QueuesOK
  BY <1>1, CompositeQueueAssumption DEF Init, QueuesOK, WithinLimits
<1>3. in_row \in [{"low", "high"} -> Nat] /\ in_row["low"] = 0 /\ in_row["high"] = 0
  BY DEF Init
<1>4. TurnOK
  BY <1>3, CompositeQueueAssumption DEF Init, TurnOK
<1>5. ServiceOK
  BY DEF Init, ServiceOK, ServiceIsRight
<1> QED
  BY <1>2, <1>4, <1>5 DEF IInv

LEMMA NextOK == IInv /\ [Next]_vars => IInv'
<1> SUFFICES ASSUME IInv, [Next]_vars PROVE IInv'
  OBVIOUS
<1>1. CASE CompleteService
  BY <1>1, CompleteServiceOK
<1>2. CASE ReceiveHeader
  BY <1>2, HeaderIsPacket, PushHighOK DEF ReceiveHeader
<1>3. CASE ReceiveData
  <2>1. PICK s \in Sizes : ReceiveLow(Packet("data", s))
    BY <1>3 DEF ReceiveData
  <2>2. Packet("data", s) \in Packets
    BY CompositeQueueAssumption DEF Packet, Packets, Kinds
  <2> QED
    BY <2>1, <2>2, ReceiveLowOK
<1>4. CASE ReceiveProbe
  <2>1. Packet("probe", TrimSize) \in Packets
    BY CompositeQueueAssumption DEF Packet, Packets, Kinds
  <2> QED
    BY <1>4, <2>1, ReceiveLowOK DEF ReceiveProbe
<1>5. CASE ReceiveLowTrim
  <2>1. Packet("low_trim", TrimSize) \in Packets
    BY CompositeQueueAssumption DEF Packet, Packets, Kinds
  <2> QED
    BY <1>5, <2>1, ReceiveLowOK DEF ReceiveLowTrim
<1>6. CASE UNCHANGED vars
  BY <1>6 DEF vars, queues, service, IInv, QueuesOK, WithinLimits, ForcesSome, TurnOK,
              ServiceOK, ServiceIsRight
<1> QED
  BY <1>1, <1>2, <1>3, <1>4, <1>5, <1>6 DEF Next

THEOREM Invariance == Spec => []IInv
BY InitOK, NextOK, PTL DEF Spec

(* completeService always finds the packet it is scheduled for, and a port   *)
(* with packets always has a completion pending.                             *)
THEOREM ServiceFindsPacket == Spec => []ServiceIsRight
<1>1. IInv => ServiceIsRight
  BY DEF IInv, ServiceOK
<1> QED
  BY Invariance, <1>1, PTL

(* The counters stay within the limits, up to the newest packet. *)
THEOREM LimitsHold == Spec => []WithinLimits
<1>1. IInv => WithinLimits
  BY DEF IInv, QueuesOK
<1> QED
  BY Invariance, <1>1, PTL

(* Neither queue starves: headers cannot hold up data for ever. *)
THEOREM SharesHold == Spec => []SharesAreKept
<1>1. IInv => SharesAreKept
  BY CompositeQueueAssumption DEF IInv, TurnOK, SharesAreKept
<1> QED
  BY Invariance, <1>1, PTL

-----------------------------------------------------------------------------
(* The bytes of a queue. *)

(* b is the sum of the sizes of the packets q: r holds the partial sums. *)
PartialSums(q, r) ==
  /\ r \in [0..Len(q) -> Int] /\ r[0] = 0
  /\ \A i \in 1..Len(q) : r[i] = r[i - 1] + q[i].size
SumsTo(q, b) == \E r : PartialSums(q, r) /\ r[Len(q)] = b

Accounted == SumsTo(low, size_low) /\ SumsTo(high, size_high)

(* Every set of naturals that is not empty has a least element. *)
LEMMA LeastExists ==
  ASSUME NEW S \in SUBSET Nat, S # {}
  PROVE  \E p \in S : \A q \in S : p <= q
<1> DEFINE R == OpToRel(<, Nat)
<1>1. PICK x \in S : \A y \in S : ~ (<<y, x>> \in R)
  BY WFMin, NatLessThanWellFounded, Zenon
<1>2. \A u, v \in Nat : u < v => <<u, v>> \in R
  BY DEF OpToRel
<1>3. \A y \in S : ~ (y < x)
  <2> HIDE DEF R
  <2> QED BY <1>1, <1>2
<1> QED BY <1>3

(* The partial sums are what Bytes computes: they satisfy its recursion, and *)
(* no two functions do, since they would have to differ at a first place.    *)
LEMMA BytesIsSum ==
  ASSUME NEW q \in Seq(Packets), NEW b, SumsTo(q, b)
  PROVE  Bytes(q) = b
<1> DEFINE n == Len(q)
           Rec(u) == u = [i \in 0..n |-> IF i = 0 THEN 0 ELSE u[i - 1] + q[i].size]
           first == CHOOSE u : Rec(u)
<1>1. PICK r : PartialSums(q, r) /\ r[n] = b
  BY DEF SumsTo
<1>2. n \in Nat /\ \A i \in 0..n : i # 0 => i \in 1..n /\ i - 1 \in 0..n
  OBVIOUS
<1>3. Rec(r)
  BY <1>1, <1>2 DEF PartialSums
<1>4. Rec(first)
  BY <1>3
<1>5. Bytes(q) = first[n]
  BY DEF Bytes
<1>6. \A i \in 0..n : first[i] = IF i = 0 THEN 0 ELSE first[i - 1] + q[i].size
  BY <1>4
<1>7. \A i \in 0..n : r[i] = IF i = 0 THEN 0 ELSE r[i - 1] + q[i].size
  BY <1>3
<1> HIDE DEF first
<1>8. \A i \in 0..n : first[i] = r[i]
  <2> DEFINE D == {i \in 0..n : first[i] # r[i]}
  <2> SUFFICES ASSUME D # {} PROVE FALSE
    OBVIOUS
  <2>1. PICK i \in D : \A j \in D : i <= j
    <3>1. D \in SUBSET Nat
      BY <1>2
    <3> HIDE DEF D
    <3> QED BY <3>1, LeastExists
  <2>2. CASE i = 0
    BY <1>6, <1>7, <2>2
  <2>3. CASE i # 0
    <3>1. i \in 0..n /\ i - 1 \in 0..n /\ i - 1 \notin D
      BY <1>2, <2>1, <2>3
    <3>2. first[i - 1] = r[i - 1]
      BY <3>1
    <3> QED BY <1>6, <1>7, <2>3, <3>1, <3>2
  <2> QED BY <2>2, <2>3
<1> QED BY <1>1, <1>2, <1>5, <1>8

LEMMA EmptySum == SumsTo(<<>>, 0)
<1> DEFINE r == [i \in 0..0 |-> 0]
<1>1. Len(<<>>) = 0 /\ r[0] = 0
  OBVIOUS
<1>2. PartialSums(<<>>, r)
  BY <1>1 DEF PartialSums
<1> HIDE DEF r
<1> QED BY <1>1, <1>2 DEF SumsTo

LEMMA AppendSum ==
  ASSUME NEW q \in Seq(Packets), NEW p \in Packets, NEW b \in Int, SumsTo(q, b)
  PROVE  SumsTo(Append(q, p), b + p.size)
<1> DEFINE n == Len(q)
           t == Append(q, p)
<1>1. PICK r : PartialSums(q, r) /\ r[n] = b
  BY DEF SumsTo
<1> DEFINE u == [i \in 0..(n + 1) |-> IF i = n + 1 THEN b + p.size ELSE r[i]]
<1>2. n \in Nat /\ Len(t) = n + 1 /\ t[n + 1] = p /\ \A i \in 1..n : t[i] = q[i]
  OBVIOUS
<1>3. p.size \in Int
  BY DEF Packets
<1> HIDE DEF t
<1>4. u \in [0..(n + 1) -> Int] /\ u[0] = 0 /\ u[n + 1] = b + p.size
      /\ \A i \in 0..n : u[i] = r[i]
  BY <1>1, <1>2, <1>3 DEF PartialSums
<1> HIDE DEF u
<1>5. \A i \in 1..(n + 1) : u[i] = u[i - 1] + t[i].size
  <2> TAKE i \in 1..(n + 1)
  <2>1. CASE i = n + 1
    <3>1. u[i - 1] = b
      BY <1>1, <1>2, <1>4, <2>1
    <3> QED BY <1>2, <1>4, <2>1, <3>1
  <2>2. CASE i # n + 1
    <3>1. i \in 1..n /\ i \in 0..n /\ i - 1 \in 0..n
      BY <1>2, <2>2
    <3> QED BY <1>1, <1>2, <1>4, <3>1 DEF PartialSums
  <2> QED BY <2>1, <2>2
<1>6. PartialSums(t, u)
  BY <1>2, <1>4, <1>5 DEF PartialSums
<1>7. SumsTo(t, b + p.size)
  BY <1>2, <1>4, <1>6 DEF SumsTo
<1> QED BY <1>7 DEF t

LEMMA FrontSum ==
  ASSUME NEW q \in Seq(Packets), q # <<>>, NEW b \in Int, SumsTo(q, b)
  PROVE  SumsTo(Front(q), b - Last(q).size)
<1> DEFINE n == Len(q)
           t == Front(q)
<1>1. PICK r : PartialSums(q, r) /\ r[n] = b
  BY DEF SumsTo
<1> DEFINE u == [i \in 0..(n - 1) |-> r[i]]
<1>2. n \in Nat /\ n >= 1 /\ Len(t) = n - 1 /\ Last(q) = q[n] /\ \A i \in 1..(n - 1) : t[i] = q[i]
  <2>1. n \in Nat /\ n >= 1 /\ Last(q) = q[n]
    BY DEF Last
  <2>2. t = SubSeq(q, 1, n - 1)
    BY DEF Front
  <2> HIDE DEF t
  <2>3. Len(t) = n - 1 /\ \A i \in 1..(n - 1) : t[i] = q[i]
    <3>1. 1 \in Int /\ n - 1 \in Int /\ \A i \in 1..(n - 1) : q[i] \in Packets
      BY <2>1
    <3>2. /\ Len(SubSeq(q, 1, n - 1)) = IF 1 <= n - 1 THEN (n - 1) - 1 + 1 ELSE 0
          /\ \A i \in 1..((n - 1) - 1 + 1) : SubSeq(q, 1, n - 1)[i] = q[1 + i - 1]
      BY <3>1, SubSeqProperties
    <3>3. n \in Int /\ n >= 1
      BY <2>1
    <3> HIDE DEF n
    <3>4. (IF 1 <= n - 1 THEN (n - 1) - 1 + 1 ELSE 0) = n - 1
      BY <3>3
    <3>5. (n - 1) - 1 + 1 = n - 1
      BY <3>3
    <3>6. \A i \in 1..(n - 1) : 1 + i - 1 = i
      BY <3>3
    <3> QED BY <2>2, <3>2, <3>4, <3>5, <3>6
  <2> QED BY <2>1, <2>3
<1>3. q[n] \in Packets /\ q[n].size \in Int
  <2>1. n \in 1..n
    BY <1>2
  <2>2. q[n] \in Packets
    BY <2>1
  <2> QED BY <2>2 DEF Packets
<1>4. r[n] = r[n - 1] + q[n].size /\ r[n - 1] \in Int
  <2>1. n \in 1..n /\ n - 1 \in 0..n
    BY <1>2
  <2> HIDE DEF n
  <2> QED BY <1>1, <2>1 DEF PartialSums, n
<1>5. u \in [0..(n - 1) -> Int] /\ u[0] = 0 /\ \A i \in 0..(n - 1) : u[i] = r[i]
  BY <1>1, <1>2 DEF PartialSums
<1> HIDE DEF t, u
<1>6. \A i \in 1..(n - 1) : u[i] = u[i - 1] + t[i].size
  <2> TAKE i \in 1..(n - 1)
  <2>1. i \in 1..n /\ i \in 0..(n - 1) /\ i - 1 \in 0..(n - 1)
    BY <1>2
  <2> QED BY <1>1, <1>2, <1>5, <2>1 DEF PartialSums
<1>7. PartialSums(t, u)
  BY <1>2, <1>5, <1>6 DEF PartialSums
<1>8. u[n - 1] = b - Last(q).size
  BY <1>1, <1>2, <1>3, <1>4, <1>5
<1>9. SumsTo(t, b - Last(q).size)
  BY <1>2, <1>7, <1>8 DEF SumsTo
<1> QED BY <1>9 DEF t

LEMMA TailSum ==
  ASSUME NEW q \in Seq(Packets), q # <<>>, NEW b \in Int, SumsTo(q, b)
  PROVE  SumsTo(Tail(q), b - Head(q).size)
<1> DEFINE n == Len(q)
           t == Tail(q)
           h == Head(q).size
<1>1. PICK r : PartialSums(q, r) /\ r[n] = b
  BY DEF SumsTo
<1> DEFINE u == [i \in 0..(n - 1) |-> r[i + 1] - h]
<1>2. n \in Nat /\ n >= 1 /\ Len(t) = n - 1 /\ Head(q) = q[1]
      /\ \A i \in 1..(n - 1) : t[i] = q[i + 1]
  OBVIOUS
<1>3. q[1] \in Packets /\ h = q[1].size /\ h \in Int
  <2>1. 1 \in 1..n
    BY <1>2
  <2>2. q[1] \in Packets
    BY <2>1
  <2> QED BY <1>2, <2>2 DEF Packets
<1>4. r[1] = r[0] + q[1].size /\ r[0] = 0
  BY <1>1, <1>2 DEF PartialSums
<1> HIDE DEF t, h
<1>5. r[1] - h = 0
  BY <1>3, <1>4
<1>6. u \in [0..(n - 1) -> Int] /\ \A i \in 0..(n - 1) : u[i] = r[i + 1] - h
  BY <1>1, <1>2, <1>3 DEF PartialSums
<1> HIDE DEF u
<1>7. \A i \in 1..(n - 1) : u[i] = u[i - 1] + t[i].size
  <2> TAKE i \in 1..(n - 1)
  <2>1. i + 1 \in 1..n /\ i \in 0..n /\ i \in 0..(n - 1) /\ i - 1 \in 0..(n - 1)
        /\ (i + 1) - 1 = i /\ (i - 1) + 1 = i
    BY <1>2
  <2>2. r[i + 1] = r[i] + q[i + 1].size
    BY <1>1, <2>1 DEF PartialSums
  <2>3. r[i] \in Int /\ q[i + 1].size \in Int
    <3>1. q[i + 1] \in Packets /\ r \in [0..n -> Int]
      BY <1>1, <2>1 DEF PartialSums
    <3> HIDE DEF n
    <3> QED BY <2>1, <3>1 DEF Packets
  <2>4. u[i] = r[i + 1] - h /\ u[i - 1] = r[i] - h /\ t[i] = q[i + 1]
    BY <1>2, <1>6, <2>1
  <2> QED BY <1>3, <2>2, <2>3, <2>4
<1>8. PartialSums(t, u)
  <2>1. u[0] = 0
    BY <1>2, <1>5, <1>6
  <2> QED BY <1>2, <1>6, <1>7, <2>1 DEF PartialSums
<1>9. u[n - 1] = b - h
  BY <1>1, <1>2, <1>6
<1>10. SumsTo(t, b - h)
  BY <1>2, <1>8, <1>9 DEF SumsTo
<1> QED BY <1>10 DEF t, h

LEMMA NextAccounted == IInv /\ Accounted /\ [Next]_vars => Accounted'
<1> SUFFICES ASSUME IInv, Accounted, [Next]_vars PROVE Accounted'
  OBVIOUS
<1>0. /\ low \in Seq(Packets) /\ high \in Seq(Packets)
      /\ size_low \in Int /\ size_high \in Int
      /\ SumsTo(low, size_low) /\ SumsTo(high, size_high)
  BY DEF IInv, QueuesOK, Accounted
<1>1. ASSUME UNCHANGED vars PROVE Accounted'
  BY <1>0, <1>1 DEF vars, queues, Accounted
<1>2. ASSUME NEW p \in Packets, PushLow(p) PROVE Accounted'
  <2>1. SumsTo(Append(low, p), size_low + p.size)
    BY <1>0, AppendSum
  <2> QED BY <1>0, <1>2, <2>1 DEF PushLow, Accounted
<1>3. ASSUME NEW p \in Packets, PushHigh(p) PROVE Accounted'
  <2>1. SumsTo(Append(high, p), size_high + p.size)
    BY <1>0, AppendSum
  <2>2. CASE ~(size_high + p.size > 2 * MaxSize)
    BY <1>0, <1>3, <2>1, <2>2 DEF PushHigh, Accounted
  <2> QED BY <1>1, <1>3, <2>2 DEF PushHigh
<1>4. ASSUME NEW p \in Packets, low # <<>>, MakeRoom(p) PROVE Accounted'
  <2> DEFINE trimmed == ~config.disable_trim /\ size_high + TrimSize <= 2 * MaxSize
             l == Last(low).size
  <2>1. /\ low' = Append(Front(low), p) /\ size_low' = size_low - l + p.size
        /\ high' = IF trimmed THEN Append(high, Header) ELSE high
        /\ size_high' = IF trimmed THEN size_high + TrimSize ELSE size_high
    BY <1>4 DEF MakeRoom
  <2>2. Front(low) \in Seq(Packets) /\ l \in Int
    <3>1. Front(low) \in Seq(Packets) /\ Last(low) \in Packets
      BY <1>0, <1>4 DEF Front, Last
    <3> QED BY <3>1 DEF Packets
  <2>3. SumsTo(Front(low), size_low - l)
    BY <1>0, <1>4, FrontSum
  <2>4. size_low - l \in Int
    BY <1>0, <2>2
  <2> HIDE DEF l, trimmed
  <2>5. SumsTo(low', size_low')
    BY <2>1, <2>2, <2>3, <2>4, AppendSum
  <2>6. SumsTo(Append(high, Header), size_high + Header.size)
    BY <1>0, HeaderIsPacket, AppendSum
  <2>7. Header.size = TrimSize
    BY DEF Header, Packet
  <2>8. SumsTo(high', size_high')
    BY <1>0, <2>1, <2>6, <2>7
  <2> QED BY <2>5, <2>8 DEF Accounted
<1>5. ASSUME NEW packet \in Packets, ReceiveLow(packet) PROVE Accounted'
  <2> DEFINE p == Arriving(packet)
  <2>1. p \in Packets
    BY CompositeQueueAssumption DEF Arriving, Packet, Packets, Kinds
  <2>2. \/ PushLow(p)
        \/ low # <<>> /\ MakeRoom(p)
        \/ UNCHANGED vars \/ PushHigh(Header)
    BY <1>5 DEF ReceiveLow, Refuse
  <2> HIDE DEF p
  <2> QED BY <1>1, <1>2, <1>3, <1>4, <2>1, <2>2, HeaderIsPacket
<1>6. CASE CompleteService
  <2>1. /\ low' = IF serv = "low" THEN Tail(low) ELSE low
        /\ size_low' = IF serv = "low" THEN size_low - Head(low).size ELSE size_low
        /\ high' = IF serv = "high" THEN Tail(high) ELSE high
        /\ size_high' = IF serv = "high" THEN size_high - Head(high).size ELSE size_high
    BY <1>6 DEF CompleteService
  <2>2. (serv = "low" => low # <<>>) /\ (serv = "high" => high # <<>>)
    BY DEF IInv, ServiceOK, ServiceIsRight
  <2>3. SumsTo(low', size_low')
    BY <1>0, <2>1, <2>2, TailSum
  <2>4. SumsTo(high', size_high')
    BY <1>0, <2>1, <2>2, TailSum
  <2> QED BY <2>3, <2>4 DEF Accounted
<1>7. CASE ReceiveData
  <2>1. PICK s \in Sizes : ReceiveLow(Packet("data", s))
    BY <1>7 DEF ReceiveData
  <2>2. Packet("data", s) \in Packets
    BY CompositeQueueAssumption DEF Packet, Packets, Kinds
  <2> QED BY <1>5, <2>1, <2>2
<1>8. CASE ReceiveHeader \/ ReceiveProbe \/ ReceiveLowTrim
  <2>1. Packet("probe", TrimSize) \in Packets /\ Packet("low_trim", TrimSize) \in Packets
    BY CompositeQueueAssumption DEF Packet, Packets, Kinds
  <2> QED BY <1>3, <1>5, <1>8, <2>1, HeaderIsPacket
          DEF ReceiveHeader, ReceiveProbe, ReceiveLowTrim
<1> QED BY <1>1, <1>6, <1>7, <1>8 DEF Next

(* The counters the limits are kept by are the bytes of the packets that     *)
(* wait, whatever is trimmed, booted and served, for all sizes and limits.   *)
THEOREM CountersAreExact == Spec => []BytesAreBounded
<1>1. Init => Accounted
  BY EmptySum DEF Init, Accounted
<1>2. ASSUME IInv, Accounted PROVE BytesAreBounded
  <2>1. /\ low \in Seq(Packets) /\ high \in Seq(Packets) /\ WithinLimits
        /\ SumsTo(low, size_low) /\ SumsTo(high, size_high)
    BY <1>2 DEF IInv, QueuesOK, Accounted
  <2> QED BY <2>1, BytesIsSum DEF BytesAreBounded
<1> QED BY <1>1, <1>2, InitOK, NextOK, NextAccounted, PTL DEF Spec
=============================================================================
