------------------------ MODULE UecTransport_proofs ------------------------
(***************************************************************************)
(* Proofs about UecTransport.  There are two inductive invariants.  IInv   *)
(* is about the sets of psns: a psn is never in flight and waiting for     *)
(* retransmission at once, and the source forgets a psn only when the sink *)
(* has it; the lemmas say of each operator on the sender what it does to   *)
(* the two sets (SrcKeeps, SrcOK) and of each operator on the sink that it *)
(* loses no psn (SinkKeeps).  CInv counts: the bytes in flight, the send   *)
(* times and the timer, the place in the queue of the NIC, the packets out *)
(* of order, and the payload received; the lemmas say how each operator    *)
(* moves these (Moves, Outcome, Counts).                                   *)
(***************************************************************************)
EXTENDS UecTransport, TLAPS, WellFoundedInduction, FiniteSetTheorems,
        FunctionTheorems, SequenceTheorems

Below(n) == 0 .. (n - 1)

SrcFields ==
  {"started", "highest_sent", "backlog", "tx", "send_times", "rto", "rtx", "rts",
   "tries", "in_flight", "cwnd", "recvd_bytes", "blocked", "requests",
   "port_free", "done", "sent"}
SinkFields ==
  {"expected", "rx", "ooo", "ack_request", "accepted", "received_bytes",
   "recvd_bytes", "replies"}

IsSrc(s)  == s = [f \in SrcFields |-> s[f]]
IsSink(k) == k = [f \in SinkFields |-> k[f]]

SrcOK(s) ==
  /\ IsSrc(s) /\ s.highest_sent \in Nat
  /\ s.tx \subseteq Below(s.highest_sent) /\ s.rtx \subseteq Below(s.highest_sent)
  /\ s.tx \cap s.rtx = {}
  /\ \A m \in s.sent : m.psn \in Below(s.highest_sent)

Known(s) == s.tx \cup s.rtx

(* From s to t the source takes new psns, and forgets none. *)
SrcKeeps(s, t) ==
  /\ SrcOK(t)
  /\ s.highest_sent <= t.highest_sent
  /\ \A p \in Below(t.highest_sent) :
       p \in Known(s) \/ p >= s.highest_sent => p \in Known(t)

(* What an ACK says, the sink k has. *)
AckHolds(m, k) ==
  m.kind = "ack" => \A p \in Nat : p < m.cum_ack \/ p \in m.sacked => Has(k, p)

SinkOK(k, n) ==
  /\ IsSink(k) /\ k.expected \in Nat
  /\ k.rx \subseteq Below(n)
  /\ \A m \in k.replies : AckHolds(m, k)

SinkKeeps(k, l) == \A p \in Nat : Has(k, p) => Has(l, p)

IInv ==
  /\ SrcOK(src) /\ src.sent = {}
  /\ SinkOK(sink, src.highest_sent) /\ sink.replies = {}
  /\ \A m \in fwd : m.psn \in Below(src.highest_sent)
  /\ \A m \in back : AckHolds(m, sink)
  /\ \A p \in Below(src.highest_sent) : p \in Known(src) \/ Has(sink, p)

-----------------------------------------------------------------------------
(* Every set of naturals that is not empty has a least element. *)
LEMMA LeastExists ==
  ASSUME NEW S \in SUBSET Nat, S # {}
  PROVE  \E p \in S : \A q \in S : p <= q
<1> DEFINE R == OpToRel(<, Nat)
<1>1. PICK x \in S : \A y \in S : ~ (<<y, x>> \in R)
  BY WFMin, NatLessThanWellFounded, Zenon
<1>2. \A u, v \in Nat : u < v => <<u, v>> \in R
  BY DEF OpToRel
<1>3. \A y \in S : ~ (y < x)
  <2> HIDE DEF R
  <2> QED BY <1>1, <1>2
<1>4. QED
  BY <1>3

(* Least returns a member of the set. *)
LEMMA LeastIn ==
  ASSUME NEW S \in SUBSET Nat, S # {}
  PROVE  Least(S) \in S
BY LeastExists DEF Least

(* NextMissing returns the end of the run of received psns after "from". *)
LEMMA NextMissingRun ==
  ASSUME NEW n \in Nat, NEW rx \in SUBSET Below(n), NEW from \in Nat
  PROVE  /\ NextMissing(rx, from) \in Nat /\ NextMissing(rx, from) > from
         /\ NextMissing(rx, from) \notin rx
         /\ \A q \in (from + 1) .. (NextMissing(rx, from) - 1) : q \in rx
<1> DEFINE T == {p \in Nat : p > from /\ p \notin rx}
<1>1. from + n + 1 \in T
  BY DEF Below
<1>2. PICK p \in T : \A q \in T : p <= q
  BY <1>1, LeastExists
<1>3. p \in {q + 1 : q \in rx \cup {from}}
  <2>1. p - 1 \in Nat /\ (p - 1 = from \/ p - 1 \in rx)
    BY <1>2
  <2>2. p = (p - 1) + 1
    BY <1>2
  <2>3. QED
    BY <2>1, <2>2
<1>4. \A q \in (from + 1) .. (p - 1) : q \in rx
  BY <1>2
<1>5. \E r \in {q + 1 : q \in rx \cup {from}} :
        r > from /\ r \notin rx /\ \A q \in (from + 1) .. (r - 1) : q \in rx
  BY <1>2, <1>3, <1>4
<1> DEFINE next == NextMissing(rx, from)
<1>6. /\ next \in {q + 1 : q \in rx \cup {from}}
      /\ next > from /\ next \notin rx /\ \A q \in (from + 1) .. (next - 1) : q \in rx
  BY <1>5 DEF NextMissing
<1>7. next \in Nat
  BY <1>6 DEF Below
<1>8. QED
  BY <1>6, <1>7
-----------------------------------------------------------------------------
(* The list of send times. *)

(* Nth enumerates a set of positions in ascending order.  The rank of a      *)
(* position is one-to-one, so that every rank up to the size is taken.       *)
LEMMA NthAscends ==
  ASSUME NEW I, IsFiniteSet(I), \A i \in I : i \in Nat /\ i >= 1
  PROVE  /\ Cardinality(I) \in Nat
         /\ \A n \in 1..Cardinality(I) : Nth(I, n) \in I
         /\ \A m, n \in 1..Cardinality(I) : m < n => Nth(I, m) < Nth(I, n)
         /\ \A i \in I : \E n \in 1..Cardinality(I) : Nth(I, n) = i
         /\ 1 \in I => Cardinality(I) >= 1 /\ Nth(I, 1) = 1
<1> DEFINE upto(i) == {h \in I : h <= i}
           rank(i) == Cardinality(upto(i))
           C == Cardinality(I)
<1>1. C \in Nat
  BY FS_CardinalityType
<1>2. ASSUME NEW i \in I
      PROVE  IsFiniteSet(upto(i)) /\ rank(i) \in 1..C
  <2>1. IsFiniteSet(upto(i)) /\ rank(i) <= C
    BY <1>1, FS_Subset
  <2>2. upto(i) # {}
    OBVIOUS
  <2>3. rank(i) \in Nat /\ rank(i) # 0
    BY <2>1, <2>2, FS_EmptySet, FS_CardinalityType
  <2> QED BY <1>1, <2>1, <2>3
<1>3. ASSUME NEW i \in I, NEW j \in I, i < j
      PROVE  rank(i) < rank(j)
  <2>1. /\ upto(i) \cup {j} \subseteq upto(j) /\ j \notin upto(i)
    BY <1>3
  <2>2. Cardinality(upto(i) \cup {j}) = rank(i) + 1
    <3> HIDE DEF upto
    <3> QED BY <1>2, <2>1, FS_AddElement
  <2>3. Cardinality(upto(i) \cup {j}) <= rank(j)
    BY <1>2, <2>1, FS_Subset
  <2>4. rank(i) \in Int /\ rank(j) \in Int
    BY <1>2
  <2> QED BY <2>2, <2>3, <2>4
<1> HIDE DEF rank, C
<1>4. \A n \in 1..C : \E i \in I : rank(i) = n
  <2> DEFINE f == [i \in I |-> rank(i)]
  <2>1. f \in [I -> 1..C]
    BY <1>2
  <2>2. \A a, b \in I : f[a] = f[b] => a = b
    <3> SUFFICES ASSUME NEW a \in I, NEW b \in I, a # b PROVE rank(a) # rank(b)
      OBVIOUS
    <3>1. a < b \/ b < a
      OBVIOUS
    <3>2. rank(a) \in 1..C /\ rank(b) \in 1..C
      BY <1>2
    <3> QED BY <1>3, <3>1, <3>2
  <2>3. f \in Injection(I, 1..C)
    BY <2>1, <2>2, Fun_IsInj
  <2>4. IsFiniteSet(1..C) /\ Cardinality(1..C) = C
    BY <1>1, FS_Interval
  <2>5. f \in Surjection(I, 1..C)
    BY <2>3, <2>4, FS_Injection DEF C
  <2>6. \A i \in I : f[i] = rank(i)
    OBVIOUS
  <2> HIDE DEF f
  <2>7. \A n \in 1..C : \E i \in I : f[i] = n
    BY <2>5, Fun_SurjectionProperties
  <2> QED BY <2>6, <2>7
<1>5. ASSUME NEW n \in 1..C
      PROVE  Nth(I, n) \in I /\ rank(Nth(I, n)) = n
  BY <1>4 DEF Nth, rank
<1>6. ASSUME NEW m \in 1..C, NEW n \in 1..C, m < n
      PROVE  Nth(I, m) < Nth(I, n)
  <2>1. /\ Nth(I, m) \in I /\ rank(Nth(I, m)) = m
        /\ Nth(I, n) \in I /\ rank(Nth(I, n)) = n
    BY <1>5
  <2>2. ~(Nth(I, n) < Nth(I, m)) /\ Nth(I, m) # Nth(I, n)
    BY <1>1, <1>3, <1>6, <2>1
  <2> QED BY <2>1, <2>2
<1>7. ASSUME NEW i \in I
      PROVE  rank(i) \in 1..C /\ Nth(I, rank(i)) = i
  <2>1. rank(i) \in 1..C
    BY <1>2
  <2> DEFINE j == Nth(I, rank(i))
  <2>2. j \in I /\ rank(j) = rank(i)
    BY <1>5, <2>1
  <2> HIDE DEF j
  <2>3. ~(i < j) /\ ~(j < i)
    BY <1>1, <1>3, <2>1, <2>2
  <2> QED BY <2>1, <2>2, <2>3 DEF j
<1>8. ASSUME 1 \in I
      PROVE  C >= 1 /\ Nth(I, 1) = 1
  <2>1. upto(1) = {1}
    BY <1>8
  <2>2. rank(1) = 1
    BY <2>1, FS_Singleton DEF rank
  <2> QED BY <1>7, <1>8, <2>2
<1> QED BY <1>1, <1>5, <1>6, <1>7, <1>8 DEF C

(* No psn twice *)
Distinct(q) == \A i, j \in 1..Len(q) : q[i] = q[j] => i = j

(* What is left of a sequence: the other psns, none of them twice, and the   *)
(* oldest one stays where it is.                                             *)
LEMMA RemainingIs ==
  ASSUME NEW q \in Seq(Int), NEW psns
  PROVE  LET r == Remaining(q, psns)
         IN /\ r \in Seq(Int)
            /\ RangeOf(r) = RangeOf(q) \ psns
            /\ Distinct(q) => Distinct(r)
            /\ q # <<>> /\ Head(q) \notin psns => r # <<>> /\ Head(r) = Head(q)
<1> DEFINE kept == {i \in 1..Len(q) : q[i] \notin psns}
           C == Cardinality(kept)
           r == Remaining(q, psns)
<1>1. Len(q) \in Nat /\ \A i \in 1..Len(q) : q[i] \in Int
  OBVIOUS
<1>2. /\ C \in Nat
      /\ \A n \in 1..C : Nth(kept, n) \in kept
      /\ \A m, n \in 1..C : m < n => Nth(kept, m) < Nth(kept, n)
      /\ \A i \in kept : \E n \in 1..C : Nth(kept, n) = i
      /\ 1 \in kept => C >= 1 /\ Nth(kept, 1) = 1
  <2>1. IsFiniteSet(kept)
    <3>1. IsFiniteSet(1..Len(q))
      BY <1>1, FS_Interval
    <3> QED BY <3>1, FS_Subset
  <2>2. \A i \in kept : i \in Nat /\ i >= 1
    BY <1>1
  <2> HIDE DEF kept
  <2> QED BY <2>1, <2>2, NthAscends
<1>3. r = [n \in 1..C |-> q[Nth(kept, n)]]
  BY DEF Remaining
<1>4. \A i \in kept : i \in 1..Len(q) /\ q[i] \notin psns
  OBVIOUS
<1>5. \A i \in 1..Len(q) : q[i] \notin psns => i \in kept
  OBVIOUS
<1> HIDE DEF kept, C, r
<1>6. r \in Seq(Int) /\ Len(r) = C
  <2>1. r \in [1..C -> Int]
    BY <1>1, <1>2, <1>3, <1>4
  <2> QED BY <1>2, <2>1, SeqDef, LenProperties
<1>7. \A n \in 1..C : r[n] = q[Nth(kept, n)]
  BY <1>3
<1>8. RangeOf(r) = RangeOf(q) \ psns
  <2>1. ASSUME NEW n \in 1..C PROVE r[n] \in RangeOf(q) \ psns
    BY <1>2, <1>4, <1>7 DEF RangeOf
  <2>2. ASSUME NEW i \in 1..Len(q), q[i] \notin psns PROVE \E n \in 1..C : r[n] = q[i]
    BY <1>2, <1>5, <1>7, <2>2
  <2>3. RangeOf(r) = {r[n] : n \in 1..C}
    BY <1>6 DEF RangeOf
  <2>4. RangeOf(r) \subseteq RangeOf(q) \ psns
    BY <2>1, <2>3
  <2>5. RangeOf(q) \ psns \subseteq RangeOf(r)
    BY <2>2, <2>3 DEF RangeOf
  <2> QED BY <2>4, <2>5
<1>9. Distinct(q) => Distinct(r)
  <2> SUFFICES ASSUME Distinct(q), NEW m \in 1..C, NEW n \in 1..C, m # n
               PROVE  r[m] # r[n]
    BY <1>6 DEF Distinct
  <2>1. m < n \/ n < m
    BY <1>2
  <2>2. Nth(kept, m) \in 1..Len(q) /\ Nth(kept, n) \in 1..Len(q)
    BY <1>2, <1>4
  <2>3. Nth(kept, m) # Nth(kept, n)
    BY <1>2, <2>1, <2>2
  <2> QED BY <1>7, <2>2, <2>3 DEF Distinct
<1>10. ASSUME q # <<>>, Head(q) \notin psns PROVE r # <<>> /\ Head(r) = Head(q)
  <2>1. 1 \in 1..Len(q) /\ Head(q) = q[1]
    BY <1>10
  <2>2. C >= 1 /\ Nth(kept, 1) = 1
    BY <1>2, <1>5, <1>10, <2>1
  <2>3. r[1] = q[1] /\ Len(r) >= 1
    BY <1>2, <1>6, <1>7, <2>2
  <2> QED BY <1>6, <2>1, <2>3
<1> QED BY <1>6, <1>8, <1>9, <1>10 DEF r

-----------------------------------------------------------------------------
(* A psn put into the send records is known from then on. *)
LEMMA OutstandingFields ==
  ASSUME NEW s, IsSrc(s), NEW psn
  PROVE  LET t == Outstanding(s, psn)
         IN /\ IsSrc(t) /\ t.tx = s.tx \cup {psn} /\ t.rtx = s.rtx
            /\ t.highest_sent = s.highest_sent /\ t.sent = s.sent
            /\ t.port_free = s.port_free
<1>1. IsSrc(Outstanding(s, psn))
  BY DEF IsSrc, Outstanding
<1>2. QED
  BY <1>1 DEF IsSrc, Outstanding, SrcFields

(* A packet sent again moves from the queue to the send records. *)
LEMMA SendRtxKeeps ==
  ASSUME NEW s, SrcOK(s), s.rtx # {}
  PROVE  SrcKeeps(s, SendRtxPacket(s))
<1> DEFINE psn == Least(s.rtx)
           o == Outstanding(s, psn)
           p == DataPacket(s, psn, s.tries[psn] + 1, TRUE)
           t == SendRtxPacket(s)
<1>1. psn \in s.rtx /\ psn \in Below(s.highest_sent)
  <2>1. s.rtx \in SUBSET Nat
    BY DEF SrcOK, Below
  <2>2. QED
    BY <2>1, LeastIn DEF SrcOK
<1>2. /\ IsSrc(o) /\ o.tx = s.tx \cup {psn} /\ o.rtx = s.rtx
      /\ o.highest_sent = s.highest_sent /\ o.sent = s.sent
  BY OutstandingFields DEF SrcOK
<1>3. IsSrc(t)
  BY <1>2 DEF IsSrc, SendRtxPacket
<1>4. /\ t.tx = s.tx \cup {psn} /\ t.rtx = s.rtx \ {psn}
      /\ t.highest_sent = s.highest_sent /\ t.sent = s.sent \cup {p}
  BY <1>2 DEF IsSrc, SendRtxPacket, SrcFields
<1>5. p.psn = psn
  BY DEF DataPacket
<1> HIDE DEF psn, o, p, t
<1>6. SrcOK(t)
  BY <1>1, <1>3, <1>4, <1>5 DEF SrcOK
<1>7. SrcKeeps(s, t)
  BY <1>4, <1>6 DEF SrcKeeps, SrcOK, Known, Below
<1>8. QED
  BY <1>7 DEF t

(* A new packet takes the next psn. *)
LEMMA SendNewKeeps ==
  ASSUME NEW s, SrcOK(s)
  PROVE  SrcKeeps(s, SendNewPacket(s))
<1> DEFINE psn == s.highest_sent
           o == Outstanding(s, psn)
           t == SendNewPacket(s)
<1>1. /\ IsSrc(o) /\ o.tx = s.tx \cup {psn} /\ o.rtx = s.rtx /\ o.sent = s.sent
  BY OutstandingFields DEF SrcOK
<1>2. IsSrc(t)
  BY <1>1 DEF IsSrc, SendNewPacket
<1>3. PICK ar : t.sent = s.sent \cup {DataPacket(s, psn, 0, ar)}
  BY <1>1 DEF IsSrc, SendNewPacket, SrcFields
<1>4. /\ t.tx = s.tx \cup {psn} /\ t.rtx = s.rtx /\ t.highest_sent = psn + 1
  BY <1>1 DEF IsSrc, SendNewPacket, SrcFields
<1>5. DataPacket(s, psn, 0, ar).psn = psn
  BY DEF DataPacket
<1>6. psn \in Nat /\ psn \notin s.rtx
  BY DEF SrcOK, Below
<1> DEFINE p == DataPacket(s, psn, 0, ar)
<1> HIDE DEF o, t, p
<1>7. SrcOK(t)
  BY <1>2, <1>3, <1>4, <1>5, <1>6 DEF SrcOK, Below, p
<1>8. SrcKeeps(s, t)
  BY <1>4, <1>6, <1>7 DEF SrcKeeps, Known, Below
<1>9. QED
  BY <1>8 DEF t

(* A change of other fields only keeps everything. *)
LEMMA SameKeeps ==
  ASSUME NEW s, SrcOK(s), NEW t, IsSrc(t), t.tx = s.tx, t.rtx = s.rtx,
         t.highest_sent = s.highest_sent, t.sent = s.sent
  PROVE  SrcKeeps(s, t)
BY DEF SrcOK, SrcKeeps, Known, Below

LEMMA KeepsTrans ==
  ASSUME NEW s, NEW t, NEW u, SrcOK(s), SrcKeeps(s, t), SrcKeeps(t, u)
  PROVE  SrcKeeps(s, u)
BY DEF SrcOK, SrcKeeps, Known, Below

LEMMA SendPacketKeeps ==
  ASSUME NEW s, SrcOK(s)
  PROVE  SrcKeeps(s, SendPacket(s))
BY SendRtxKeeps, SendNewKeeps DEF SendPacket

LEMMA WaitForNicFields ==
  ASSUME NEW s, IsSrc(s)
  PROVE  LET t == WaitForNic(s)
         IN /\ IsSrc(t) /\ t.tx = s.tx /\ t.rtx = s.rtx
            /\ t.highest_sent = s.highest_sent /\ t.sent = s.sent
            /\ t.port_free = s.port_free
<1>1. IsSrc(WaitForNic(s))
  BY DEF IsSrc, WaitForNic
<1>2. QED
  BY <1>1 DEF IsSrc, WaitForNic, SrcFields

LEMMA WaitForNicKeeps ==
  ASSUME NEW s, SrcOK(s)
  PROVE  SrcKeeps(s, WaitForNic(s))
<1>1. IsSrc(s)
  BY DEF SrcOK
<1>2. QED
  BY <1>1, WaitForNicFields, SameKeeps

LEMMA PortFields ==
  ASSUME NEW s, IsSrc(s), NEW v
  PROVE  LET t == [s EXCEPT !.port_free = v]
         IN /\ IsSrc(t) /\ t.tx = s.tx /\ t.rtx = s.rtx
            /\ t.highest_sent = s.highest_sent /\ t.sent = s.sent
            /\ t.port_free = v
<1>1. IsSrc([s EXCEPT !.port_free = v])
  BY DEF IsSrc
<1>2. QED
  BY <1>1 DEF IsSrc, SrcFields

LEMMA PortKeeps ==
  ASSUME NEW s, SrcOK(s), NEW v
  PROVE  SrcKeeps(s, [s EXCEPT !.port_free = v])
<1>1. IsSrc(s)
  BY DEF SrcOK
<1>2. QED
  BY <1>1, PortFields, SameKeeps

(* sendIfPermitted keeps every psn, and leaves the queue alone if the port  *)
(* is still free when it returns.                                           *)
LEMMA SendIfPermittedKeeps ==
  ASSUME NEW s, SrcOK(s)
  PROVE  LET t == SendIfPermitted(s)
         IN SrcKeeps(s, t) /\ (t.port_free => t.rtx = s.rtx)
<1>1. CASE ~CanSend(s) \/ s.blocked
  <2>1. SendIfPermitted(s) = s
    BY <1>1 DEF SendIfPermitted
  <2>2. IsSrc(s)
    BY DEF SrcOK
  <2>3. SrcKeeps(s, s)
    BY <2>2, SameKeeps
  <2>4. QED
    BY <2>1, <2>3
<1>2. CASE CanSend(s) /\ ~s.blocked /\ ~s.port_free
  <2>1. SendIfPermitted(s) = WaitForNic(s)
    BY <1>2 DEF SendIfPermitted
  <2>2. IsSrc(s)
    BY DEF SrcOK
  <2>3. WaitForNic(s).rtx = s.rtx
    BY <2>2, WaitForNicFields
  <2>4. QED
    BY <2>1, <2>3, WaitForNicKeeps
<1>3. CASE CanSend(s) /\ ~s.blocked /\ s.port_free
  <2> DEFINE u == SendPacket(s)
             t == [u EXCEPT !.port_free = FALSE]
  <2>1. SrcKeeps(s, u) /\ SrcOK(u) /\ IsSrc(u)
    BY SendPacketKeeps DEF SrcKeeps, SrcOK
  <2>2. IsSrc(t) /\ t.port_free = FALSE
    <3> HIDE DEF u
    <3> QED BY <2>1, PortFields
  <2>3. SrcKeeps(s, t) /\ SrcOK(t)
    <3>1. SrcKeeps(u, t)
      <4> HIDE DEF u
      <4> QED BY <2>1, PortKeeps
    <3> HIDE DEF u, t
    <3>2. SrcKeeps(s, t)
      BY <2>1, <3>1, KeepsTrans
    <3>3. QED
      BY <3>2 DEF SrcKeeps
  <2>4. SendIfPermitted(s) = IF CanSend(t) THEN WaitForNic(t) ELSE t
    BY <1>3 DEF SendIfPermitted
  <2> HIDE DEF t
  <2>5. SrcKeeps(s, WaitForNic(t)) /\ WaitForNic(t).port_free = FALSE
    BY <2>2, <2>3, WaitForNicKeeps, WaitForNicFields, KeepsTrans
  <2>6. CASE CanSend(t)
    BY <2>4, <2>5, <2>6
  <2>7. CASE ~CanSend(t)
    BY <2>2, <2>3, <2>4, <2>7
  <2>8. QED
    BY <2>6, <2>7
<1>4. QED
  BY <1>1, <1>2, <1>3

LEMMA StartFlowKeeps ==
  ASSUME NEW s, SrcOK(s)
  PROVE  SrcKeeps(s, StartFlow(s))
<1> DEFINE b == [s EXCEPT !.started = TRUE]
           u == SendNewPacket(b)
           t == IF b.port_free THEN [u EXCEPT !.port_free = FALSE] ELSE b
<1>1. /\ IsSrc(b) /\ b.tx = s.tx /\ b.rtx = s.rtx
      /\ b.highest_sent = s.highest_sent /\ b.sent = s.sent
  <2>1. IsSrc(s)
    BY DEF SrcOK
  <2>2. IsSrc(b)
    BY <2>1 DEF IsSrc
  <2>3. QED
    BY <2>1, <2>2 DEF IsSrc, SrcFields
<1>2. StartFlow(s) = IF t.backlog > 0 THEN WaitForNic(t) ELSE t
  BY DEF StartFlow
<1> HIDE DEF b
<1>3. SrcKeeps(s, b) /\ SrcOK(b)
  BY <1>1, SameKeeps DEF SrcKeeps
<1>4. SrcKeeps(b, u) /\ SrcOK(u)
  BY <1>3, SendNewKeeps DEF SrcKeeps
<1> HIDE DEF u
<1>5. SrcKeeps(u, [u EXCEPT !.port_free = FALSE])
  BY <1>4, PortKeeps
<1>6. SrcKeeps(b, [u EXCEPT !.port_free = FALSE])
  BY <1>3, <1>4, <1>5, KeepsTrans
<1>7. SrcKeeps(s, [u EXCEPT !.port_free = FALSE])
  BY <1>3, <1>6, KeepsTrans
<1>8. SrcKeeps(s, t) /\ SrcOK(t)
  BY <1>3, <1>7 DEF SrcKeeps
<1> HIDE DEF t
<1>9. SrcKeeps(s, WaitForNic(t))
  BY <1>8, WaitForNicKeeps, KeepsTrans
<1>10. QED
  BY <1>2, <1>8, <1>9

LEMMA TimeToSendKeeps ==
  ASSUME NEW s, SrcOK(s)
  PROVE  SrcKeeps(s, TimeToSend(s))
<1> DEFINE u == [s EXCEPT !.blocked = FALSE, !.requests = @ - 1]
           t == SendPacket(u)
           v == [u EXCEPT !.port_free = u.requests = 0]
<1>1. /\ IsSrc(u) /\ u.tx = s.tx /\ u.rtx = s.rtx
      /\ u.highest_sent = s.highest_sent /\ u.sent = s.sent
  <2>1. IsSrc(s)
    BY DEF SrcOK
  <2>2. IsSrc(u)
    BY <2>1 DEF IsSrc
  <2>3. QED
    BY <2>1, <2>2 DEF IsSrc, SrcFields
<1>2. TimeToSend(s) = IF ~CanSend(u) THEN v
                      ELSE IF CanSend(t) THEN WaitForNic(t) ELSE t
  BY DEF TimeToSend
<1> HIDE DEF u
<1>3. SrcKeeps(s, u) /\ SrcOK(u)
  BY <1>1, SameKeeps DEF SrcKeeps
<1>4. SrcKeeps(u, t) /\ SrcOK(t)
  BY <1>3, SendPacketKeeps DEF SrcKeeps
<1>5. SrcKeeps(u, v)
  BY <1>3, PortKeeps
<1> HIDE DEF t, v
<1>6. SrcKeeps(u, WaitForNic(t))
  BY <1>3, <1>4, WaitForNicKeeps, KeepsTrans
<1>7. SrcKeeps(u, TimeToSend(s))
  BY <1>2, <1>4, <1>5, <1>6
<1>8. QED
  BY <1>3, <1>7, KeepsTrans

LEMMA SendRTSKeeps ==
  ASSUME NEW s, SrcOK(s), NEW allowed
  PROVE  SrcKeeps(s, SendRTS(s, allowed))
<1> DEFINE psn == s.highest_sent
           o == Outstanding(s, psn)
           p == [kind |-> "rts", psn |-> psn, try |-> 0, size |-> Hdr, ar |-> TRUE]
           t == [o EXCEPT !.highest_sent = psn + 1, !.rts = @ \cup {psn},
                          !.sent = @ \cup {p}]
<1>1. /\ IsSrc(o) /\ o.tx = s.tx \cup {psn} /\ o.rtx = s.rtx /\ o.sent = s.sent
  BY OutstandingFields DEF SrcOK
<1>2. IsSrc(t)
  <2> HIDE DEF o, p
  <2> QED BY <1>1 DEF IsSrc
<1>3. /\ t.tx = s.tx \cup {psn} /\ t.rtx = s.rtx /\ t.highest_sent = psn + 1
      /\ t.sent = s.sent \cup {p}
  <2> HIDE DEF o, p
  <2> QED BY <1>1 DEF IsSrc, SrcFields
<1>4. p.psn = psn
  OBVIOUS
<1>5. psn \in Nat /\ psn \notin s.rtx
  BY DEF SrcOK, Below
<1>6. SendRTS(s, allowed) = IF ~allowed THEN s ELSE t
  BY DEF SendRTS
<1> HIDE DEF o, p, t
<1>7. SrcOK(t)
  BY <1>2, <1>3, <1>4, <1>5 DEF SrcOK, Below
<1>8. SrcKeeps(s, t)
  BY <1>3, <1>5, <1>7 DEF SrcKeeps, Known, Below
<1>9. SrcKeeps(s, s)
  BY SameKeeps DEF SrcOK
<1>10. QED
  BY <1>6, <1>8, <1>9

-----------------------------------------------------------------------------
LEMMA DelFields ==
  ASSUME NEW s, IsSrc(s), NEW psns
  PROVE  LET t == DelFromSendTimes(s, psns)
         IN /\ IsSrc(t) /\ t.tx = s.tx /\ t.rtx = s.rtx
            /\ t.highest_sent = s.highest_sent /\ t.sent = s.sent
<1> DEFINE q == Remaining(s.send_times, psns)
<1>1. DelFromSendTimes(s, psns) = [s EXCEPT !.send_times = q]
  BY DEF DelFromSendTimes
<1> HIDE DEF q
<1>2. IsSrc([s EXCEPT !.send_times = q])
  BY DEF IsSrc
<1>3. QED
  BY <1>1, <1>2 DEF IsSrc, SrcFields

LEMMA RecalculateFields ==
  ASSUME NEW s, IsSrc(s)
  PROVE  LET t == RecalculateRTO(s)
         IN /\ IsSrc(t) /\ t.tx = s.tx /\ t.rtx = s.rtx
            /\ t.highest_sent = s.highest_sent /\ t.sent = s.sent
<1>1. IsSrc(RecalculateRTO(s))
  BY DEF IsSrc, RecalculateRTO
<1>2. QED
  BY <1>1 DEF IsSrc, RecalculateRTO, SrcFields

(* A packet whose send record is dropped and that is queued for              *)
(* retransmission stays known, and is still queued if the port is free.      *)
LEMMA QueueForRtxKeeps ==
  ASSUME NEW s, SrcOK(s), NEW psn \in s.tx, NEW f, IsSrc(f),
         f.tx = s.tx \ {psn}, f.rtx = s.rtx,
         f.highest_sent = s.highest_sent, f.sent = s.sent
  PROVE  LET q == QueueForRtx(f, psn)
         IN SrcKeeps(s, q) /\ (q.port_free => psn \in q.rtx)
<1> DEFINE g == [f EXCEPT !.rtx = @ \cup {psn}]
<1>1. IsSrc(g)
  BY DEF IsSrc
<1>2. /\ g.tx = s.tx \ {psn} /\ g.rtx = s.rtx \cup {psn}
      /\ g.highest_sent = s.highest_sent /\ g.sent = s.sent
  BY <1>1 DEF IsSrc, SrcFields
<1>3. QueueForRtx(f, psn) = SendIfPermitted(g)
  BY DEF QueueForRtx
<1> HIDE DEF g
<1>4. SrcOK(g)
  BY <1>1, <1>2 DEF SrcOK
<1>5. SrcKeeps(s, g)
  BY <1>2, <1>4 DEF SrcKeeps, Known, SrcOK, Below
<1>6. /\ SrcKeeps(g, SendIfPermitted(g))
      /\ SendIfPermitted(g).port_free => SendIfPermitted(g).rtx = g.rtx
  BY <1>4, SendIfPermittedKeeps
<1>7. QED
  BY <1>2, <1>3, <1>5, <1>6, KeepsTrans

LEMMA ProcessNackKeeps ==
  ASSUME NEW s, SrcOK(s), NEW m, NEW w
  PROVE  SrcKeeps(s, ProcessNack(s, m, w))
<1> DEFINE e == [s EXCEPT !.tx = @ \ {m.psn}, !.cwnd = w,
                          !.in_flight = @ - Size(s, m.psn)]
           f == DelFromSendTimes(e, {m.psn})
           q == QueueForRtx(f, m.psn)
           r == IF s.rto = m.psn THEN RecalculateRTO(q) ELSE q
<1>1. CASE m.psn \notin s.tx
  <2>1. ProcessNack(s, m, w) = s
    BY <1>1 DEF ProcessNack
  <2>2. QED
    BY <2>1, SameKeeps DEF SrcOK
<1>2. CASE m.psn \in s.tx
  <2>1. IsSrc(s)
    BY DEF SrcOK
  <2>2. /\ IsSrc(e) /\ e.tx = s.tx \ {m.psn} /\ e.rtx = s.rtx
        /\ e.highest_sent = s.highest_sent /\ e.sent = s.sent
    <3>1. IsSrc(e)
      BY <2>1 DEF IsSrc
    <3>2. QED
      BY <2>1, <3>1 DEF IsSrc, SrcFields
  <2>3. ProcessNack(s, m, w) = SendIfPermitted(r)
    BY <1>2 DEF ProcessNack
  <2> HIDE DEF e
  <2>4. /\ IsSrc(f) /\ f.tx = s.tx \ {m.psn} /\ f.rtx = s.rtx
        /\ f.highest_sent = s.highest_sent /\ f.sent = s.sent
    BY <2>2, DelFields
  <2> HIDE DEF f
  <2>5. SrcKeeps(s, q) /\ SrcOK(q)
    BY <1>2, <2>4, QueueForRtxKeeps DEF SrcKeeps
  <2> HIDE DEF q
  <2>6. SrcKeeps(q, RecalculateRTO(q)) /\ SrcKeeps(q, q)
    BY <2>5, RecalculateFields, SameKeeps DEF SrcOK
  <2>7. SrcKeeps(s, r) /\ SrcOK(r)
    BY <2>5, <2>6, KeepsTrans DEF SrcKeeps
  <2> HIDE DEF r
  <2>8. QED
    BY <2>3, <2>7, SendIfPermittedKeeps, KeepsTrans
<1>3. QED
  BY <1>1, <1>2

(* The assertion of sendRtxPacket holds in the last branch: if the port is  *)
(* free when sendIfPermitted returns, the packet has not been sent.          *)
LEMMA RtxTimerExpiredKeeps ==
  ASSUME NEW s, SrcOK(s), Head(s.send_times) \in s.tx, NEW allowed
  PROVE  SrcKeeps(s, RtxTimerExpired(s, allowed))
<1> DEFINE psn == Head(s.send_times)
           size == Size(s, psn)
           d == [s EXCEPT !.tx = @ \ {psn}]
           e == RecalculateRTO(DelFromSendTimes(d, {psn}))
           f == [e EXCEPT !.in_flight = @ - size, !.cwnd = Larger(@ - size, Mtu)]
           q == QueueForRtx(f, psn)
           t == SendRtxPacket(q)
<1>1. IsSrc(s)
  BY DEF SrcOK
<1>2. /\ IsSrc(d) /\ d.tx = s.tx \ {psn} /\ d.rtx = s.rtx
      /\ d.highest_sent = s.highest_sent /\ d.sent = s.sent
  <2> HIDE DEF psn
  <2>1. IsSrc(d)
    BY <1>1 DEF IsSrc
  <2>2. QED
    BY <1>1, <2>1 DEF IsSrc, SrcFields
<1>3. RtxTimerExpired(s, allowed) =
        IF s.rtx # {} THEN q
        ELSE IF q.cwnd < size + q.in_flight THEN SendRTS(q, allowed)
        ELSE IF q.port_free THEN [t EXCEPT !.port_free = FALSE]
        ELSE [q EXCEPT !.requests = @ + 1]
  BY DEF RtxTimerExpired
<1> HIDE DEF d
<1>4. /\ IsSrc(e) /\ e.tx = s.tx \ {psn} /\ e.rtx = s.rtx
      /\ e.highest_sent = s.highest_sent /\ e.sent = s.sent
  BY <1>2, DelFields, RecalculateFields
<1> HIDE DEF e
<1>5. /\ IsSrc(f) /\ f.tx = s.tx \ {psn} /\ f.rtx = s.rtx
      /\ f.highest_sent = s.highest_sent /\ f.sent = s.sent
  <2> HIDE DEF size, psn
  <2>1. IsSrc(f)
    BY <1>4 DEF IsSrc
  <2>2. QED
    BY <1>4, <2>1 DEF IsSrc, SrcFields
<1> HIDE DEF f
<1>6. /\ SrcKeeps(s, q) /\ SrcOK(q) /\ IsSrc(q)
      /\ q.port_free => q.rtx # {}
  BY <1>5, QueueForRtxKeeps DEF SrcKeeps, SrcOK
<1> HIDE DEF q, psn, size
<1>7. SrcKeeps(q, SendRTS(q, allowed))
  BY <1>6, SendRTSKeeps
<1>8. ASSUME q.port_free
      PROVE  SrcKeeps(q, [t EXCEPT !.port_free = FALSE])
  <2>1. SrcKeeps(q, t) /\ SrcOK(t)
    BY <1>6, <1>8, SendRtxKeeps DEF SrcKeeps
  <2> HIDE DEF t
  <2>2. QED
    BY <1>6, <2>1, PortKeeps, KeepsTrans
<1>9. SrcKeeps(q, [q EXCEPT !.requests = @ + 1])
  <2> DEFINE u == [q EXCEPT !.requests = @ + 1]
  <2>1. IsSrc(u)
    BY <1>6 DEF IsSrc
  <2>2. /\ u.tx = q.tx /\ u.rtx = q.rtx
        /\ u.highest_sent = q.highest_sent /\ u.sent = q.sent
    BY <1>6, <2>1 DEF IsSrc, SrcFields
  <2> HIDE DEF u
  <2>3. SrcKeeps(q, u)
    BY <1>6, <2>1, <2>2, SameKeeps
  <2>4. QED
    BY <2>3 DEF u
<1> HIDE DEF t
<1>10. SrcKeeps(q, q)
  BY <1>6, SameKeeps
<1>11. SrcKeeps(q, RtxTimerExpired(s, allowed))
  BY <1>3, <1>7, <1>8, <1>9, <1>10
<1>12. QED
  BY <1>6, <1>11, KeepsTrans

(* An ACK makes the source forget what it acknowledges, and nothing else. *)
LEMMA ProcessAckKeeps ==
  ASSUME NEW s, SrcOK(s), NEW m, NEW w
  PROVE  LET acked == {p \in Psns : p < m.cum_ack} \cup m.sacked
             t == ProcessAck(s, m, w)
         IN /\ SrcOK(t) /\ s.highest_sent <= t.highest_sent
            /\ \A p \in Below(t.highest_sent) :
                 (p \in Known(s) /\ p \notin acked) \/ p >= s.highest_sent
                   => p \in Known(t)
<1> DEFINE acked == {p \in Psns : p < m.cum_ack} \cup m.sacked
           b == [s EXCEPT !.tx = @ \ acked, !.rtx = @ \ acked,
                          !.in_flight = @ + Bytes(s, s.rtx \cap acked)]
           d == DelFromSendTimes(b, s.tx \cap acked)
           c == Acknowledge(s, acked)
           newly == Larger(m.recvd_bytes - s.recvd_bytes, 0)
           a == [c EXCEPT !.in_flight = @ - newly, !.recvd_bytes = @ + newly,
                          !.cwnd = w]
           z == [a EXCEPT !.done = TRUE]
<1>1. IsSrc(s)
  BY DEF SrcOK
<1>2. /\ IsSrc(b) /\ b.tx = s.tx \ acked /\ b.rtx = s.rtx \ acked
      /\ b.highest_sent = s.highest_sent /\ b.sent = s.sent
  <2> HIDE DEF acked
  <2>1. IsSrc(b)
    BY <1>1 DEF IsSrc
  <2>2. QED
    BY <1>1, <2>1 DEF IsSrc, SrcFields
<1>3. c = IF s.rto \in s.tx \cap acked THEN RecalculateRTO(d) ELSE d
  BY DEF Acknowledge
<1>4. ProcessAck(s, m, w) = IF IsFinished(s, m.cum_ack) THEN z ELSE SendIfPermitted(a)
  BY DEF ProcessAck
<1> HIDE DEF b, acked, c
<1>5. /\ IsSrc(d) /\ d.tx = s.tx \ acked /\ d.rtx = s.rtx \ acked
      /\ d.highest_sent = s.highest_sent /\ d.sent = s.sent
  BY <1>2, DelFields
<1> HIDE DEF d
<1>6. /\ IsSrc(c) /\ c.tx = s.tx \ acked /\ c.rtx = s.rtx \ acked
      /\ c.highest_sent = s.highest_sent /\ c.sent = s.sent
  BY <1>3, <1>5, RecalculateFields
<1>7. /\ IsSrc(a) /\ a.tx = s.tx \ acked /\ a.rtx = s.rtx \ acked
      /\ a.highest_sent = s.highest_sent /\ a.sent = s.sent
  <2> HIDE DEF newly
  <2>1. IsSrc(a)
    BY <1>6 DEF IsSrc
  <2>2. QED
    BY <1>6, <2>1 DEF IsSrc, SrcFields
<1> HIDE DEF a
<1>8. SrcOK(a)
  BY <1>7 DEF SrcOK
<1>9. SrcKeeps(a, z)
  <2>1. /\ IsSrc(z) /\ z.tx = a.tx /\ z.rtx = a.rtx
        /\ z.highest_sent = a.highest_sent /\ z.sent = a.sent
    <3>1. IsSrc(z)
      BY <1>7 DEF IsSrc
    <3>2. QED
      BY <1>7, <3>1 DEF IsSrc, SrcFields
  <2> HIDE DEF z
  <2>2. QED
    BY <1>8, <2>1, SameKeeps
<1> HIDE DEF z
<1>10. SrcKeeps(a, ProcessAck(s, m, w))
  BY <1>4, <1>8, <1>9, SendIfPermittedKeeps
<1> DEFINE t == ProcessAck(s, m, w)
<1> HIDE DEF t
<1>11. SrcKeeps(a, t)
  BY <1>10 DEF t
<1>12. /\ SrcOK(t) /\ s.highest_sent <= t.highest_sent
       /\ \A p \in Below(t.highest_sent) :
            (p \in Known(s) /\ p \notin acked) \/ p >= s.highest_sent
              => p \in Known(t)
  BY <1>7, <1>11 DEF SrcKeeps, Known
<1>13. QED
  BY <1>12 DEF t, acked

-----------------------------------------------------------------------------
(* The sink. *)

LEMMA AckHoldsKept ==
  ASSUME NEW m, NEW k, NEW l, AckHolds(m, k), SinkKeeps(k, l)
  PROVE  AckHolds(m, l)
BY DEF AckHolds, SinkKeeps

LEMMA SackHolds ==
  ASSUME NEW k, NEW ref, NEW m
  PROVE  AckHolds(Sack(k, ref, m), k)
BY DEF AckHolds, Sack, Has

LEMMA NackHolds ==
  ASSUME NEW m, NEW k
  PROVE  AckHolds(Nack(m), k)
BY DEF AckHolds, Nack

(* A change of other fields only keeps everything. *)
LEMMA SameSink ==
  ASSUME NEW n \in Nat, NEW k, SinkOK(k, n), NEW l, IsSink(l),
         l.expected = k.expected, l.rx = k.rx, l.replies \subseteq k.replies
  PROVE  SinkOK(l, n) /\ SinkKeeps(k, l)
<1>1. SinkKeeps(k, l)
  BY DEF SinkKeeps, Has
<1>2. \A m \in l.replies : AckHolds(m, l)
  BY <1>1, AckHoldsKept DEF SinkOK
<1>3. QED
  BY <1>1, <1>2 DEF SinkOK

LEMMA ReplyKeeps ==
  ASSUME NEW n \in Nat, NEW k, SinkOK(k, n), NEW r, AckHolds(r, k)
  PROVE  SinkOK(Reply(k, r), n) /\ SinkKeeps(k, Reply(k, r))
<1> DEFINE l == Reply(k, r)
<1>1. IsSink(k)
  BY DEF SinkOK
<1>2. IsSink(l)
  BY <1>1 DEF IsSink, Reply
<1>3. l.expected = k.expected /\ l.rx = k.rx /\ l.replies = k.replies \cup {r}
  BY <1>1, <1>2 DEF IsSink, Reply, SinkFields
<1> HIDE DEF l
<1>4. SinkKeeps(k, l)
  BY <1>3 DEF SinkKeeps, Has
<1>5. \A m \in l.replies : AckHolds(m, l)
  BY <1>3, <1>4, AckHoldsKept DEF SinkOK
<1>6. SinkOK(l, n) /\ SinkKeeps(k, l)
  BY <1>2, <1>3, <1>4, <1>5 DEF SinkOK
<1>7. QED
  BY <1>6 DEF l

LEMMA AcceptKeeps ==
  ASSUME NEW n \in Nat, NEW k, SinkOK(k, n), NEW psn \in Below(n)
  PROVE  SinkOK(Accept(k, psn), n) /\ SinkKeeps(k, Accept(k, psn))
<1> DEFINE next == NextMissing(k.rx, psn)
           closed == (psn + 1) .. (next - 1)
           c == [k EXCEPT !.expected = next, !.rx = @ \ closed,
                          !.ooo = @ - Cardinality(closed)]
           o == [k EXCEPT !.rx = @ \cup {psn}, !.ooo = @ + 1]
           a == Accept(k, psn)
<1>1. IsSink(k) /\ k.expected \in Nat /\ k.rx \subseteq Below(n) /\ psn \in Nat
  BY DEF SinkOK, Below
<1>2. a = IF psn = k.expected THEN c ELSE o
  BY DEF Accept
<1>3. /\ next \in Nat /\ next > psn
      /\ \A q \in (psn + 1) .. (next - 1) : q \in k.rx
  BY <1>1, NextMissingRun
<1> HIDE DEF next, closed
<1>4. /\ IsSink(c) /\ c.expected = next /\ c.rx = k.rx \ closed
      /\ c.replies = k.replies
  <2>1. IsSink(c)
    BY <1>1 DEF IsSink
  <2>2. QED
    BY <1>1, <2>1 DEF IsSink, SinkFields
<1>5. /\ IsSink(o) /\ o.expected = k.expected /\ o.rx = k.rx \cup {psn}
      /\ o.replies = k.replies
  <2>1. IsSink(o)
    BY <1>1 DEF IsSink
  <2>2. QED
    BY <1>1, <2>1 DEF IsSink, SinkFields
<1> HIDE DEF c, o, a
<1>6. SinkKeeps(k, a)
  <2>1. CASE psn = k.expected
    BY <1>1, <1>2, <1>3, <1>4, <2>1 DEF SinkKeeps, Has, closed
  <2>2. CASE psn # k.expected
    BY <1>2, <1>5, <2>2 DEF SinkKeeps, Has
  <2>3. QED
    BY <2>1, <2>2
<1>7. IsSink(a) /\ a.expected \in Nat /\ a.rx \subseteq Below(n) /\ a.replies = k.replies
  BY <1>1, <1>2, <1>3, <1>4, <1>5
<1>8. \A m \in a.replies : AckHolds(m, a)
  BY <1>6, <1>7, AckHoldsKept DEF SinkOK
<1>9. SinkOK(a, n) /\ SinkKeeps(k, a)
  BY <1>6, <1>7, <1>8 DEF SinkOK
<1>10. QED
  BY <1>9 DEF a

LEMMA SinkTrans ==
  ASSUME NEW k, NEW l, NEW m, SinkKeeps(k, l), SinkKeeps(l, m)
  PROVE  SinkKeeps(k, m)
BY DEF SinkKeeps

(* A reply to a packet, with a field of the sink changed before it. *)
LEMMA ResetReplyKeeps ==
  ASSUME NEW n \in Nat, NEW k, SinkOK(k, n), NEW r, AckHolds(r, k), NEW v
  PROVE  LET l == Reply([k EXCEPT !.accepted = v], r)
         IN SinkOK(l, n) /\ SinkKeeps(k, l)
<1> DEFINE z == [k EXCEPT !.accepted = v]
<1>1. IsSink(k)
  BY DEF SinkOK
<1>2. /\ IsSink(z) /\ z.expected = k.expected /\ z.rx = k.rx
      /\ z.replies = k.replies
  <2>1. IsSink(z)
    BY <1>1 DEF IsSink
  <2>2. QED
    BY <1>1, <2>1 DEF IsSink, SinkFields
<1> HIDE DEF z
<1>3. SinkOK(z, n) /\ SinkKeeps(k, z)
  BY <1>2, SameSink
<1>4. SinkOK(Reply(z, r), n) /\ SinkKeeps(z, Reply(z, r))
  BY <1>3, AckHoldsKept, ReplyKeeps
<1>5. QED
  BY <1>3, <1>4, SinkTrans DEF z

LEMMA ProcessDataKeeps ==
  ASSUME NEW n \in Nat, NEW k, SinkOK(k, n), NEW m, m.psn \in Below(n), NEW ecn
  PROVE  LET l == ProcessData(k, m, ecn) IN SinkOK(l, n) /\ SinkKeeps(k, l)
<1> DEFINE accepted == k.accepted + m.size
           request == k.ack_request \/ m.ar
           e == [k EXCEPT !.received_bytes = @ + m.size - AckSize,
                          !.recvd_bytes = @ + m.size]
           a == Accept(e, m.psn)
           drained == m.psn = k.expected /\ a.ooo = 0 /\ request
           b == [a EXCEPT !.ack_request = request /\ ~drained]
           z == [b EXCEPT !.accepted = accepted]
           force_ack == k.received_bytes = 0 \/ m.ar \/ drained
           ref1 == IF ecn THEN m.psn ELSE SackBitmapBase(k, m.psn)
           ref2 == IF ecn \/ m.ar THEN m.psn ELSE SackBitmapBase(b, m.psn)
           l1 == Reply([k EXCEPT !.accepted = 0], Sack(k, ref1, m))
           l2 == Reply([b EXCEPT !.accepted = 0], Sack(b, ref2, m))
<1>1. ProcessData(k, m, ecn) =
        IF Has(k, m.psn) THEN l1
        ELSE IF ecn \/ accepted >= AckThreshold \/ force_ack THEN l2 ELSE z
  BY DEF ProcessData
<1>2. /\ IsSink(e) /\ e.expected = k.expected /\ e.rx = k.rx
      /\ e.replies = k.replies
  <2>1. IsSink(k)
    BY DEF SinkOK
  <2>2. IsSink(e)
    BY <2>1 DEF IsSink
  <2>3. QED
    BY <2>1, <2>2 DEF IsSink, SinkFields
<1> HIDE DEF e, accepted, request
<1>3. SinkOK(e, n) /\ SinkKeeps(k, e)
  BY <1>2, SameSink
<1>4. SinkOK(a, n) /\ SinkKeeps(e, a)
  BY <1>3, AcceptKeeps
<1> HIDE DEF a, drained
<1>5. /\ IsSink(b) /\ b.expected = a.expected /\ b.rx = a.rx
      /\ b.replies = a.replies
  <2>1. IsSink(a)
    BY <1>4 DEF SinkOK
  <2>2. IsSink(b)
    BY <2>1 DEF IsSink
  <2>3. QED
    BY <2>1, <2>2 DEF IsSink, SinkFields
<1> HIDE DEF b
<1>6. SinkOK(b, n) /\ SinkKeeps(a, b)
  BY <1>4, <1>5, SameSink
<1>7. SinkKeeps(k, b)
  BY <1>3, <1>4, <1>6 DEF SinkKeeps
<1>8. SinkOK(z, n) /\ SinkKeeps(b, z)
  <2>1. IsSink(b)
    BY <1>6 DEF SinkOK
  <2>2. IsSink(z)
    BY <2>1 DEF IsSink
  <2>3. z.expected = b.expected /\ z.rx = b.rx /\ z.replies = b.replies
    BY <2>1, <2>2 DEF IsSink, SinkFields
  <2> HIDE DEF z
  <2>4. QED
    BY <1>6, <2>2, <2>3, SameSink
<1>9. SinkOK(l1, n) /\ SinkKeeps(k, l1)
  BY SackHolds, ResetReplyKeeps
<1>10. SinkOK(l2, n) /\ SinkKeeps(b, l2)
  BY <1>6, SackHolds, ResetReplyKeeps
<1> HIDE DEF z, l1, l2, force_ack
<1>11. SinkKeeps(k, z) /\ SinkKeeps(k, l2)
  BY <1>7, <1>8, <1>10, SinkTrans
<1>12. QED
  BY <1>1, <1>8, <1>9, <1>10, <1>11

LEMMA ProcessTrimmedKeeps ==
  ASSUME NEW n \in Nat, NEW k, SinkOK(k, n), NEW m
  PROVE  LET l == ProcessTrimmed(k, m) IN SinkOK(l, n) /\ SinkKeeps(k, l)
BY SackHolds, NackHolds, ReplyKeeps DEF ProcessTrimmed

LEMMA ProcessRtsKeeps ==
  ASSUME NEW n \in Nat, NEW k, SinkOK(k, n), NEW m, m.psn \in Below(n)
  PROVE  LET l == ProcessRts(k, m) IN SinkOK(l, n) /\ SinkKeeps(k, l)
<1> DEFINE a == Accept(k, m.psn)
           drained == m.psn = k.expected /\ a.ooo = 0
           b == [a EXCEPT !.ack_request = @ /\ ~drained]
           l1 == Reply([k EXCEPT !.accepted = 0],
                       Sack(k, SackBitmapBase(k, m.psn), m))
           l2 == Reply(b, Sack(b, m.psn, m))
<1>1. ProcessRts(k, m) = IF Has(k, m.psn) THEN l1 ELSE l2
  BY DEF ProcessRts
<1>2. SinkOK(a, n) /\ SinkKeeps(k, a)
  BY AcceptKeeps
<1> HIDE DEF a, drained
<1>3. /\ IsSink(b) /\ b.expected = a.expected /\ b.rx = a.rx
      /\ b.replies = a.replies
  <2>1. IsSink(a)
    BY <1>2 DEF SinkOK
  <2>2. IsSink(b)
    BY <2>1 DEF IsSink
  <2>3. QED
    BY <2>1, <2>2 DEF IsSink, SinkFields
<1> HIDE DEF b
<1>4. SinkOK(b, n) /\ SinkKeeps(a, b)
  BY <1>2, <1>3, SameSink
<1>5. SinkOK(l2, n) /\ SinkKeeps(b, l2)
  BY <1>4, SackHolds, ReplyKeeps
<1>6. SinkOK(l1, n) /\ SinkKeeps(k, l1)
  BY SackHolds, ResetReplyKeeps
<1> HIDE DEF l1, l2
<1>7. SinkKeeps(k, l2)
  BY <1>2, <1>4, <1>5 DEF SinkKeeps
<1>8. QED
  BY <1>1, <1>5, <1>6, <1>7
-----------------------------------------------------------------------------
(* The steps of the connection. *)

LEMMA InitIInv == Init => IInv
<1> SUFFICES ASSUME Init PROVE IInv
  OBVIOUS
<1>1. SrcOK(src) /\ src.sent = {} /\ src.highest_sent = 0
  BY DEF Init, InitSrc, SrcOK, IsSrc, SrcFields, Below
<1>2. SinkOK(sink, 0) /\ sink.replies = {}
  BY DEF Init, InitSink, SinkOK, IsSink, SinkFields, Below
<1>3. fwd = {} /\ back = {} /\ Below(0) = {}
  BY DEF Init, Below
<1>4. QED
  BY <1>1, <1>2, <1>3 DEF IInv

(* A handler of the source that forgets only what the sink has keeps IInv. *)
LEMMA SrcStep ==
  ASSUME IInv, NEW s, NEW d, SrcBecomes(s, d), SrcOK(s),
         src.highest_sent <= s.highest_sent,
         \A p \in Below(s.highest_sent) :
           p >= src.highest_sent \/ (p \in Known(src) /\ ~Has(sink, p))
             => p \in Known(s)
  PROVE  IInv'
<1>1. IsSrc(s) /\ src' = [s EXCEPT !.sent = {}]
  BY DEF SrcOK, SrcBecomes
<1>2. IsSrc(src')
  BY <1>1 DEF IsSrc
<1>3. /\ src'.tx = s.tx /\ src'.rtx = s.rtx /\ src'.highest_sent = s.highest_sent
      /\ src'.sent = {}
  BY <1>1, <1>2 DEF IsSrc, SrcFields
<1>4. fwd' = fwd \cup s.sent /\ back' = back \ d /\ sink' = sink
  BY DEF SrcBecomes
<1>5. s.highest_sent \in Nat /\ src.highest_sent \in Nat
  BY DEF SrcOK, IInv
<1>6. SrcOK(src')
  BY <1>2, <1>3 DEF SrcOK
<1>7. SinkOK(sink', src'.highest_sent) /\ sink'.replies = {}
  BY <1>3, <1>4, <1>5 DEF SinkOK, IInv, Below
<1>8. \A m \in fwd' : m.psn \in Below(src'.highest_sent)
  BY <1>3, <1>4, <1>5 DEF IInv, SrcOK, Below
<1>9. \A m \in back' : AckHolds(m, sink')
  BY <1>4 DEF IInv
<1>10. \A p \in Below(src'.highest_sent) : p \in Known(src') \/ Has(sink', p)
  <2> SUFFICES ASSUME NEW p \in Below(s.highest_sent), ~Has(sink, p)
               PROVE  p \in Known(s)
    BY <1>3, <1>4 DEF Known
  <2>1. p \in Nat /\ (p >= src.highest_sent \/ p \in Below(src.highest_sent))
    BY <1>5 DEF Below
  <2>2. QED
    BY <2>1 DEF IInv
<1>11. QED
  BY <1>3, <1>6, <1>7, <1>8, <1>9, <1>10 DEF IInv

LEMMA SrcStepKeeps ==
  ASSUME IInv, NEW s, NEW d, SrcBecomes(s, d), SrcKeeps(src, s)
  PROVE  IInv'
BY SrcStep DEF SrcKeeps

(* A handler of the sink that loses no psn keeps IInv. *)
LEMMA SinkStep ==
  ASSUME IInv, NEW k, NEW d, SinkBecomes(k, d),
         SinkOK(k, src.highest_sent), SinkKeeps(sink, k)
  PROVE  IInv'
<1> DEFINE n == src.highest_sent
<1>1. IsSink(k) /\ sink' = [k EXCEPT !.replies = {}]
  BY DEF SinkOK, SinkBecomes
<1>2. IsSink(sink')
  BY <1>1 DEF IsSink
<1>3. sink'.expected = k.expected /\ sink'.rx = k.rx /\ sink'.replies = {}
  BY <1>1, <1>2 DEF IsSink, SinkFields
<1>4. back' = back \cup k.replies /\ fwd' = fwd \ d /\ src' = src
  BY DEF SinkBecomes
<1>5. SinkKeeps(k, sink') /\ SinkKeeps(sink, sink')
  BY <1>3 DEF SinkKeeps, Has
<1>6. SinkOK(sink', n)
  BY <1>2, <1>3 DEF SinkOK
<1>7. \A m \in back' : AckHolds(m, sink')
  BY <1>4, <1>5, AckHoldsKept DEF IInv, SinkOK
<1>8. \A p \in Below(n) : p \in Known(src) \/ Has(sink', p)
  BY <1>5 DEF IInv, SinkKeeps, Below
<1>9. QED
  BY <1>3, <1>4, <1>6, <1>7, <1>8 DEF IInv, Known

LEMMA NextIInv == IInv /\ [Next]_vars => IInv'
<1> SUFFICES ASSUME IInv, [Next]_vars PROVE IInv'
  OBVIOUS
<1>1. SrcOK(src) /\ IsSrc(src) /\ src.highest_sent \in Nat
  BY DEF IInv, SrcOK
<1>2. SinkOK(sink, src.highest_sent)
  BY DEF IInv
<1>3. CASE Start
  BY <1>1, <1>3, StartFlowKeeps, SrcStepKeeps DEF Start
<1>4. CASE PortIsFreed
  <2>1. SrcKeeps(src, TimeToSend(src))
    BY <1>1, TimeToSendKeeps
  <2>2. SrcKeeps(src, [src EXCEPT !.port_free = TRUE])
    BY <1>1, PortKeeps
  <2>3. QED
    BY <1>4, <2>1, <2>2, SrcStepKeeps DEF PortIsFreed
<1>5. CASE PortIsTaken
  BY <1>1, <1>5, PortKeeps, SrcStepKeeps DEF PortIsTaken
<1>6. CASE ReceiveAck
  <2>1. PICK m \in back, w \in Windows :
          m.kind = "ack" /\ SrcBecomes(ProcessAck(src, m, w), {m})
    BY <1>6 DEF ReceiveAck
  <2> DEFINE t == ProcessAck(src, m, w)
             acked == {p \in Psns : p < m.cum_ack} \cup m.sacked
  <2>2. /\ SrcOK(t) /\ src.highest_sent <= t.highest_sent
        /\ \A p \in Below(t.highest_sent) :
             (p \in Known(src) /\ p \notin acked) \/ p >= src.highest_sent
               => p \in Known(t)
    BY <1>1, ProcessAckKeeps
  <2>3. \A p \in Nat : p \in acked => Has(sink, p)
    BY <2>1 DEF IInv, AckHolds
  <2>4. \A p \in Below(t.highest_sent) : p \in Nat
    BY <2>2 DEF SrcOK, Below
  <2> HIDE DEF t, acked
  <2>5. SrcBecomes(t, {m})
    BY <2>1 DEF t
  <2>6. QED
    BY <2>2, <2>3, <2>4, <2>5, SrcStep
<1>7. CASE ReceiveNack
  BY <1>1, <1>7, ProcessNackKeeps, SrcStepKeeps DEF ReceiveNack
<1>8. CASE ReceiveData
  BY <1>1, <1>2, <1>8, ProcessDataKeeps, SinkStep DEF ReceiveData, IInv
<1>9. CASE ReceiveTrimmed
  BY <1>1, <1>2, <1>9, ProcessTrimmedKeeps, SinkStep DEF ReceiveTrimmed
<1>10. CASE ReceiveRts
  BY <1>1, <1>2, <1>10, ProcessRtsKeeps, SinkStep DEF ReceiveRts, IInv
<1>11. CASE Lose
  BY <1>11 DEF Lose, IInv, Known
<1>12. CASE Timeout
  BY <1>1, <1>12, RtxTimerExpiredKeeps, SrcStepKeeps DEF Timeout
<1>13. CASE UNCHANGED vars
  BY <1>13 DEF vars, IInv, Known
<1>14. QED
  BY <1>3, <1>4, <1>5, <1>6, <1>7, <1>8, <1>9, <1>10, <1>11, <1>12, <1>13 DEF Next

LEMMA SpecIInv == Spec => []IInv
BY InitIInv, NextIInv, PTL DEF Spec

(* A psn is in flight or waits for its retransmission, never both, whatever  *)
(* the size of the flow, the window and the faults of the network.           *)
THEOREM PsnIsInOnePlace == Spec => []NeverBoth
<1>1. IInv => NeverBoth
  BY DEF IInv, SrcOK, NeverBoth
<1>2. QED
  BY <1>1, SpecIInv, PTL

(* The source forgets a psn only when the sink has it, for every flow, every *)
(* window the congestion control algorithm sets, and any number of faults.   *)
THEOREM NothingIsForgotten == Spec => []NothingForgotten
<1>1. IInv => NothingForgotten
  BY DEF IInv, NothingForgotten, SentPsns, Below, Known
<1>2. QED
  BY <1>1, SpecIInv, PTL

-----------------------------------------------------------------------------
(* The bytes in flight: what was sent, less what waits to be sent again.  An *)
(* RTS was never counted when it was sent.                                   *)
Charge(n, rts, rtx) ==
  Mtu * Cardinality((Below(n) \ rts) \ rtx) - Hdr * Cardinality(rts \cap rtx)

(* The bytes of the psns R. *)
Weight(R, rts) == Mtu * Cardinality(R \ rts) + Hdr * Cardinality(R \cap rts)

LEMMA BelowIsFinite ==
  ASSUME NEW n \in Nat
  PROVE  /\ IsFiniteSet(Below(n)) /\ Cardinality(Below(n)) = n
         /\ \A S : S \subseteq Below(n) => IsFiniteSet(S) /\ Cardinality(S) \in Nat
<1>1. IsFiniteSet(0..(n-1)) /\ Cardinality(0..(n-1)) = n
  <2>1. 0 \in Int /\ n - 1 \in Int
    OBVIOUS
  <2>2. IsFiniteSet(0..(n-1)) /\ Cardinality(0..(n-1)) = IF 0 > n - 1 THEN 0 ELSE (n - 1) - 0 + 1
    BY <2>1, FS_Interval, Zenon
  <2> QED BY <2>2
<1> QED
  BY <1>1, FS_Subset, FS_CardinalityType DEF Below

LEMMA ParametersAreNat ==
  /\ Packets \in Nat /\ Packets > 0 /\ Mtu \in Nat /\ Hdr \in Nat /\ Hdr > 0
  /\ Hdr <= Mtu /\ MaxRts \in Nat /\ AckSize = Hdr
BY UecSrcAssumption, UecTransportAssumption

(* Of disjoint sets the sizes add up. *)
LEMMA SizesAdd ==
  ASSUME NEW A, NEW B, IsFiniteSet(A), IsFiniteSet(B), A \cap B = {}
  PROVE  /\ Cardinality(A \cup B) = Cardinality(A) + Cardinality(B)
         /\ Cardinality(A) \in Nat /\ Cardinality(B) \in Nat
<1>1. Cardinality(A \cup B) = Cardinality(A) + Cardinality(B) - Cardinality(A \cap B)
  BY FS_Union
<1>2. Cardinality(A) \in Nat /\ Cardinality(B) \in Nat /\ Cardinality(A \cap B) = 0
  BY FS_CardinalityType, FS_EmptySet
<1> QED BY <1>1, <1>2

(* Packets that leave the retransmission queue are charged their size. *)
LEMMA ChargeLeaves ==
  ASSUME NEW n \in Nat, NEW rts, rts \subseteq Below(n),
         NEW rtx, rtx \subseteq Below(n), NEW R, R \subseteq rtx
  PROVE  /\ Charge(n, rts, rtx) \in Int /\ Weight(R, rts) \in Int
         /\ Charge(n, rts, rtx \ R) = Charge(n, rts, rtx) + Weight(R, rts)
<1> DEFINE D == (Below(n) \ rts) \ rtx
           D2 == (Below(n) \ rts) \ (rtx \ R)
           E2 == rts \cap (rtx \ R)
           F == rts \cap rtx
           G == R \ rts
           H == R \cap rts
<1>1. /\ D \subseteq Below(n) /\ D2 \subseteq Below(n) /\ E2 \subseteq Below(n)
      /\ F \subseteq Below(n) /\ G \subseteq Below(n) /\ H \subseteq Below(n)
      /\ D2 = D \cup G /\ D \cap G = {} /\ F = E2 \cup H /\ E2 \cap H = {}
  OBVIOUS
<1> HIDE DEF D, D2, E2, F, G, H
<1>2. /\ IsFiniteSet(D) /\ IsFiniteSet(G) /\ IsFiniteSet(E2) /\ IsFiniteSet(H)
      /\ Cardinality(D) \in Nat /\ Cardinality(G) \in Nat
      /\ Cardinality(E2) \in Nat /\ Cardinality(H) \in Nat
  BY <1>1, BelowIsFinite
<1>3. Cardinality(D2) = Cardinality(D) + Cardinality(G)
  BY <1>1, <1>2, SizesAdd
<1>4. Cardinality(F) = Cardinality(E2) + Cardinality(H)
  BY <1>1, <1>2, SizesAdd
<1>5. \A a, b \in Nat : /\ Mtu * (a + b) = Mtu * a + Mtu * b
                        /\ Hdr * (a + b) = Hdr * a + Hdr * b
                        /\ Mtu * a \in Int /\ Hdr * a \in Int
  BY ParametersAreNat
<1>6. /\ Charge(n, rts, rtx) = Mtu * Cardinality(D) - Hdr * Cardinality(F)
      /\ Charge(n, rts, rtx \ R) = Mtu * Cardinality(D2) - Hdr * Cardinality(E2)
  BY DEF Charge, D, D2, E2, F
<1> DEFINE cd == Cardinality(D)
           cg == Cardinality(G)
           ce == Cardinality(E2)
           ch == Cardinality(H)
<1>7. /\ Charge(n, rts, rtx) = Mtu * cd - (Hdr * ce + Hdr * ch)
      /\ Charge(n, rts, rtx \ R) = Mtu * cd + Mtu * cg - Hdr * ce
  BY <1>2, <1>3, <1>4, <1>5, <1>6
<1>8. /\ Mtu * cd \in Int /\ Hdr * ce \in Int /\ Mtu * cg \in Int /\ Hdr * ch \in Int
  BY <1>2, <1>5
<1> HIDE DEF cd, ce, cg, ch
<1>9. /\ Charge(n, rts, rtx) \in Int
      /\ Charge(n, rts, rtx \ R) = Charge(n, rts, rtx) + Mtu * cg + Hdr * ch
  BY <1>7, <1>8
<1>10. Weight(R, rts) = Mtu * cg + Hdr * ch
  BY DEF Weight, cg, ch, G, H
<1> QED BY <1>8, <1>9, <1>10

(* The same for one packet. *)
LEMMA ChargeOne ==
  ASSUME NEW n \in Nat, NEW rts, rts \subseteq Below(n),
         NEW rtx, rtx \subseteq Below(n), NEW psn \in rtx
  PROVE  /\ Charge(n, rts, rtx) \in Int
         /\ Charge(n, rts, rtx \ {psn})
              = Charge(n, rts, rtx) + (IF psn \in rts THEN Hdr ELSE Mtu)
<1> DEFINE R == {psn}
           c == Charge(n, rts, rtx)
           d == Charge(n, rts, rtx \ R)
           g == Cardinality(R \ rts)
           h == Cardinality(R \cap rts)
<1>1. R \subseteq rtx /\ Cardinality(R) = 1 /\ Cardinality({}) = 0
  BY FS_Singleton, FS_EmptySet
<1>2. IF psn \in rts THEN R \ rts = {} /\ R \cap rts = R
                      ELSE R \ rts = R /\ R \cap rts = {}
  OBVIOUS
<1> HIDE DEF R
<1> DEFINE x == Weight(R, rts)
<1>3. c \in Int /\ x \in Int /\ d = c + x
  BY <1>1, ChargeLeaves
<1>7. x = Mtu * g + Hdr * h
  BY DEF Weight
<1>4. IF psn \in rts THEN g = 0 /\ h = 1 ELSE g = 1 /\ h = 0
  BY <1>1, <1>2
<1>5. Mtu * 1 = Mtu /\ Hdr * 0 = 0 /\ Mtu * 0 = 0 /\ Hdr * 1 = Hdr /\ Mtu \in Int /\ Hdr \in Int
  BY ParametersAreNat
<1> HIDE DEF c, d, g, h, x
<1>6. c \in Int /\ d = c + (IF psn \in rts THEN Hdr ELSE Mtu)
  BY <1>3, <1>4, <1>5, <1>7
<1> QED BY <1>6 DEF c, d, R

(* One more psn. *)
LEMMA NextPsn ==
  ASSUME NEW n \in Nat
  PROVE  Below(n + 1) = Below(n) \cup {n} /\ n \notin Below(n)
BY DEF Below

LEMMA AddPsn ==
  ASSUME NEW n \in Nat, NEW S, S \subseteq Below(n)
  PROVE  /\ Cardinality(S) \in Nat
         /\ Cardinality(S \cup {n}) = Cardinality(S) + 1
<1>1. n \notin S
  BY NextPsn
<1>2. IsFiniteSet(S) /\ Cardinality(S) \in Nat
  BY BelowIsFinite
<1> QED BY <1>1, <1>2, FS_AddElement

(* A new data packet is charged a full packet. *)
LEMMA ChargeNew ==
  ASSUME NEW n \in Nat, NEW rts, rts \subseteq Below(n),
         NEW rtx, rtx \subseteq Below(n)
  PROVE  Charge(n + 1, rts, rtx) = Charge(n, rts, rtx) + Mtu
<1> DEFINE D == (Below(n) \ rts) \ rtx
           F == rts \cap rtx
<1>1. D \subseteq Below(n) /\ F \subseteq Below(n)
  OBVIOUS
<1>2. (Below(n + 1) \ rts) \ rtx = D \cup {n}
  BY NextPsn
<1>3. /\ Charge(n, rts, rtx) = Mtu * Cardinality(D) - Hdr * Cardinality(F)
      /\ Charge(n + 1, rts, rtx) = Mtu * Cardinality(D \cup {n}) - Hdr * Cardinality(F)
  BY <1>2 DEF Charge
<1> HIDE DEF D, F
<1>4. Cardinality(D \cup {n}) = Cardinality(D) + 1
  BY <1>1, AddPsn
<1>5. Cardinality(D) \in Nat /\ Cardinality(F) \in Nat
  BY <1>1, AddPsn
<1>6. \A a \in Nat : Mtu * (a + 1) = Mtu * a + Mtu /\ Mtu * a \in Int /\ Hdr * a \in Int
  BY ParametersAreNat
<1>7. Mtu * (Cardinality(D) + 1) = Mtu * Cardinality(D) + Mtu
  BY <1>5, <1>6
<1>8. Mtu * Cardinality(D) \in Int /\ Hdr * Cardinality(F) \in Int /\ Mtu \in Int
  BY <1>5, <1>6, ParametersAreNat
<1> QED BY <1>3, <1>4, <1>7, <1>8

(* An RTS is charged nothing. *)
LEMMA ChargeRts ==
  ASSUME NEW n \in Nat, NEW rts, rts \subseteq Below(n),
         NEW rtx, rtx \subseteq Below(n)
  PROVE  Charge(n + 1, rts \cup {n}, rtx) = Charge(n, rts, rtx)
<1>1. Below(n + 1) \ (rts \cup {n}) = Below(n) \ rts
  BY NextPsn
<1>2. (rts \cup {n}) \cap rtx = rts \cap rtx
  <2>1. n \notin rtx
    BY NextPsn
  <2> QED BY <2>1
<1> QED BY <1>1, <1>2 DEF Charge

-----------------------------------------------------------------------------
(* The source, counted. *)

(* From s to t only the fields F change. *)
Frame(s, t, F) == IsSrc(t) /\ \A f \in SrcFields \ F : t[f] = s[f]

SrcTypes(s) ==
  /\ s.started \in BOOLEAN /\ s.blocked \in BOOLEAN
  /\ s.port_free \in BOOLEAN /\ s.done \in BOOLEAN
  /\ s.backlog \in Nat /\ s.requests \in Nat /\ s.cwnd \in Nat
  /\ s.in_flight \in Int /\ s.recvd_bytes \in Int
  /\ s.rts \subseteq Below(s.highest_sent) /\ Cardinality(s.rts) <= MaxRts
  /\ Cardinality(Below(s.highest_sent) \ s.rts) = Packets - s.backlog

(* The send times are those of the packets in flight. *)
SendTimes(s) ==
  s.send_times \in Seq(Int) /\ Distinct(s.send_times) /\ RangeOf(s.send_times) = s.tx

Counted(s) ==
  s.in_flight = Charge(s.highest_sent, s.rts, s.rtx) - s.recvd_bytes

(* A packet says what its sender knows of the psn. *)
PacketOK(m, s) ==
  /\ m.psn \in Below(s.highest_sent) /\ m.kind \in {"data", "rts"}
  /\ m.kind = "rts" => m.psn \in s.rts
  /\ m.size = Size(s, m.psn)

Body(s) ==
  /\ SrcOK(s) /\ SrcTypes(s) /\ SendTimes(s) /\ Counted(s)
  /\ \A m \in s.sent : PacketOK(m, s)

(* The timer is armed for the oldest send time. *)
Timer(s) == s.rto = IF s.send_times = <<>> THEN NoPsn ELSE Head(s.send_times)

(* Only new psns are taken by RTSs. *)
Grows(s, t) ==
  /\ s.highest_sent <= t.highest_sent /\ s.rts \subseteq t.rts
  /\ \A p \in t.rts : p \in s.rts \/ p >= s.highest_sent

Moves(s, t) == Body(t) /\ Grows(s, t) /\ (Timer(s) => Timer(t))

(* What the NIC knows of the source. *)
NicFields == {"started", "blocked", "requests", "port_free", "done", "cwnd"}

Queued(s) == (s.blocked => s.requests > 0) /\ (s.requests > 0 => ~s.port_free)
Awake(s)  == CanSend(s) => s.blocked

LEMMA MovesTrans ==
  ASSUME NEW s, NEW t, NEW u, Body(s), Moves(s, t), Moves(t, u)
  PROVE  Moves(s, u)
<1>1. /\ s.highest_sent \in Nat /\ t.highest_sent \in Nat /\ u.highest_sent \in Nat
      /\ t.rts \subseteq Below(t.highest_sent) /\ u.rts \subseteq Below(u.highest_sent)
  BY DEF Moves, Body, SrcOK, SrcTypes
<1>2. Grows(s, u)
  BY <1>1 DEF Moves, Grows, Below
<1> QED BY <1>2 DEF Moves

(* A packet stays right when its sender moves on. *)
LEMMA PacketStays ==
  ASSUME NEW s, NEW t, s.highest_sent \in Nat, t.highest_sent \in Nat,
         Grows(s, t), NEW m, PacketOK(m, s)
  PROVE  PacketOK(m, t)
BY DEF PacketOK, Grows, Size, Below

(* A change of what the NIC knows keeps the rest. *)
LEMMA NicMoves ==
  ASSUME NEW s, Body(s), NEW t, Frame(s, t, NicFields),
         t.started \in BOOLEAN, t.blocked \in BOOLEAN, t.port_free \in BOOLEAN,
         t.done \in BOOLEAN, t.requests \in Nat, t.cwnd \in Nat
  PROVE  /\ Moves(s, t) /\ NextSize(t) = NextSize(s)
         /\ t.in_flight = s.in_flight /\ t.rtx = s.rtx /\ t.rts = s.rts
<1>1. /\ t.highest_sent = s.highest_sent /\ t.backlog = s.backlog /\ t.tx = s.tx
      /\ t.send_times = s.send_times /\ t.rto = s.rto /\ t.rtx = s.rtx
      /\ t.rts = s.rts /\ t.in_flight = s.in_flight
      /\ t.recvd_bytes = s.recvd_bytes /\ t.sent = s.sent /\ IsSrc(t)
  BY DEF Frame, SrcFields, NicFields
<1>2. SrcOK(t)
  BY <1>1 DEF Body, SrcOK
<1>3. SrcTypes(t)
  BY <1>1 DEF Body, SrcTypes
<1>4. SendTimes(t) /\ Counted(t) /\ (Timer(s) => Timer(t))
  BY <1>1 DEF Body, SendTimes, Counted, Timer
<1>5. s.highest_sent \in Nat
  BY DEF Body, SrcOK
<1>6. Grows(s, t)
  BY <1>1, <1>5 DEF Grows
<1>7. \A m \in t.sent : PacketOK(m, t)
  BY <1>1, <1>5, <1>6, PacketStays DEF Body
<1>8. NextSize(t) = NextSize(s)
  BY <1>1 DEF NextSize, Size
<1> QED BY <1>1, <1>2, <1>3, <1>4, <1>6, <1>7, <1>8 DEF Moves, Body

-----------------------------------------------------------------------------
(* Packets sent. *)

LEMMA AppendTime ==
  ASSUME NEW q \in Seq(Int), Distinct(q), NEW psn \in Int, psn \notin RangeOf(q)
  PROVE  LET r == Append(q, psn)
         IN /\ r \in Seq(Int) /\ Distinct(r) /\ RangeOf(r) = RangeOf(q) \cup {psn}
            /\ r # <<>> /\ Head(r) = IF q = <<>> THEN psn ELSE Head(q)
<1> DEFINE r == Append(q, psn)
           n == Len(q)
<1>1. /\ r \in Seq(Int) /\ n \in Nat /\ Len(r) = n + 1 /\ r[n + 1] = psn
      /\ \A i \in 1..n : r[i] = q[i]
      /\ r # <<>> /\ Head(r) = r[1]
      /\ q = <<>> <=> n = 0
      /\ q # <<>> => Head(q) = q[1]
  BY AppendProperties
<1> HIDE DEF r
<1>2. 1..(n + 1) = 1..n \cup {n + 1}
  BY <1>1
<1>3. RangeOf(r) = RangeOf(q) \cup {psn}
  <2>1. /\ \A i \in 1..n : i \in 1..(n + 1) /\ r[i] = q[i]
        /\ n + 1 \in 1..(n + 1) /\ r[n + 1] = psn
        /\ \A i \in 1..(n + 1) : i \in 1..n \/ i = n + 1
    BY <1>1
  <2>2. RangeOf(r) = {r[i] : i \in 1..(n + 1)} /\ RangeOf(q) = {q[i] : i \in 1..n}
    BY <1>1 DEF RangeOf
  <2> HIDE DEF n
  <2> QED BY <2>1, <2>2
<1>4. \A i \in 1..n : q[i] # psn
  BY DEF RangeOf
<1>5. Distinct(r)
  <2> SUFFICES ASSUME NEW i \in 1..(n + 1), NEW j \in 1..(n + 1), r[i] = r[j]
               PROVE  i = j
    BY <1>1 DEF Distinct
  <2>1. (i \in 1..n \/ i = n + 1) /\ (j \in 1..n \/ j = n + 1)
    BY <1>1
  <2>2. \A a, b \in 1..n : q[a] = q[b] => a = b
    BY DEF Distinct
  <2> HIDE DEF n
  <2> QED BY <1>1, <1>4, <2>1, <2>2
<1>6. Head(r) = IF q = <<>> THEN psn ELSE Head(q)
  BY <1>1
<1> QED BY <1>1, <1>3, <1>5, <1>6 DEF r

(* The send record and the timer of a packet just sent. *)
LEMMA OutstandingTimes ==
  ASSUME NEW s, SrcOK(s), SendTimes(s), NEW psn \in Nat, psn \notin s.tx, NEW t,
         t.tx = s.tx \cup {psn}, t.send_times = Append(s.send_times, psn),
         t.rto = IF s.rto = NoPsn THEN psn ELSE s.rto
  PROVE  SendTimes(t) /\ (Timer(s) => Timer(t))
<1> DEFINE q == s.send_times
           r == t.send_times
<1>1. q \in Seq(Int) /\ Distinct(q) /\ RangeOf(q) = s.tx
  BY DEF SendTimes
<1>2. /\ r \in Seq(Int) /\ Distinct(r) /\ RangeOf(r) = s.tx \cup {psn}
      /\ r # <<>> /\ Head(r) = IF q = <<>> THEN psn ELSE Head(q)
  BY <1>1, AppendTime
<1>3. q # <<>> => Head(q) \in RangeOf(q)
  BY <1>1 DEF RangeOf
<1>4. q # <<>> => Head(q) # NoPsn
  BY <1>1, <1>3 DEF SrcOK, Below, NoPsn
<1>5. SendTimes(t)
  BY <1>2 DEF SendTimes
<1>6. Timer(s) => Timer(t)
  BY <1>2, <1>4 DEF Timer
<1> QED BY <1>5, <1>6

SameNic(s, t) ==
  /\ t.started = s.started /\ t.blocked = s.blocked /\ t.requests = s.requests
  /\ t.port_free = s.port_free /\ t.done = s.done /\ t.cwnd = s.cwnd

LEMMA OutstandingFrame ==
  ASSUME NEW s, IsSrc(s), NEW psn
  PROVE  LET t == Outstanding(s, psn)
         IN /\ Frame(s, t, {"tx", "send_times", "rto"})
            /\ t.tx = s.tx \cup {psn} /\ t.send_times = Append(s.send_times, psn)
            /\ t.rto = IF s.rto = NoPsn THEN psn ELSE s.rto
<1> DEFINE t == Outstanding(s, psn)
<1>1. IsSrc(t)
  BY DEF IsSrc, Outstanding
<1>2. /\ t.tx = s.tx \cup {psn} /\ t.send_times = Append(s.send_times, psn)
      /\ t.rto = IF s.rto = NoPsn THEN psn ELSE s.rto
  BY <1>1 DEF IsSrc, SrcFields, Outstanding
<1>3. Frame(s, t, {"tx", "send_times", "rto"})
  BY <1>1 DEF IsSrc, SrcFields, Outstanding, Frame
<1> QED BY <1>2, <1>3

(* ChargeNew, said of the source. *)
LEMMA ChargeNext ==
  ASSUME NEW s, Body(s)
  PROVE  LET n == s.highest_sent
         IN /\ Charge(n, s.rts, s.rtx) \in Int
            /\ Charge(n + 1, s.rts, s.rtx) = Charge(n, s.rts, s.rtx) + Mtu
            /\ Charge(n + 1, s.rts \cup {n}, s.rtx) = Charge(n, s.rts, s.rtx)
            /\ Cardinality(Below(n + 1) \ s.rts) = Cardinality(Below(n) \ s.rts) + 1
            /\ Below(n + 1) \ (s.rts \cup {n}) = Below(n) \ s.rts
            /\ Cardinality(s.rts \cup {n}) = Cardinality(s.rts) + 1
            /\ Cardinality(s.rts) \in Nat
<1> DEFINE n == s.highest_sent
           rts == s.rts
           rtx == s.rtx
<1>1. n \in Nat /\ rts \subseteq Below(n) /\ rtx \subseteq Below(n)
  BY DEF Body, SrcOK, SrcTypes
<1> HIDE DEF n, rts, rtx
<1>2. Charge(n, rts, rtx) \in Int /\ Cardinality(rts) \in Nat
  BY <1>1, ChargeLeaves, BelowIsFinite
<1>3. /\ Charge(n + 1, rts, rtx) = Charge(n, rts, rtx) + Mtu
      /\ Charge(n + 1, rts \cup {n}, rtx) = Charge(n, rts, rtx)
  BY <1>1, ChargeNew, ChargeRts
<1>4. Below(n + 1) \ (rts \cup {n}) = Below(n) \ rts
  BY <1>1, NextPsn
<1>5. Cardinality(rts \cup {n}) = Cardinality(rts) + 1
  BY <1>1, AddPsn
<1>6. Cardinality(Below(n + 1) \ rts) = Cardinality(Below(n) \ rts) + 1
  <2> DEFINE B == Below(n) \ rts
  <2>1. Below(n + 1) \ rts = B \cup {n} /\ B \subseteq Below(n)
    BY <1>1, NextPsn
  <2> HIDE DEF B
  <2>2. Cardinality(B \cup {n}) = Cardinality(B) + 1
    BY <1>1, <2>1, AddPsn
  <2> QED BY <2>1, <2>2 DEF B
<1> QED BY <1>2, <1>3, <1>4, <1>5, <1>6 DEF n, rts, rtx

LEMMA NewPacketMoves ==
  ASSUME NEW s, Body(s), s.backlog > 0
  PROVE  LET t == SendNewPacket(s)
         IN /\ Moves(s, t) /\ SameNic(s, t) /\ t.rts = s.rts /\ t.rtx = s.rtx
<1> DEFINE psn == s.highest_sent
           o == Outstanding(s, psn)
           t == SendNewPacket(s)
<1>1. IsSrc(s)
  BY DEF Body, SrcOK
<1>2. /\ Frame(s, o, {"tx", "send_times", "rto"})
      /\ o.tx = s.tx \cup {psn} /\ o.send_times = Append(s.send_times, psn)
      /\ o.rto = IF s.rto = NoPsn THEN psn ELSE s.rto
  BY <1>1, OutstandingFrame
<1> DEFINE flight == s.in_flight + Mtu
           ar == s.backlog = 1 \/ flight + Mtu >= s.cwnd
           p == DataPacket(s, psn, 0, ar)
<1>3. t = [o EXCEPT !.highest_sent = psn + 1, !.backlog = @ - 1,
                    !.in_flight = flight, !.sent = @ \cup {p}]
  BY DEF SendNewPacket
<1> HIDE DEF o, t, p
<1>4. IsSrc(t)
  BY <1>2, <1>3 DEF IsSrc, Frame
<1>5. /\ t.highest_sent = psn + 1 /\ t.backlog = s.backlog - 1
      /\ t.in_flight = flight /\ t.sent = s.sent \cup {p}
      /\ t.tx = s.tx \cup {psn} /\ t.send_times = Append(s.send_times, psn)
      /\ t.rto = (IF s.rto = NoPsn THEN psn ELSE s.rto)
  BY <1>2, <1>3, <1>4 DEF IsSrc, Frame, SrcFields
<1>6. /\ t.rtx = s.rtx /\ t.rts = s.rts /\ t.recvd_bytes = s.recvd_bytes
      /\ SameNic(s, t)
  BY <1>2, <1>3, <1>4 DEF IsSrc, Frame, SrcFields, SameNic
<1>7. /\ psn \in Nat /\ s.rts \subseteq Below(psn) /\ s.rtx \subseteq Below(psn)
      /\ s.tx \subseteq Below(psn)
      /\ psn \notin s.tx /\ psn \notin s.rtx /\ psn \notin s.rts
  BY DEF Body, SrcOK, SrcTypes, Below
<1>8. SrcOK(t)
  <2>1. p.psn = psn
    BY DEF p, DataPacket
  <2>2. psn \in Below(psn + 1) /\ Below(psn) \subseteq Below(psn + 1)
    BY <1>7 DEF Below
  <2> HIDE DEF psn
  <2> QED BY <1>4, <1>5, <1>6, <1>7, <2>1, <2>2 DEF Body, SrcOK, psn
<1>9. SrcTypes(t)
  <2>1. Cardinality(Below(psn + 1) \ s.rts) = Cardinality(Below(psn) \ s.rts) + 1
    BY ChargeNext
  <2>2. Below(psn) \subseteq Below(psn + 1)
    BY <1>7 DEF Below
  <2>3. s.backlog \in Nat /\ s.in_flight \in Int /\ s.recvd_bytes \in Int /\ s.rts \subseteq Below(psn)
        /\ Cardinality(s.rts) <= MaxRts /\ Cardinality(Below(psn) \ s.rts) = Packets - s.backlog
    BY DEF Body, SrcTypes
  <2>4. /\ t.started \in BOOLEAN /\ t.blocked \in BOOLEAN
        /\ t.port_free \in BOOLEAN /\ t.done \in BOOLEAN
        /\ t.requests \in Nat /\ t.cwnd \in Nat
    BY <1>6 DEF Body, SrcTypes, SameNic
  <2> HIDE DEF psn
  <2>5. t.backlog \in Nat /\ t.in_flight \in Int /\ t.recvd_bytes \in Int
    BY <1>5, <1>6, <2>3, ParametersAreNat
  <2>6. t.rts \subseteq Below(t.highest_sent) /\ Cardinality(t.rts) <= MaxRts
    BY <1>5, <1>6, <2>2, <2>3
  <2>7. Cardinality(Below(t.highest_sent) \ t.rts) = Packets - t.backlog
    <3>1. Packets \in Nat
      BY ParametersAreNat
    <3> QED BY <1>5, <1>6, <2>1, <2>3, <3>1
  <2> QED BY <2>4, <2>5, <2>6, <2>7 DEF SrcTypes
<1>10. SendTimes(t) /\ (Timer(s) => Timer(t))
  BY <1>5, <1>7, OutstandingTimes DEF Body
<1>11. Counted(t)
  <2>1. Charge(psn + 1, s.rts, s.rtx) = Charge(psn, s.rts, s.rtx) + Mtu
    BY ChargeNext
  <2>2. Charge(psn, s.rts, s.rtx) \in Int
    BY ChargeNext
  <2>3. s.in_flight \in Int /\ s.recvd_bytes \in Int
    BY DEF Body, SrcTypes
  <2> QED BY <1>5, <1>6, <2>1, <2>2, <2>3, ParametersAreNat DEF Body, Counted
<1>12. Grows(s, t)
  BY <1>5, <1>6, <1>7 DEF Grows
<1>13. \A m \in t.sent : PacketOK(m, t)
  <2>1. PacketOK(p, t)
    BY <1>5, <1>6, <1>7 DEF p, DataPacket, PacketOK, Size, Below
  <2>2. \A m \in s.sent : PacketOK(m, t)
    BY <1>5, <1>7, <1>12, PacketStays DEF Body
  <2> QED BY <1>5, <2>1, <2>2
<1>14. Moves(s, t)
  BY <1>8, <1>9, <1>10, <1>11, <1>12, <1>13 DEF Moves, Body
<1> QED BY <1>5, <1>6, <1>14 DEF t

LEMMA RtxPacketMoves ==
  ASSUME NEW s, Body(s), s.rtx # {}
  PROVE  LET t == SendRtxPacket(s)
         IN Moves(s, t) /\ SameNic(s, t) /\ t.rts = s.rts
<1> DEFINE psn == Least(s.rtx)
           try == s.tries[psn] + 1
           size == Size(s, psn)
           o == Outstanding(s, psn)
           p == DataPacket(s, psn, try, TRUE)
           t == SendRtxPacket(s)
<1>1. IsSrc(s)
  BY DEF Body, SrcOK
<1>2. /\ Frame(s, o, {"tx", "send_times", "rto"})
      /\ o.tx = s.tx \cup {psn} /\ o.send_times = Append(s.send_times, psn)
      /\ o.rto = IF s.rto = NoPsn THEN psn ELSE s.rto
  BY <1>1, OutstandingFrame
<1>3. t = [o EXCEPT !.rtx = @ \ {psn}, !.in_flight = @ + size, !.tries[psn] = try,
                    !.sent = @ \cup {p}]
  BY DEF SendRtxPacket
<1>4. /\ psn \in s.rtx /\ psn \in Below(s.highest_sent) /\ psn \in Nat
      /\ psn \notin s.tx
  <2>1. s.rtx \in SUBSET Nat
    BY DEF Body, SrcOK, Below
  <2> QED
    BY <2>1, LeastIn DEF Body, SrcOK, Below
<1>5. p.psn = psn /\ p.kind = "data" /\ p.size = size
  BY DEF DataPacket
<1>6. s.highest_sent \in Nat /\ size = (IF psn \in s.rts THEN Hdr ELSE Mtu)
  BY DEF Body, SrcOK, Size
<1> HIDE DEF o, t, p, psn, try, size
<1>7. IsSrc(t)
  BY <1>2, <1>3 DEF IsSrc, Frame
<1>8. /\ t.rtx = s.rtx \ {psn} /\ t.in_flight = s.in_flight + size
      /\ t.sent = s.sent \cup {p}
      /\ t.tx = s.tx \cup {psn} /\ t.send_times = Append(s.send_times, psn)
      /\ t.rto = (IF s.rto = NoPsn THEN psn ELSE s.rto)
  BY <1>2, <1>3, <1>7 DEF IsSrc, Frame, SrcFields
<1>9. /\ t.highest_sent = s.highest_sent /\ t.backlog = s.backlog
      /\ t.rts = s.rts /\ t.recvd_bytes = s.recvd_bytes
      /\ SameNic(s, t)
  BY <1>2, <1>3, <1>7 DEF IsSrc, Frame, SrcFields, SameNic
<1>10. SrcOK(t)
  BY <1>4, <1>5, <1>7, <1>8, <1>9 DEF Body, SrcOK
<1>11. SrcTypes(t)
  BY <1>6, <1>8, <1>9, ParametersAreNat DEF Body, SrcTypes, SameNic
<1>12. SendTimes(t) /\ (Timer(s) => Timer(t))
  BY <1>4, <1>8, OutstandingTimes DEF Body
<1>13. Counted(t)
  <2> DEFINE n == s.highest_sent
  <2>1. s.rts \subseteq Below(n) /\ s.rtx \subseteq Below(n)
    BY DEF Body, SrcOK, SrcTypes
  <2>2. Charge(n, s.rts, s.rtx) \in Int
        /\ Charge(n, s.rts, s.rtx \ {psn}) = Charge(n, s.rts, s.rtx) + size
    BY <1>4, <1>6, <2>1, ChargeOne
  <2>3. s.in_flight \in Int /\ s.recvd_bytes \in Int
    BY DEF Body, SrcTypes
  <2> QED BY <1>6, <1>8, <1>9, <2>2, <2>3, ParametersAreNat DEF Body, Counted
<1>14. Grows(s, t)
  BY <1>6, <1>9 DEF Grows
<1>15. \A m \in t.sent : PacketOK(m, t)
  <2>1. PacketOK(p, t)
    BY <1>4, <1>5, <1>6, <1>9 DEF PacketOK, Size
  <2>2. \A m \in s.sent : PacketOK(m, t)
    BY <1>6, <1>9, <1>14, PacketStays DEF Body
  <2> QED BY <1>8, <2>1, <2>2
<1>16. Moves(s, t)
  BY <1>10, <1>11, <1>12, <1>13, <1>14, <1>15 DEF Moves, Body
<1> QED BY <1>9, <1>16 DEF t

(* An RTS takes a psn and no window. *)
LEMMA RTSMoves ==
  ASSUME NEW s, Body(s), NEW allowed, Cardinality(s.rts) >= MaxRts => ~allowed
  PROVE  LET t == SendRTS(s, allowed)
         IN /\ Moves(s, t) /\ SameNic(s, t)
            /\ NextSize(t) = NextSize(s) /\ t.in_flight = s.in_flight
<1> DEFINE psn == s.highest_sent
           o == Outstanding(s, psn)
           p == [kind |-> "rts", psn |-> psn, try |-> 0, size |-> Hdr, ar |-> TRUE]
           t == [o EXCEPT !.highest_sent = psn + 1, !.rts = @ \cup {psn},
                          !.sent = @ \cup {p}]
<1>1. IsSrc(s)
  BY DEF Body, SrcOK
<1>2. /\ Frame(s, o, {"tx", "send_times", "rto"})
      /\ o.tx = s.tx \cup {psn} /\ o.send_times = Append(s.send_times, psn)
      /\ o.rto = IF s.rto = NoPsn THEN psn ELSE s.rto
  BY <1>1, OutstandingFrame
<1>3. SendRTS(s, allowed) = IF ~allowed THEN s ELSE t
  BY DEF SendRTS
<1>4. p.psn = psn /\ p.kind = "rts" /\ p.size = Hdr
  OBVIOUS
<1> HIDE DEF o, p
<1>5. IsSrc(t)
  BY <1>2 DEF IsSrc, Frame
<1>6. /\ t.highest_sent = psn + 1 /\ t.rts = s.rts \cup {psn}
      /\ t.sent = s.sent \cup {p}
      /\ t.tx = s.tx \cup {psn} /\ t.send_times = Append(s.send_times, psn)
      /\ t.rto = (IF s.rto = NoPsn THEN psn ELSE s.rto)
  BY <1>2, <1>5 DEF IsSrc, Frame, SrcFields
<1>7. /\ t.rtx = s.rtx /\ t.backlog = s.backlog /\ t.in_flight = s.in_flight
      /\ t.recvd_bytes = s.recvd_bytes /\ SameNic(s, t)
  BY <1>2, <1>5 DEF IsSrc, Frame, SrcFields, SameNic
<1> HIDE DEF t
<1>8. /\ psn \in Nat /\ s.rts \subseteq Below(psn) /\ s.rtx \subseteq Below(psn)
      /\ s.tx \subseteq Below(psn)
      /\ psn \notin s.tx /\ psn \notin s.rtx /\ psn \notin s.rts
      /\ psn \in Below(psn + 1) /\ Below(psn) \subseteq Below(psn + 1)
  BY DEF Body, SrcOK, SrcTypes, Below
<1>9. SrcOK(t)
  <2> HIDE DEF psn
  <2> QED BY <1>4, <1>5, <1>6, <1>7, <1>8 DEF Body, SrcOK, psn
<1>10. /\ Charge(psn + 1, s.rts \cup {psn}, s.rtx) = Charge(psn, s.rts, s.rtx)
       /\ Below(psn + 1) \ (s.rts \cup {psn}) = Below(psn) \ s.rts
       /\ Cardinality(s.rts \cup {psn}) = Cardinality(s.rts) + 1
  BY ChargeNext
<1>11. Cardinality(s.rts) \in Nat
  BY ChargeNext
<1>12. ASSUME allowed
       PROVE  SrcTypes(t)
  <2>1. Cardinality(s.rts) + 1 <= MaxRts
    BY <1>11, <1>12, ParametersAreNat
  <2>2. s.rts \cup {psn} \subseteq Below(psn + 1)
    BY <1>8
  <2> QED BY <1>6, <1>7, <1>10, <2>1, <2>2 DEF Body, SrcTypes, SameNic
<1>13. SendTimes(t) /\ (Timer(s) => Timer(t))
  BY <1>6, <1>8, OutstandingTimes DEF Body
<1>14. Counted(t)
  BY <1>6, <1>7, <1>10 DEF Body, Counted
<1>15. Grows(s, t)
  BY <1>6, <1>8 DEF Grows
<1>16. \A m \in t.sent : PacketOK(m, t)
  <2>1. PacketOK(p, t)
    BY <1>4, <1>6, <1>8 DEF PacketOK, Size
  <2>2. \A m \in s.sent : PacketOK(m, t)
    BY <1>6, <1>8, <1>15, PacketStays DEF Body
  <2> QED BY <1>6, <2>1, <2>2
<1>17. NextSize(t) = NextSize(s)
  <2>1. s.rtx # {} => Least(s.rtx) \in s.rtx
    <3>1. s.rtx \in SUBSET Nat
      BY <1>8 DEF Below
    <3> QED BY <3>1, LeastIn
  <2> DEFINE l == Least(s.rtx)
  <2> HIDE DEF l
  <2>2. s.rtx # {} => (l \in t.rts <=> l \in s.rts)
    BY <1>6, <1>8, <2>1 DEF l
  <2>3. s.rtx # {} => Size(t, l) = Size(s, l)
    BY <2>2 DEF Size
  <2> QED BY <1>7, <2>3 DEF NextSize, l
<1>18. Moves(s, s) /\ SameNic(s, s)
  BY <1>8 DEF Moves, Grows, SameNic
<1>19. allowed => Moves(s, t)
  BY <1>9, <1>12, <1>13, <1>14, <1>15, <1>16 DEF Moves, Body
<1> QED BY <1>3, <1>7, <1>17, <1>18, <1>19

(* A packet that can be sent exists: sendPacket sends it. *)
LEMMA SendPacketMoves ==
  ASSUME NEW s, Body(s), CanSend(s)
  PROVE  LET t == SendPacket(s)
         IN Moves(s, t) /\ SameNic(s, t) /\ t.rts = s.rts
<1>1. s.rtx # {} \/ s.backlog > 0
  BY DEF CanSend, NextSize
<1> QED BY <1>1, NewPacketMoves, RtxPacketMoves DEF SendPacket

-----------------------------------------------------------------------------
(* The handlers, and the NIC. *)

Outcome(s, t) ==
  /\ Moves(s, t) /\ Queued(t) /\ (t.done \/ Awake(t))
  /\ t.started = s.started

LEMMA FrameWait ==
  ASSUME NEW s, Body(s)
  PROVE  LET t == WaitForNic(s)
         IN /\ Moves(s, t) /\ t.blocked = TRUE /\ t.requests = s.requests + 1
            /\ t.port_free = s.port_free /\ t.started = s.started /\ t.done = s.done
            /\ t.rts = s.rts
<1> DEFINE t == WaitForNic(s)
<1>1. IsSrc(s) /\ s.requests \in Nat /\ s.started \in BOOLEAN /\ s.cwnd \in Nat
      /\ s.port_free \in BOOLEAN /\ s.done \in BOOLEAN
  BY DEF Body, SrcOK, SrcTypes
<1>2. IsSrc(t)
  BY <1>1 DEF IsSrc, WaitForNic
<1>3. /\ t.blocked = TRUE /\ t.requests = s.requests + 1 /\ t.cwnd = s.cwnd
      /\ t.port_free = s.port_free /\ t.started = s.started /\ t.done = s.done
  BY <1>1, <1>2 DEF IsSrc, SrcFields, WaitForNic
<1>4. Frame(s, t, NicFields)
  BY <1>1, <1>2 DEF IsSrc, SrcFields, WaitForNic, Frame, NicFields
<1> HIDE DEF t
<1>5. t.blocked \in BOOLEAN
  BY <1>3
<1>6. /\ t.requests \in Nat /\ t.cwnd \in Nat /\ t.port_free \in BOOLEAN
      /\ t.started \in BOOLEAN /\ t.done \in BOOLEAN
  BY <1>1, <1>3
<1>7. Moves(s, t) /\ t.rts = s.rts
  BY <1>4, <1>5, <1>6, NicMoves
<1> QED BY <1>3, <1>7 DEF t

LEMMA FramePort ==
  ASSUME NEW s, Body(s), NEW v \in BOOLEAN
  PROVE  LET t == [s EXCEPT !.port_free = v]
         IN /\ Moves(s, t) /\ t.blocked = s.blocked /\ t.requests = s.requests
            /\ t.port_free = v /\ t.started = s.started /\ t.done = s.done
            /\ (CanSend(t) <=> CanSend(s)) /\ t.rtx = s.rtx /\ t.rts = s.rts
            /\ t.backlog = s.backlog
<1> DEFINE t == [s EXCEPT !.port_free = v]
<1>1. IsSrc(s) /\ s.requests \in Nat /\ s.started \in BOOLEAN /\ s.cwnd \in Nat
      /\ s.blocked \in BOOLEAN /\ s.done \in BOOLEAN
  BY DEF Body, SrcOK, SrcTypes
<1>2. IsSrc(t)
  BY <1>1 DEF IsSrc
<1>3. /\ t.blocked = s.blocked /\ t.requests = s.requests /\ t.cwnd = s.cwnd
      /\ t.port_free = v /\ t.started = s.started /\ t.done = s.done
      /\ t.backlog = s.backlog
  BY <1>1, <1>2 DEF IsSrc, SrcFields
<1>4. Frame(s, t, NicFields)
  BY <1>1, <1>2 DEF IsSrc, SrcFields, Frame, NicFields
<1> HIDE DEF t
<1>5. /\ Moves(s, t) /\ NextSize(t) = NextSize(s) /\ t.in_flight = s.in_flight
      /\ t.rtx = s.rtx /\ t.rts = s.rts
  BY <1>1, <1>3, <1>4, NicMoves
<1>6. CanSend(t) <=> CanSend(s)
  BY <1>3, <1>5 DEF CanSend
<1> QED BY <1>3, <1>5, <1>6 DEF t

(* Two moves and no third: what remains of a handler after a packet is sent. *)
LEMMA AfterSend ==
  ASSUME NEW s, NEW u, Body(s), Moves(s, u), ~u.port_free, ~u.blocked,
         u.started = s.started
  PROVE  LET t == IF CanSend(u) THEN WaitForNic(u) ELSE u
         IN /\ Outcome(s, t) /\ t.port_free = FALSE /\ t.done = u.done
            /\ t.rts = u.rts
<1>1. Body(u) /\ u.requests \in Nat /\ u.port_free = FALSE
  BY DEF Moves, Body, SrcTypes
<1>2. CASE CanSend(u)
  <2> DEFINE t == WaitForNic(u)
  <2>1. /\ Moves(u, t) /\ t.blocked = TRUE /\ t.requests = u.requests + 1
        /\ t.port_free = u.port_free /\ t.started = u.started /\ t.done = u.done
        /\ t.rts = u.rts
    BY <1>1, FrameWait
  <2> HIDE DEF t
  <2>2. Moves(s, t)
    BY <2>1, MovesTrans
  <2>3. Outcome(s, t)
    BY <1>1, <2>1, <2>2 DEF Outcome, Queued, Awake
  <2> QED BY <1>1, <1>2, <2>1, <2>3 DEF t
<1>3. CASE ~CanSend(u)
  <2>1. Outcome(s, u)
    BY <1>1, <1>3 DEF Outcome, Queued, Awake
  <2> QED BY <1>1, <1>3, <2>1
<1> QED BY <1>2, <1>3

(* sendIfPermitted leaves no source with room in its window that has not     *)
(* asked the NIC, and does nothing if the port is free when it returns.      *)
LEMMA SendIfPermittedMoves ==
  ASSUME NEW s, Body(s), Queued(s)
  PROVE  LET t == SendIfPermitted(s)
         IN /\ Outcome(s, t) /\ t.done = s.done /\ t.rts = s.rts
            /\ t.port_free => t = s /\ ~CanSend(s)
<1>1. Moves(s, s)
  BY DEF Moves, Grows, Body, SrcOK
<1>2. s.port_free \in BOOLEAN /\ s.requests \in Nat /\ s.blocked \in BOOLEAN
  BY DEF Body, SrcTypes
<1>3. CASE ~CanSend(s) \/ s.blocked
  <2>1. SendIfPermitted(s) = s
    BY <1>3 DEF SendIfPermitted
  <2>2. Outcome(s, s)
    BY <1>1, <1>3 DEF Outcome, Awake
  <2>3. s.port_free => ~CanSend(s)
    BY <1>3 DEF Queued
  <2> QED BY <2>1, <2>2, <2>3
<1>4. CASE CanSend(s) /\ ~s.blocked /\ ~s.port_free
  <2> DEFINE t == WaitForNic(s)
  <2>1. SendIfPermitted(s) = t
    BY <1>4 DEF SendIfPermitted
  <2>2. /\ Moves(s, t) /\ t.blocked = TRUE /\ t.requests = s.requests + 1
        /\ t.port_free = s.port_free /\ t.started = s.started /\ t.done = s.done
        /\ t.rts = s.rts
    BY FrameWait
  <2> HIDE DEF t
  <2>3. Outcome(s, t)
    BY <1>2, <1>4, <2>2 DEF Outcome, Queued, Awake
  <2> QED BY <1>4, <2>1, <2>2, <2>3
<1>5. CASE CanSend(s) /\ ~s.blocked /\ s.port_free
  <2> DEFINE p == SendPacket(s)
             u == [p EXCEPT !.port_free = FALSE]
             t == SendIfPermitted(s)
  <2>1. Moves(s, p) /\ SameNic(s, p) /\ Body(p) /\ p.rts = s.rts
    BY <1>5, SendPacketMoves DEF Moves
  <2>2. t = IF CanSend(u) THEN WaitForNic(u) ELSE u
    BY <1>5 DEF SendIfPermitted
  <2> HIDE DEF p
  <2>3. /\ Moves(p, u) /\ u.blocked = p.blocked
        /\ u.port_free = FALSE /\ u.started = p.started /\ u.done = p.done
        /\ u.rts = p.rts
    BY <2>1, FramePort
  <2> HIDE DEF u, t
  <2>4. Moves(s, u)
    BY <2>1, <2>3, MovesTrans
  <2>5. ~u.blocked /\ u.started = s.started /\ u.done = s.done /\ u.rts = s.rts
    BY <1>5, <2>1, <2>3 DEF SameNic
  <2>6. Outcome(s, t) /\ t.port_free = FALSE /\ t.done = u.done /\ t.rts = u.rts
    BY <2>2, <2>3, <2>4, <2>5, AfterSend
  <2> QED BY <2>5, <2>6 DEF t
<1> QED BY <1>2, <1>3, <1>4, <1>5

(* The NIC gives the source a port, which it uses or gives back. *)
LEMMA TimeToSendMoves ==
  ASSUME NEW s, Body(s), ~s.port_free, s.requests > 0
  PROVE  Outcome(s, TimeToSend(s)) /\ TimeToSend(s).done = s.done
<1> DEFINE u == [s EXCEPT !.blocked = FALSE, !.requests = @ - 1]
           p == SendPacket(u)
           v == [u EXCEPT !.port_free = u.requests = 0]
           t == TimeToSend(s)
<1>1. t = IF ~CanSend(u) THEN v ELSE IF CanSend(p) THEN WaitForNic(p) ELSE p
  BY DEF TimeToSend
<1>2. IsSrc(s) /\ s.requests \in Nat /\ s.started \in BOOLEAN /\ s.cwnd \in Nat
      /\ s.port_free = FALSE /\ s.done \in BOOLEAN
  BY DEF Body, SrcOK, SrcTypes
<1>3. IsSrc(u)
  BY <1>2 DEF IsSrc
<1>4. /\ u.blocked = FALSE /\ u.requests = s.requests - 1 /\ u.cwnd = s.cwnd
      /\ u.port_free = FALSE /\ u.started = s.started /\ u.done = s.done
  BY <1>2, <1>3 DEF IsSrc, SrcFields
<1>5. Frame(s, u, NicFields)
  BY <1>2, <1>3 DEF IsSrc, SrcFields, Frame, NicFields
<1> HIDE DEF u
<1>6. u.requests \in Nat
  BY <1>2, <1>4
<1>7. Moves(s, u) /\ Body(u)
  <2>1. u.blocked \in BOOLEAN /\ u.port_free \in BOOLEAN
    BY <1>4
  <2>2. u.cwnd \in Nat /\ u.started \in BOOLEAN /\ u.done \in BOOLEAN
    BY <1>2, <1>4
  <2>3. Moves(s, u)
    BY <1>5, <1>6, <2>1, <2>2, NicMoves
  <2> QED BY <2>3 DEF Moves
<1>8. CASE ~CanSend(u)
  <2>1. /\ Moves(u, v) /\ v.blocked = u.blocked /\ v.requests = u.requests
        /\ v.port_free = (u.requests = 0) /\ v.started = u.started /\ v.done = u.done
        /\ (CanSend(v) <=> CanSend(u))
    <3> DEFINE none == u.requests = 0
    <3>1. none \in BOOLEAN
      OBVIOUS
    <3> HIDE DEF none
    <3>2. LET x == [u EXCEPT !.port_free = none]
          IN /\ Moves(u, x) /\ x.blocked = u.blocked /\ x.requests = u.requests
             /\ x.port_free = none /\ x.started = u.started /\ x.done = u.done
             /\ (CanSend(x) <=> CanSend(u))
      BY <1>7, <3>1, FramePort
    <3> QED BY <3>2 DEF none
  <2> HIDE DEF v
  <2>2. Moves(s, v)
    BY <1>7, <2>1, MovesTrans
  <2>3. u.requests > 0 => ~v.port_free
    <3>1. u.requests > 0 => u.requests # 0
      BY <1>6
    <3>2. u.requests # 0 => ~v.port_free
      BY <2>1, Zenon
    <3> QED BY <3>1, <3>2
  <2>4. Queued(v)
    BY <1>4, <2>1, <2>3 DEF Queued
  <2>5. Outcome(s, v) /\ v.done = s.done
    BY <1>4, <1>8, <2>1, <2>2, <2>4 DEF Outcome, Awake
  <2> QED BY <1>1, <1>8, <2>5
<1>9. CASE CanSend(u)
  <2>1. Moves(u, p) /\ SameNic(u, p)
    BY <1>7, <1>9, SendPacketMoves
  <2>2. t = IF CanSend(p) THEN WaitForNic(p) ELSE p
    BY <1>1, <1>9
  <2> HIDE DEF p, t
  <2>3. Moves(s, p)
    BY <1>7, <2>1, MovesTrans
  <2>4. ~p.port_free /\ ~p.blocked /\ p.started = s.started /\ p.done = s.done
    BY <1>4, <2>1 DEF SameNic
  <2>5. Outcome(s, t) /\ t.done = p.done
    BY <2>2, <2>3, <2>4, AfterSend
  <2> QED BY <2>4, <2>5 DEF t
<1> QED BY <1>8, <1>9

(* A source that starts has asked the NIC unless nothing is left to send. *)
LEMMA StartFlowMoves ==
  ASSUME NEW s, Body(s), Queued(s), s.requests = 0, s.rtx = {}, s.backlog > 0
  PROVE  LET t == StartFlow(s)
         IN /\ Moves(s, t) /\ Queued(t) /\ Awake(t)
            /\ t.started = TRUE /\ t.done = s.done
<1> DEFINE b == [s EXCEPT !.started = TRUE]
           u == SendNewPacket(b)
           v == [u EXCEPT !.port_free = FALSE]
           t == IF b.port_free THEN v ELSE b
           w == WaitForNic(t)
<1>1. StartFlow(s) = IF t.backlog > 0 THEN w ELSE t
  BY DEF StartFlow
<1>2. IsSrc(s) /\ s.cwnd \in Nat /\ s.blocked \in BOOLEAN /\ s.blocked = FALSE
      /\ s.port_free \in BOOLEAN /\ s.done \in BOOLEAN /\ s.backlog \in Nat
  BY DEF Body, SrcOK, SrcTypes, Queued
<1>3. IsSrc(b)
  BY <1>2 DEF IsSrc
<1>4. /\ b.blocked = FALSE /\ b.requests = 0 /\ b.cwnd = s.cwnd /\ b.backlog = s.backlog
      /\ b.port_free = s.port_free /\ b.started = TRUE /\ b.done = s.done
  BY <1>2, <1>3 DEF IsSrc, SrcFields
<1>5. Frame(s, b, NicFields)
  BY <1>2, <1>3 DEF IsSrc, SrcFields, Frame, NicFields
<1> HIDE DEF b
<1>6. Moves(s, b) /\ Body(b) /\ b.rtx = {}
  <2>1. b.blocked \in BOOLEAN /\ b.started \in BOOLEAN
    BY <1>4
  <2>2. b.requests \in Nat /\ b.cwnd \in Nat /\ b.port_free \in BOOLEAN /\ b.done \in BOOLEAN
    BY <1>2, <1>4
  <2>3. Moves(s, b) /\ b.rtx = s.rtx
    BY <1>5, <2>1, <2>2, NicMoves
  <2> QED BY <2>3 DEF Moves
<1>7. Moves(b, u) /\ SameNic(b, u) /\ u.rtx = {} /\ Body(u)
  BY <1>4, <1>6, NewPacketMoves DEF Moves
<1> HIDE DEF u
<1>8. /\ Moves(u, v) /\ v.blocked = u.blocked /\ v.requests = u.requests
      /\ v.port_free = FALSE /\ v.started = u.started /\ v.done = u.done
      /\ v.rtx = u.rtx
  BY <1>7, FramePort
<1> HIDE DEF v
<1>9. Moves(s, v)
  BY <1>6, <1>7, <1>8, MovesTrans
<1>10. /\ Moves(s, t) /\ Body(t) /\ t.blocked = FALSE /\ t.requests = 0
       /\ t.port_free = FALSE /\ t.started = TRUE /\ t.done = s.done /\ t.rtx = {}
  BY <1>2, <1>4, <1>6, <1>7, <1>8, <1>9 DEF SameNic, Moves
<1> HIDE DEF t
<1>11. t.backlog \in Nat
  BY <1>10 DEF Body, SrcTypes
<1>12. CASE t.backlog > 0
  <2>1. /\ Moves(t, w) /\ w.blocked = TRUE /\ w.requests = 0 + 1
        /\ w.port_free = FALSE /\ w.started = TRUE /\ w.done = s.done
    BY <1>10, FrameWait
  <2> HIDE DEF w
  <2>2. Moves(s, w)
    BY <1>10, <2>1, MovesTrans
  <2> QED BY <1>1, <1>12, <2>1, <2>2 DEF Queued, Awake
<1>13. CASE ~(t.backlog > 0)
  <2>1. ~CanSend(t)
    BY <1>10, <1>13 DEF CanSend, NextSize
  <2> QED BY <1>1, <1>10, <1>13, <2>1 DEF Queued, Awake
<1> QED BY <1>12, <1>13

(* delFromSendTimes, and recalculateRTO, which repairs the timer. *)
LEMMA DelFrame ==
  ASSUME NEW s, IsSrc(s), NEW psns
  PROVE  LET t == DelFromSendTimes(s, psns)
         IN /\ Frame(s, t, {"send_times"})
            /\ t.send_times = Remaining(s.send_times, psns)
<1> DEFINE q == Remaining(s.send_times, psns)
           t == [s EXCEPT !.send_times = q]
<1>1. DelFromSendTimes(s, psns) = t
  BY DEF DelFromSendTimes
<1> HIDE DEF q
<1>2. IsSrc(t)
  BY DEF IsSrc
<1>3. t.send_times = q /\ Frame(s, t, {"send_times"})
  BY <1>2 DEF IsSrc, SrcFields, Frame
<1> QED BY <1>1, <1>3 DEF q

LEMMA RecalculateFrame ==
  ASSUME NEW s, IsSrc(s)
  PROVE  LET t == RecalculateRTO(s) IN Frame(s, t, {"rto"}) /\ Timer(t)
<1> DEFINE t == RecalculateRTO(s)
<1>1. IsSrc(t)
  BY DEF IsSrc, RecalculateRTO
<1>2. t.send_times = s.send_times
      /\ t.rto = IF s.send_times = <<>> THEN NoPsn ELSE Head(s.send_times)
  BY <1>1 DEF IsSrc, SrcFields, RecalculateRTO
<1>3. Frame(s, t, {"rto"})
  BY <1>1 DEF IsSrc, SrcFields, RecalculateRTO, Frame
<1> QED BY <1>2, <1>3 DEF Timer

(* A packet given up: its send record goes, and it waits to be sent again. *)
LEMMA RequeueMoves ==
  ASSUME NEW s, Body(s), Queued(s), NEW psn \in s.tx, NEW f,
         Frame(s, f, {"tx", "send_times", "rto", "in_flight", "cwnd"}),
         f.tx = s.tx \ {psn}, f.send_times = Remaining(s.send_times, {psn}),
         f.in_flight = s.in_flight - Size(s, psn), f.cwnd \in Nat
  PROVE  LET q == QueueForRtx(f, psn)
         IN /\ Body(q) /\ Queued(q) /\ (q.done \/ Awake(q)) /\ Grows(s, q)
            /\ Timer(f) => Timer(q)
            /\ q.started = s.started /\ q.done = s.done
            /\ q.rts = s.rts
            /\ q.port_free => q.rtx = s.rtx \cup {psn} /\ ~CanSend(q)
<1> DEFINE g == [f EXCEPT !.rtx = @ \cup {psn}]
           q == QueueForRtx(f, psn)
           n == s.highest_sent
           size == Size(s, psn)
<1>1. IsSrc(f)
  BY DEF Frame
<1>2. IsSrc(g)
  BY <1>1 DEF IsSrc
<1>3. /\ g.highest_sent = n /\ g.backlog = s.backlog /\ g.tx = s.tx \ {psn}
      /\ g.send_times = Remaining(s.send_times, {psn})
      /\ g.rtx = s.rtx \cup {psn} /\ g.rts = s.rts
      /\ g.in_flight = s.in_flight - size /\ g.recvd_bytes = s.recvd_bytes
      /\ g.sent = s.sent
  BY <1>1, <1>2 DEF IsSrc, SrcFields, Frame
<1>4. /\ g.started = s.started /\ g.blocked = s.blocked /\ g.requests = s.requests
      /\ g.port_free = s.port_free /\ g.done = s.done /\ g.cwnd \in Nat
      /\ g.rto = f.rto /\ g.send_times = f.send_times
  BY <1>1, <1>2 DEF IsSrc, SrcFields, Frame
<1>5. q = SendIfPermitted(g)
  BY DEF QueueForRtx
<1> HIDE DEF g, q
<1>6. /\ n \in Nat /\ s.rts \subseteq Below(n) /\ s.rtx \subseteq Below(n)
      /\ s.tx \subseteq Below(n) /\ psn \notin s.rtx
      /\ size = (IF psn \in s.rts THEN Hdr ELSE Mtu)
  BY DEF Body, SrcOK, SrcTypes, Size
<1> HIDE DEF size
<1>7. SrcOK(g)
  BY <1>2, <1>3, <1>6 DEF Body, SrcOK
<1>8. SrcTypes(g)
  <2>1. s.in_flight \in Int /\ size \in Int
    BY <1>6, ParametersAreNat DEF Body, SrcTypes
  <2> QED BY <1>3, <1>4, <2>1 DEF Body, SrcTypes
<1>9. SendTimes(g)
  BY <1>3, RemainingIs DEF Body, SendTimes
<1>10. Counted(g)
  <2> DEFINE R == s.rtx \cup {psn}
  <2>1. R \subseteq Below(n) /\ R \ {psn} = s.rtx /\ psn \in R
    BY <1>6
  <2> HIDE DEF R, n
  <2>2. Charge(n, s.rts, R) \in Int
        /\ Charge(n, s.rts, R \ {psn}) = Charge(n, s.rts, R) + size
    BY <1>6, <2>1, ChargeOne
  <2>3. s.in_flight = Charge(n, s.rts, s.rtx) - s.recvd_bytes
    BY DEF Body, Counted, n
  <2>4. s.in_flight \in Int /\ s.recvd_bytes \in Int /\ size \in Int
    BY <1>6, ParametersAreNat DEF Body, SrcTypes
  <2>5. Charge(n, s.rts, s.rtx) = Charge(n, s.rts, R) + size
    BY <2>1, <2>2, Zenon
  <2>6. g.in_flight = Charge(n, s.rts, R) - s.recvd_bytes
    BY <1>3, <2>2, <2>3, <2>4, <2>5
  <2> QED BY <1>3, <2>6 DEF Counted, R, n
<1>11. Grows(s, g)
  BY <1>3, <1>6 DEF Grows
<1>12. \A m \in g.sent : PacketOK(m, g)
  BY <1>3, <1>6, <1>11, PacketStays DEF Body
<1>13. Body(g)
  BY <1>7, <1>8, <1>9, <1>10, <1>12 DEF Body
<1>14. Queued(g)
  BY <1>4 DEF Queued
<1>15. /\ Outcome(g, q) /\ q.done = g.done /\ q.rts = g.rts
       /\ q.port_free => q = g /\ ~CanSend(g)
  BY <1>5, <1>13, <1>14, SendIfPermittedMoves
<1>16. Moves(g, q) /\ Body(q)
  BY <1>15 DEF Outcome, Moves
<1>17. Grows(s, q)
  <2>1. q.rts \subseteq Below(q.highest_sent) /\ q.highest_sent \in Nat
    BY <1>16 DEF Body, SrcOK, SrcTypes
  <2> QED BY <1>3, <1>6, <1>16, <2>1 DEF Moves, Grows, Below
<1>18. Timer(f) => Timer(q)
  BY <1>4, <1>16 DEF Timer, Moves
<1> QED
  BY <1>3, <1>4, <1>13, <1>14, <1>15, <1>16, <1>17, <1>18 DEF g, q, Outcome

LEMMA NackMoves ==
  ASSUME NEW s, Body(s), Queued(s), Timer(s), s.done \/ Awake(s),
         NEW m, NEW w \in Nat
  PROVE  LET t == ProcessNack(s, m, w)
         IN /\ Outcome(s, t) /\ t.done = s.done
<1> DEFINE psn == m.psn
           size == Size(s, psn)
           e == [s EXCEPT !.tx = @ \ {psn}, !.cwnd = w, !.in_flight = @ - size]
           f == DelFromSendTimes(e, {psn})
           q == QueueForRtx(f, psn)
           c == RecalculateRTO(q)
           r == IF s.rto = psn THEN c ELSE q
           t == ProcessNack(s, m, w)
<1>1. CASE psn \notin s.tx
  <2>1. t = s
    BY <1>1 DEF ProcessNack
  <2>2. Outcome(s, s)
    BY DEF Outcome, Moves, Grows, Body, SrcOK
  <2> QED BY <2>1, <2>2
<1>2. CASE psn \in s.tx
  <2>1. t = SendIfPermitted(r)
    BY <1>2 DEF ProcessNack
  <2>2. IsSrc(s)
    BY DEF Body, SrcOK
  <2> HIDE DEF psn, size, t
  <2>3. IsSrc(e)
    BY <2>2 DEF IsSrc
  <2>4. /\ Frame(s, e, {"tx", "in_flight", "cwnd"})
        /\ e.tx = s.tx \ {psn} /\ e.in_flight = s.in_flight - size /\ e.cwnd = w
        /\ e.send_times = s.send_times /\ e.rto = s.rto
    BY <2>2, <2>3 DEF IsSrc, SrcFields, Frame
  <2> HIDE DEF e
  <2>5. /\ Frame(e, f, {"send_times"})
        /\ f.send_times = Remaining(s.send_times, {psn})
    BY <2>3, <2>4, DelFrame
  <2> HIDE DEF f
  <2>6. /\ Frame(s, f, {"tx", "send_times", "rto", "in_flight", "cwnd"})
        /\ f.tx = s.tx \ {psn} /\ f.in_flight = s.in_flight - size /\ f.cwnd = w
        /\ f.rto = s.rto
    BY <2>4, <2>5 DEF Frame, SrcFields
  <2>7. /\ Body(q) /\ Queued(q) /\ Grows(s, q) /\ (Timer(f) => Timer(q))
        /\ q.started = s.started /\ q.done = s.done
    <3>1. f.in_flight = s.in_flight - Size(s, psn) /\ f.cwnd \in Nat
      BY <2>6 DEF size
    <3>2. psn \in s.tx
      BY <1>2 DEF psn
    <3> QED BY <2>5, <2>6, <3>1, <3>2, RequeueMoves
  <2> HIDE DEF q
  <2>8. ASSUME s.rto = psn
        PROVE  /\ Body(r) /\ Queued(r) /\ Grows(s, r) /\ Timer(r)
               /\ r.started = s.started /\ r.done = s.done
    <3>1. Frame(q, c, {"rto"}) /\ Timer(c)
      BY <2>7, RecalculateFrame DEF Body, SrcOK
    <3>2. Body(c) /\ Queued(c) /\ Grows(s, c) /\ c.started = s.started /\ c.done = s.done
      <4> HIDE DEF c
      <4>1. /\ IsSrc(c) /\ c.highest_sent = q.highest_sent /\ c.backlog = q.backlog
            /\ c.tx = q.tx /\ c.send_times = q.send_times /\ c.rtx = q.rtx
            /\ c.rts = q.rts /\ c.in_flight = q.in_flight
            /\ c.recvd_bytes = q.recvd_bytes /\ c.sent = q.sent
        BY <3>1 DEF Frame, SrcFields
      <4>2. /\ c.started = q.started /\ c.blocked = q.blocked
            /\ c.requests = q.requests /\ c.port_free = q.port_free
            /\ c.done = q.done /\ c.cwnd = q.cwnd
        BY <3>1 DEF Frame, SrcFields
      <4>3. SrcOK(c)
        BY <2>7, <4>1 DEF Body, SrcOK
      <4>4. SrcTypes(c)
        BY <2>7, <4>1, <4>2 DEF Body, SrcTypes
      <4>5. SendTimes(c) /\ Counted(c)
        BY <2>7, <4>1 DEF Body, SendTimes, Counted
      <4>6. \A p \in c.sent : PacketOK(p, c)
        BY <2>7, <4>1 DEF Body, PacketOK, Size
      <4>7. Queued(c) /\ Grows(s, c)
        BY <2>7, <4>1, <4>2 DEF Queued, Grows
      <4> QED BY <2>7, <4>2, <4>3, <4>4, <4>5, <4>6, <4>7 DEF Body
    <3> QED BY <2>8, <3>1, <3>2 DEF r
  <2>9. ASSUME s.rto # psn
        PROVE  /\ Body(r) /\ Queued(r) /\ Grows(s, r) /\ Timer(r)
               /\ r.started = s.started /\ r.done = s.done
    <3> DEFINE o == s.send_times
    <3>1. o \in Seq(Int) /\ RangeOf(o) = s.tx /\ s.rto = IF o = <<>> THEN NoPsn ELSE Head(o)
      BY DEF Body, SendTimes, Timer
    <3>2. o # <<>>
      BY <1>2, <3>1 DEF RangeOf
    <3>3. Head(o) \notin {psn}
      BY <2>9, <3>1, <3>2
    <3> HIDE DEF o
    <3>4. Remaining(o, {psn}) # <<>> /\ Head(Remaining(o, {psn})) = Head(o)
      BY <3>1, <3>2, <3>3, RemainingIs
    <3>5. Timer(f)
      BY <2>5, <2>6, <3>1, <3>2, <3>4 DEF Timer, o
    <3> QED BY <2>7, <2>9, <3>5 DEF r
  <2>10. /\ Body(r) /\ Queued(r) /\ Grows(s, r) /\ Timer(r)
         /\ r.started = s.started /\ r.done = s.done
    <3>1. CASE s.rto = psn
      BY <2>8, <3>1
    <3>2. CASE s.rto # psn
      BY <2>9, <3>2
    <3> QED BY <3>1, <3>2
  <2> HIDE DEF r
  <2>11. Outcome(r, t) /\ t.done = r.done
    BY <2>1, <2>10, SendIfPermittedMoves
  <2>12. Moves(s, r)
    BY <2>10 DEF Moves
  <2>13. Moves(s, t)
    BY <2>11, <2>12, MovesTrans DEF Outcome
  <2> QED BY <2>10, <2>11, <2>13 DEF Outcome, t
<1> QED BY <1>1, <1>2

(* The branch of rtxTimerExpired that sends the packet itself is dead: with  *)
(* a free port sendIfPermitted would have sent it.                           *)
LEMMA TimeoutMoves ==
  ASSUME NEW s, Body(s), Queued(s), Head(s.send_times) \in s.tx,
         NEW allowed, Cardinality(s.rts) >= MaxRts => ~allowed
  PROVE  LET t == RtxTimerExpired(s, allowed)
         IN Outcome(s, t) /\ Timer(t) /\ t.done = s.done
<1> DEFINE psn == Head(s.send_times)
           size == Size(s, psn)
           d == [s EXCEPT !.tx = @ \ {psn}]
           r == DelFromSendTimes(d, {psn})
           e == RecalculateRTO(r)
           f == [e EXCEPT !.in_flight = @ - size, !.cwnd = Larger(@ - size, Mtu)]
           q == QueueForRtx(f, psn)
           t == [SendRtxPacket(q) EXCEPT !.port_free = FALSE]
           u == [q EXCEPT !.requests = @ + 1]
           v == SendRTS(q, allowed)
<1>1. IsSrc(s) /\ s.cwnd \in Nat
  BY DEF Body, SrcOK, SrcTypes
<1>2. RtxTimerExpired(s, allowed) =
        IF s.rtx # {} THEN q
        ELSE IF q.cwnd < size + q.in_flight THEN v
        ELSE IF q.port_free THEN t
        ELSE u
  BY DEF RtxTimerExpired
<1>3. psn \in s.tx
  OBVIOUS
<1>4. size = (IF psn \in s.rts THEN Hdr ELSE Mtu) /\ size \in Nat /\ size > 0
  BY ParametersAreNat DEF Size
<1> HIDE DEF psn
<1>5. IsSrc(d)
  BY <1>1 DEF IsSrc
<1>6. Frame(s, d, {"tx"}) /\ d.tx = s.tx \ {psn} /\ d.send_times = s.send_times
  BY <1>1, <1>5 DEF IsSrc, SrcFields, Frame
<1> HIDE DEF d
<1>7. Frame(d, r, {"send_times"}) /\ r.send_times = Remaining(s.send_times, {psn})
  BY <1>5, <1>6, DelFrame
<1> HIDE DEF r
<1>8. Frame(r, e, {"rto"}) /\ Timer(e)
  BY <1>7, RecalculateFrame DEF Frame
<1> HIDE DEF e
<1>9. /\ Frame(s, e, {"tx", "send_times", "rto"})
      /\ e.tx = s.tx \ {psn} /\ e.send_times = Remaining(s.send_times, {psn})
      /\ e.in_flight = s.in_flight /\ e.cwnd = s.cwnd
  BY <1>6, <1>7, <1>8 DEF Frame, SrcFields
<1>10. /\ Frame(s, f, {"tx", "send_times", "rto", "in_flight", "cwnd"})
       /\ f.tx = s.tx \ {psn} /\ f.send_times = Remaining(s.send_times, {psn})
       /\ f.in_flight = s.in_flight - size /\ f.cwnd \in Nat /\ Timer(f)
  <2> HIDE DEF size
  <2>1. IsSrc(f)
    BY <1>9 DEF IsSrc, Frame
  <2>2. /\ f.tx = e.tx /\ f.send_times = e.send_times /\ f.rto = e.rto
        /\ f.in_flight = s.in_flight - size /\ f.cwnd = Larger(s.cwnd - size, Mtu)
    BY <1>9, <2>1 DEF IsSrc, SrcFields, Frame
  <2>3. Frame(s, f, {"tx", "send_times", "rto", "in_flight", "cwnd"})
    BY <1>9, <2>1 DEF IsSrc, SrcFields, Frame
  <2>4. Larger(s.cwnd - size, Mtu) \in Nat
    BY <1>1, <1>4, ParametersAreNat DEF Larger
  <2> HIDE DEF f
  <2>5. Timer(f)
    BY <1>8, <2>2 DEF Timer
  <2> QED BY <1>9, <2>2, <2>3, <2>4, <2>5
<1> HIDE DEF f
<1>11. /\ Body(q) /\ Queued(q) /\ (q.done \/ Awake(q)) /\ Grows(s, q) /\ Timer(q)
       /\ q.started = s.started /\ q.done = s.done /\ q.rts = s.rts
       /\ q.port_free => q.rtx = s.rtx \cup {psn} /\ ~CanSend(q)
  <2>1. f.in_flight = s.in_flight - Size(s, psn)
    BY <1>10
  <2> HIDE DEF size
  <2>2. /\ Body(q) /\ Queued(q) /\ (q.done \/ Awake(q)) /\ Grows(s, q)
        /\ Timer(f) => Timer(q)
    BY <1>3, <1>10, <2>1, RequeueMoves
  <2>3. /\ q.started = s.started /\ q.done = s.done /\ q.rts = s.rts
        /\ q.port_free => q.rtx = s.rtx \cup {psn} /\ ~CanSend(q)
    BY <1>3, <1>10, <2>1, RequeueMoves, ZenonT(30)
  <2> QED BY <1>10, <2>2, <2>3
<1> HIDE DEF q
<1>12. Outcome(s, q)
  BY <1>11 DEF Outcome, Moves
<1>13. Outcome(s, v) /\ Timer(v) /\ v.done = s.done
  <2>1. Cardinality(q.rts) >= MaxRts => ~allowed
    BY <1>11
  <2>2. Moves(q, v) /\ SameNic(q, v) /\ NextSize(v) = NextSize(q) /\ v.in_flight = q.in_flight
    BY <1>11, <2>1, RTSMoves
  <2> HIDE DEF v
  <2>3. Moves(s, v)
    BY <1>12, <2>2, MovesTrans DEF Outcome
  <2>4. CanSend(v) <=> CanSend(q)
    BY <2>2 DEF CanSend, SameNic
  <2>5. Queued(v) /\ (v.done \/ Awake(v)) /\ v.started = s.started /\ v.done = s.done
    BY <1>11, <2>2, <2>4 DEF Queued, Awake, SameNic
  <2> QED BY <1>11, <2>2, <2>3, <2>5 DEF Outcome, Moves
<1>14. ASSUME ~(s.rtx # {}), q.port_free
       PROVE  q.cwnd < size + q.in_flight
  <2>1. q.rtx = {psn} /\ ~CanSend(q)
    BY <1>11, <1>14
  <2>2. Least({psn}) = psn
    <3>1. psn \in Nat
      BY <1>3 DEF Body, SrcOK, Below
    <3>2. {psn} \in SUBSET Nat /\ {psn} # {}
      BY <3>1
    <3> QED BY <3>2, LeastIn
  <2>3. NextSize(q) = Size(q, psn)
    BY <2>1, <2>2 DEF NextSize
  <2>4. Size(q, psn) = size
    BY <1>4, <1>11 DEF Size
  <2>5. ~(q.cwnd >= q.in_flight + size)
    BY <1>4, <2>1, <2>3, <2>4 DEF CanSend
  <2>6. q.cwnd \in Nat /\ q.in_flight \in Int
    BY <1>11 DEF Body, SrcTypes
  <2> HIDE DEF size
  <2> QED BY <1>4, <2>5, <2>6
<1>15. ASSUME ~q.port_free
       PROVE  Outcome(s, u) /\ Timer(u) /\ u.done = s.done
  <2>1. IsSrc(q) /\ q.requests \in Nat /\ q.started \in BOOLEAN /\ q.cwnd \in Nat
        /\ q.blocked \in BOOLEAN /\ q.done \in BOOLEAN /\ q.port_free \in BOOLEAN
    BY <1>11 DEF Body, SrcOK, SrcTypes
  <2>2. IsSrc(u)
    BY <2>1 DEF IsSrc
  <2>3. /\ u.blocked = q.blocked /\ u.requests = q.requests + 1 /\ u.cwnd = q.cwnd
        /\ u.port_free = q.port_free /\ u.started = q.started /\ u.done = q.done
    BY <2>1, <2>2 DEF IsSrc, SrcFields
  <2>4. Frame(q, u, NicFields)
    BY <2>1, <2>2 DEF IsSrc, SrcFields, Frame, NicFields
  <2> HIDE DEF u
  <2>5. u.requests \in Nat
    BY <2>1, <2>3
  <2>6. Moves(q, u) /\ NextSize(u) = NextSize(q) /\ u.in_flight = q.in_flight
    BY <1>11, <2>1, <2>3, <2>4, <2>5, NicMoves
  <2>7. Moves(s, u)
    BY <1>12, <2>6, MovesTrans DEF Outcome
  <2>8. CanSend(u) <=> CanSend(q)
    BY <2>3, <2>6 DEF CanSend
  <2>9. u.requests > 0
    BY <2>1, <2>3
  <2>10. Queued(u) /\ (u.done \/ Awake(u)) /\ u.started = s.started /\ u.done = s.done
    BY <1>11, <1>15, <2>3, <2>8, <2>9 DEF Queued, Awake
  <2> QED BY <1>11, <2>6, <2>7, <2>10 DEF Outcome, Moves
<1> HIDE DEF t, u, v, size
<1> QED BY <1>2, <1>11, <1>12, <1>13, <1>14, <1>15

LEMMA AckMoves ==
  ASSUME NEW s, Body(s), Queued(s), Timer(s), NEW m, m.recvd_bytes \in Int,
         NEW w \in Nat
  PROVE  LET t == ProcessAck(s, m, w)
         IN Outcome(s, t) /\ Timer(t) /\ (t.done <=> IsFinished(s, m.cum_ack))
<1> DEFINE acked == {p \in Psns : p < m.cum_ack} \cup m.sacked
           R == s.rtx \cap acked
           T == s.tx \cap acked
           bytes == Bytes(s, R)
           b == [s EXCEPT !.tx = @ \ acked, !.rtx = @ \ acked, !.in_flight = @ + bytes]
           d == DelFromSendTimes(b, T)
           e == RecalculateRTO(d)
           c == Acknowledge(s, acked)
           newly == Larger(m.recvd_bytes - s.recvd_bytes, 0)
           a == [c EXCEPT !.in_flight = @ - newly, !.recvd_bytes = @ + newly,
                          !.cwnd = w]
           z == [a EXCEPT !.done = TRUE]
           t == ProcessAck(s, m, w)
<1>1. IsSrc(s) /\ s.in_flight \in Int /\ s.recvd_bytes \in Int
      /\ s.highest_sent \in Nat
  BY DEF Body, SrcOK, SrcTypes
<1>2. c = IF s.rto \in T THEN e ELSE d
  BY DEF Acknowledge
<1>3. t = IF IsFinished(s, m.cum_ack) THEN z ELSE SendIfPermitted(a)
  BY DEF ProcessAck
<1>4. newly \in Int
  BY <1>1 DEF Larger
<1>5. bytes = Weight(R, s.rts)
  BY DEF Bytes, Weight
<1>6. R \subseteq s.rtx /\ s.rtx \ acked = s.rtx \ R /\ s.tx \ acked = s.tx \ T
  OBVIOUS
<1> HIDE DEF acked, newly, bytes, c, t
<1>7. IsSrc(b)
  BY <1>1 DEF IsSrc
<1>8. /\ Frame(s, b, {"tx", "rtx", "in_flight"})
      /\ b.tx = s.tx \ acked /\ b.rtx = s.rtx \ acked /\ b.send_times = s.send_times
      /\ b.in_flight = s.in_flight + bytes /\ b.rto = s.rto
  BY <1>1, <1>7 DEF IsSrc, SrcFields, Frame
<1> HIDE DEF b
<1>9. Frame(b, d, {"send_times"}) /\ d.send_times = Remaining(s.send_times, T)
  BY <1>7, <1>8, DelFrame
<1> HIDE DEF d
<1>10. Frame(d, e, {"rto"}) /\ Timer(e)
  BY <1>9, RecalculateFrame DEF Frame
<1> HIDE DEF e
<1>11. /\ Frame(s, c, {"tx", "rtx", "in_flight", "send_times", "rto"})
       /\ c.tx = s.tx \ acked /\ c.rtx = s.rtx \ acked
       /\ c.send_times = Remaining(s.send_times, T)
       /\ c.in_flight = s.in_flight + bytes /\ c.recvd_bytes = s.recvd_bytes
  BY <1>2, <1>8, <1>9, <1>10 DEF Frame, SrcFields
<1>12. Timer(c)
  <2>1. CASE s.rto \in T
    BY <1>2, <1>10, <2>1
  <2>2. CASE s.rto \notin T
    <3> DEFINE o == s.send_times
    <3>1. o \in Seq(Int) /\ RangeOf(o) = s.tx /\ s.rto = IF o = <<>> THEN NoPsn ELSE Head(o)
      BY DEF Body, SendTimes, Timer
    <3>2. c = d /\ d.rto = s.rto
      BY <1>2, <1>8, <1>9, <2>2 DEF Frame, SrcFields
    <3>3. CASE o = <<>>
      <4>1. Remaining(o, T) \in Seq(Int) /\ RangeOf(Remaining(o, T)) = RangeOf(o) \ T
        <5> HIDE DEF o
        <5> QED BY <3>1, RemainingIs
      <4>2. RangeOf(o) = {}
        BY <3>3 DEF RangeOf
      <4>3. Remaining(o, T) = <<>>
        <5> DEFINE k == Remaining(o, T)
        <5> HIDE DEF o
        <5>1. k \in Seq(Int) /\ RangeOf(k) = {}
          BY <4>1, <4>2
        <5> HIDE DEF k
        <5>2. k # <<>> => k[1] \in RangeOf(k)
          BY <5>1 DEF RangeOf
        <5> QED BY <5>1, <5>2 DEF k
      <4> QED BY <1>9, <3>1, <3>2, <3>3, <4>3 DEF Timer
    <3>4. CASE o # <<>>
      <4>1. Head(o) \notin T
        BY <2>2, <3>1, <3>4
      <4> HIDE DEF o
      <4>2. Remaining(o, T) # <<>> /\ Head(Remaining(o, T)) = Head(o)
        BY <3>1, <3>4, <4>1, RemainingIs
      <4> QED BY <1>9, <3>1, <3>2, <3>4, <4>2 DEF Timer, o
    <3> QED BY <3>3, <3>4
  <2> QED BY <2>1, <2>2
<1>13. IsSrc(a)
  BY <1>11 DEF IsSrc, Frame
<1>14. /\ a.highest_sent = s.highest_sent /\ a.backlog = s.backlog /\ a.rts = s.rts
       /\ a.tx = s.tx \ acked /\ a.rtx = s.rtx \ acked /\ a.sent = s.sent
       /\ a.send_times = Remaining(s.send_times, T)
       /\ a.in_flight = c.in_flight - newly
       /\ a.recvd_bytes = c.recvd_bytes + newly
  <2> HIDE DEF R, T
  <2> QED BY <1>11, <1>13 DEF IsSrc, SrcFields, Frame
<1>15. /\ a.started = s.started /\ a.blocked = s.blocked /\ a.requests = s.requests
       /\ a.port_free = s.port_free /\ a.done = s.done /\ a.cwnd = w
       /\ a.rto = c.rto /\ a.send_times = c.send_times
  BY <1>11, <1>13 DEF IsSrc, SrcFields, Frame
<1> HIDE DEF a
<1>16. SrcOK(a)
  BY <1>13, <1>14 DEF Body, SrcOK
<1>17. Charge(a.highest_sent, a.rts, a.rtx) =
         Charge(s.highest_sent, s.rts, s.rtx) + bytes
       /\ Charge(s.highest_sent, s.rts, s.rtx) \in Int /\ bytes \in Int
  <2> DEFINE n == s.highest_sent
             rts == s.rts
             rtx == s.rtx
  <2>1. n \in Nat /\ rts \subseteq Below(n) /\ rtx \subseteq Below(n) /\ R \subseteq rtx
    BY <1>6 DEF Body, SrcOK, SrcTypes
  <2>2. a.highest_sent = n /\ a.rts = rts /\ a.rtx = rtx \ R
    BY <1>6, <1>14
  <2> HIDE DEF n, rts, rtx, R
  <2>3. /\ Charge(n, rts, rtx) \in Int /\ Weight(R, rts) \in Int
        /\ Charge(n, rts, rtx \ R) = Charge(n, rts, rtx) + Weight(R, rts)
    BY <2>1, ChargeLeaves
  <2>4. bytes = Weight(R, rts)
    BY <1>5 DEF rts
  <2> QED BY <2>2, <2>3, <2>4 DEF n, rts, rtx
<1>19. SrcTypes(a)
  BY <1>1, <1>4, <1>11, <1>14, <1>15, <1>17 DEF Body, SrcTypes
<1>20. SendTimes(a)
  BY <1>6, <1>14, RemainingIs DEF Body, SendTimes
<1>21. Counted(a)
  BY <1>1, <1>4, <1>11, <1>14, <1>17 DEF Body, Counted
<1>22. Grows(s, a)
  BY <1>1, <1>14 DEF Grows
<1>23. \A p \in a.sent : PacketOK(p, a)
  BY <1>1, <1>14, <1>22, PacketStays DEF Body
<1>24. Body(a) /\ Timer(a) /\ Queued(a)
  BY <1>12, <1>15, <1>16, <1>19, <1>20, <1>21, <1>23 DEF Body, Timer, Queued
<1>25. Moves(s, a)
  BY <1>22, <1>24 DEF Moves
<1>26. CASE IsFinished(s, m.cum_ack)
  <2>1. IsSrc(z)
    BY <1>13 DEF IsSrc
  <2>2. /\ z.started = a.started /\ z.blocked = a.blocked /\ z.requests = a.requests
        /\ z.port_free = a.port_free /\ z.done = TRUE /\ z.cwnd = a.cwnd
    BY <1>13, <2>1 DEF IsSrc, SrcFields
  <2>3. Frame(a, z, NicFields)
    BY <1>13, <2>1 DEF IsSrc, SrcFields, Frame, NicFields
  <2> HIDE DEF z
  <2>4. z.done \in BOOLEAN
    BY <2>2
  <2>5. /\ z.started \in BOOLEAN /\ z.blocked \in BOOLEAN /\ z.port_free \in BOOLEAN
        /\ z.requests \in Nat /\ z.cwnd \in Nat
    BY <1>24, <2>2 DEF Body, SrcTypes
  <2>6. Moves(a, z)
    BY <1>24, <2>3, <2>4, <2>5, NicMoves
  <2>7. Moves(s, z)
    BY <1>25, <2>6, MovesTrans
  <2>8. Outcome(s, z)
    BY <1>15, <1>24, <2>2, <2>7 DEF Outcome, Queued
  <2>9. Timer(z)
    BY <1>24, <2>6 DEF Moves
  <2> QED BY <1>3, <1>26, <2>2, <2>8, <2>9 DEF t
<1>27. CASE ~IsFinished(s, m.cum_ack)
  <2>1. t = SendIfPermitted(a)
    BY <1>3, <1>27
  <2>2. Outcome(a, t) /\ t.done = a.done
    BY <1>24, <2>1, SendIfPermittedMoves
  <2>3. Moves(s, t)
    BY <1>25, <2>2, MovesTrans DEF Outcome
  <2>4. Outcome(s, t) /\ Timer(t)
    BY <1>15, <1>24, <2>2, <2>3 DEF Outcome, Moves
  <2>5. s.done = FALSE
    BY <1>27 DEF IsFinished, Body, SrcTypes
  <2> QED BY <1>15, <1>27, <2>2, <2>4, <2>5 DEF t
<1> QED BY <1>26, <1>27

-----------------------------------------------------------------------------
(* The sink, counted. *)

SinkFrame(k, l, F) == IsSink(l) /\ \A f \in SinkFields \ F : l[f] = k[f]

(* The psns the sink has. *)
Received(k, n) == {p \in Below(n) : Has(k, p)}

Bitmap(k, n) ==
  /\ IsSink(k) /\ k.expected \in Nat /\ k.expected <= n
  /\ k.rx \subseteq Below(n) /\ k.expected \notin k.rx /\ k.ooo = Cardinality(k.rx)

AnswerOK(r, n) ==
  /\ r.psn \in Below(n)
  /\ r.kind = "ack" => r.cum_ack \in Nat /\ r.recvd_bytes \in Int

Tidy(k, n) ==
  /\ Bitmap(k, n)
  /\ k.accepted \in Nat /\ k.recvd_bytes \in Int /\ k.received_bytes \in Int
  /\ k.ack_request => k.ooo > 0
  /\ \A r \in k.replies : AnswerOK(r, n)

(* A new psn joins those the sink has, and the count of the others is exact. *)
LEMMA AcceptCounts ==
  ASSUME NEW n \in Nat, NEW k, Bitmap(k, n), NEW psn \in Below(n), ~Has(k, psn)
  PROVE  LET a == Accept(k, psn)
         IN /\ Bitmap(a, n) /\ SinkFrame(k, a, {"expected", "rx", "ooo"})
            /\ Received(a, n) = Received(k, n) \cup {psn}
            /\ a.ooo \in Nat /\ (psn # k.expected => a.ooo > 0)
<1> DEFINE next == NextMissing(k.rx, psn)
           closed == (psn + 1) .. (next - 1)
           c == [k EXCEPT !.expected = next, !.rx = @ \ closed,
                          !.ooo = @ - Cardinality(closed)]
           o == [k EXCEPT !.rx = @ \cup {psn}, !.ooo = @ + 1]
           a == Accept(k, psn)
<1>1. IsSink(k) /\ k.expected \in Nat /\ k.expected <= n /\ k.rx \subseteq Below(n)
      /\ psn \in Nat /\ k.expected \notin k.rx /\ k.ooo = Cardinality(k.rx)
  BY DEF Bitmap, Below
<1>2. a = IF psn = k.expected THEN c ELSE o
  BY DEF Accept
<1>3. /\ next \in Nat /\ next > psn /\ next \notin k.rx
      /\ \A q \in (psn + 1) .. (next - 1) : q \in k.rx
  BY <1>1, NextMissingRun
<1>4. IsFiniteSet(k.rx) /\ Cardinality(k.rx) \in Nat
  BY <1>1, BelowIsFinite
<1>5. closed \subseteq k.rx
  BY <1>3
<1>6. ~(psn < k.expected) /\ psn \notin k.rx
  BY DEF Has
<1> HIDE DEF next, a
<1>7. CASE psn = k.expected
  <2>1. next <= n
    <3>1. next - 1 \in closed \/ next - 1 = psn
      BY <1>1, <1>3
    <3>2. next - 1 \in Below(n)
      BY <1>1, <1>5, <3>1
    <3> QED BY <1>3, <3>2 DEF Below
  <2> DEFINE rest == k.rx \ closed
  <2>2. Cardinality(k.rx) - Cardinality(closed) = Cardinality(rest) /\ Cardinality(rest) \in Nat
    <3>1. k.rx = rest \cup closed /\ rest \cap closed = {} /\ rest \subseteq k.rx
      BY <1>5
    <3> HIDE DEF closed, rest
    <3>2. IsFiniteSet(rest) /\ IsFiniteSet(closed)
      BY <1>4, <1>5, <3>1, FS_Subset
    <3>3. Cardinality(rest \cup closed) = Cardinality(rest) + Cardinality(closed)
          /\ Cardinality(rest) \in Nat /\ Cardinality(closed) \in Nat
      BY <3>1, <3>2, SizesAdd
    <3> QED BY <3>1, <3>3
  <2> HIDE DEF closed
  <2>3. IsSink(c)
    BY <1>1 DEF IsSink
  <2>4. /\ c.expected = next /\ c.rx = rest /\ c.ooo = k.ooo - Cardinality(closed)
        /\ SinkFrame(k, c, {"expected", "rx", "ooo"})
    BY <1>1, <2>3 DEF IsSink, SinkFields, SinkFrame
  <2> HIDE DEF c
  <2>5. Bitmap(c, n)
    BY <1>1, <1>3, <2>1, <2>2, <2>3, <2>4 DEF Bitmap
  <2>6. Received(c, n) = Received(k, n) \cup {psn}
    <3> SUFFICES ASSUME NEW p \in Below(n)
                 PROVE  Has(c, p) <=> (Has(k, p) \/ p = psn)
      BY DEF Received
    <3>1. p \in Nat
      BY DEF Below
    <3>2. p < next <=> p <= psn \/ p \in closed
      BY <1>1, <1>3, <3>1 DEF closed
    <3> QED BY <1>1, <1>5, <1>7, <2>4, <3>1, <3>2 DEF Has, closed
  <2>7. c.ooo \in Nat
    BY <1>1, <2>2, <2>4
  <2> QED BY <1>2, <1>7, <2>4, <2>5, <2>6, <2>7 DEF a
<1>8. CASE psn # k.expected
  <2>1. IsSink(o)
    BY <1>1 DEF IsSink
  <2>2. /\ o.expected = k.expected /\ o.rx = k.rx \cup {psn} /\ o.ooo = k.ooo + 1
        /\ SinkFrame(k, o, {"expected", "rx", "ooo"})
    BY <1>1, <2>1 DEF IsSink, SinkFields, SinkFrame
  <2> HIDE DEF o
  <2>3. Cardinality(k.rx \cup {psn}) = Cardinality(k.rx) + 1
    BY <1>4, <1>6, FS_AddElement
  <2>4. Bitmap(o, n)
    BY <1>1, <1>8, <2>1, <2>2, <2>3 DEF Bitmap
  <2>5. Received(o, n) = Received(k, n) \cup {psn}
    BY <2>2 DEF Received, Has
  <2>6. o.ooo \in Nat /\ o.ooo > 0
    BY <1>1, <1>4, <2>2
  <2> QED BY <1>2, <1>8, <2>2, <2>4, <2>5, <2>6 DEF a
<1> QED BY <1>7, <1>8

(* A change of the other fields *)
LEMMA TidySame ==
  ASSUME NEW n \in Nat, NEW k, Tidy(k, n), NEW l, NEW r, AnswerOK(r, n), IsSink(l),
         l.expected = k.expected, l.rx = k.rx, l.ooo = k.ooo,
         l.accepted \in Nat, l.recvd_bytes = k.recvd_bytes,
         l.received_bytes = k.received_bytes, l.ack_request = k.ack_request,
         l.replies = k.replies \cup {r}
  PROVE  Tidy(l, n) /\ Received(l, n) = Received(k, n)
<1>1. Bitmap(l, n)
  BY DEF Tidy, Bitmap
<1>2. Received(l, n) = Received(k, n)
  BY DEF Received, Has
<1> QED BY <1>1, <1>2 DEF Tidy

LEMMA SackOK ==
  ASSUME NEW n, NEW k, Tidy(k, n), NEW ref, NEW m, m.psn \in Below(n)
  PROVE  AnswerOK(Sack(k, ref, m), n)
BY DEF AnswerOK, Sack, Tidy, Bitmap

LEMMA NackOK ==
  ASSUME NEW n, NEW m, m.psn \in Below(n)
  PROVE  AnswerOK(Nack(m), n)
BY DEF AnswerOK, Nack

(* A reply, and the count of accepted bytes, leave the rest alone. *)
LEMMA ReplyTidy ==
  ASSUME NEW n \in Nat, NEW k, Tidy(k, n), NEW r, AnswerOK(r, n)
  PROVE  LET l == Reply(k, r)
         IN /\ Tidy(l, n) /\ Received(l, n) = Received(k, n)
            /\ l.received_bytes = k.received_bytes
<1> DEFINE l == Reply(k, r)
<1>1. IsSink(k) /\ k.accepted \in Nat
  BY DEF Tidy, Bitmap
<1>2. IsSink(l)
  BY <1>1 DEF IsSink, Reply
<1>3. /\ l.expected = k.expected /\ l.rx = k.rx /\ l.ooo = k.ooo
      /\ l.accepted = k.accepted /\ l.recvd_bytes = k.recvd_bytes
      /\ l.received_bytes = k.received_bytes /\ l.ack_request = k.ack_request
      /\ l.replies = k.replies \cup {r}
  BY <1>1, <1>2 DEF IsSink, SinkFields, Reply
<1> HIDE DEF l
<1>4. Tidy(l, n) /\ Received(l, n) = Received(k, n)
  BY <1>1, <1>2, <1>3, TidySame
<1> QED BY <1>3, <1>4 DEF l

LEMMA ResetReplyTidy ==
  ASSUME NEW n \in Nat, NEW k, Tidy(k, n), NEW r, AnswerOK(r, n)
  PROVE  LET l == Reply([k EXCEPT !.accepted = 0], r)
         IN /\ Tidy(l, n) /\ Received(l, n) = Received(k, n)
            /\ l.received_bytes = k.received_bytes
<1> DEFINE z == [k EXCEPT !.accepted = 0]
           l == Reply(z, r)
<1>1. IsSink(k)
  BY DEF Tidy, Bitmap
<1>2. IsSink(z)
  BY <1>1 DEF IsSink
<1>3. /\ z.expected = k.expected /\ z.rx = k.rx /\ z.ooo = k.ooo
      /\ z.accepted = 0 /\ z.recvd_bytes = k.recvd_bytes
      /\ z.received_bytes = k.received_bytes /\ z.ack_request = k.ack_request
      /\ z.replies = k.replies
  BY <1>1, <1>2 DEF IsSink, SinkFields
<1> HIDE DEF z
<1>4. Tidy(z, n)
  BY <1>2, <1>3 DEF Tidy, Bitmap
<1>5. Received(z, n) = Received(k, n)
  BY <1>3 DEF Received, Has
<1>6. /\ Tidy(l, n) /\ Received(l, n) = Received(z, n)
      /\ l.received_bytes = z.received_bytes
  BY <1>4, ReplyTidy
<1> HIDE DEF l
<1>7. Tidy(l, n) /\ Received(l, n) = Received(k, n) /\ l.received_bytes = k.received_bytes
  BY <1>3, <1>5, <1>6
<1> QED BY <1>7 DEF l, z

(* What the sink counts when a packet of "payload" bytes arrives. *)
Counts(k, l, n, psn, payload) ==
  /\ Tidy(l, n)
  /\ IF Has(k, psn) THEN /\ Received(l, n) = Received(k, n)
                         /\ l.received_bytes = k.received_bytes
     ELSE /\ Received(l, n) = Received(k, n) \cup {psn}
          /\ l.received_bytes = k.received_bytes + payload

LEMMA ProcessDataCounts ==
  ASSUME NEW n \in Nat, NEW k, Tidy(k, n), NEW m, m.psn \in Below(n),
         m.size \in Nat, NEW ecn
  PROVE  Counts(k, ProcessData(k, m, ecn), n, m.psn, m.size - AckSize)
<1> DEFINE accepted == k.accepted + m.size
           request == k.ack_request \/ m.ar
           e == [k EXCEPT !.received_bytes = @ + m.size - AckSize,
                          !.recvd_bytes = @ + m.size]
           a == Accept(e, m.psn)
           drained == m.psn = k.expected /\ a.ooo = 0 /\ request
           b == [a EXCEPT !.ack_request = request /\ ~drained]
           z == [b EXCEPT !.accepted = accepted]
           force_ack == k.received_bytes = 0 \/ m.ar \/ drained
           ref1 == IF ecn THEN m.psn ELSE SackBitmapBase(k, m.psn)
           ref2 == IF ecn \/ m.ar THEN m.psn ELSE SackBitmapBase(b, m.psn)
           l1 == Reply([k EXCEPT !.accepted = 0], Sack(k, ref1, m))
           l2 == Reply([b EXCEPT !.accepted = 0], Sack(b, ref2, m))
<1>1. ProcessData(k, m, ecn) =
        IF Has(k, m.psn) THEN l1
        ELSE IF ecn \/ accepted >= AckThreshold \/ force_ack THEN l2 ELSE z
  BY DEF ProcessData
<1>2. /\ IsSink(k) /\ k.accepted \in Nat /\ k.received_bytes \in Int
      /\ k.recvd_bytes \in Int /\ AckSize \in Nat
  BY ParametersAreNat DEF Tidy, Bitmap
<1>3. CASE Has(k, m.psn)
  <2>1. AnswerOK(Sack(k, ref1, m), n)
    BY SackOK
  <2> HIDE DEF ref1
  <2>2. /\ Tidy(l1, n) /\ Received(l1, n) = Received(k, n)
        /\ l1.received_bytes = k.received_bytes
    BY <2>1, ResetReplyTidy
  <2> QED BY <1>1, <1>3, <2>2 DEF Counts
<1>4. CASE ~Has(k, m.psn)
  <2>1. IsSink(e)
    BY <1>2 DEF IsSink
  <2>2. /\ e.expected = k.expected /\ e.rx = k.rx /\ e.ooo = k.ooo
        /\ e.received_bytes = k.received_bytes + m.size - AckSize
        /\ e.recvd_bytes = k.recvd_bytes + m.size
        /\ e.replies = k.replies /\ e.accepted = k.accepted
        /\ e.ack_request = k.ack_request
    BY <1>2, <2>1 DEF IsSink, SinkFields
  <2> HIDE DEF e, accepted, request
  <2>3. Bitmap(e, n) /\ Received(e, n) = Received(k, n) /\ ~Has(e, m.psn)
    BY <1>4, <2>1, <2>2 DEF Tidy, Bitmap, Received, Has
  <2>4. /\ Bitmap(a, n) /\ SinkFrame(e, a, {"expected", "rx", "ooo"})
        /\ Received(a, n) = Received(e, n) \cup {m.psn}
        /\ a.ooo \in Nat /\ (m.psn # e.expected => a.ooo > 0)
    BY <2>3, AcceptCounts
  <2> HIDE DEF a
  <2>5. request /\ ~drained => a.ooo > 0
    BY <2>2, <2>4
  <2> DEFINE keep == request /\ ~drained
  <2> HIDE DEF drained
  <2>6. IsSink(a)
    BY <2>4 DEF SinkFrame
  <2>7. IsSink(b)
    BY <2>6 DEF IsSink
  <2>8. /\ b.expected = a.expected /\ b.rx = a.rx /\ b.ooo = a.ooo
        /\ b.received_bytes = a.received_bytes /\ b.recvd_bytes = a.recvd_bytes
        /\ b.replies = a.replies /\ b.accepted = a.accepted
        /\ b.ack_request = keep
    BY <2>6, <2>7 DEF IsSink, SinkFields
  <2>9. b.ack_request => b.ooo > 0
    BY <2>5, <2>8
  <2> HIDE DEF b, keep
  <2>10. /\ a.received_bytes = e.received_bytes /\ a.recvd_bytes = e.recvd_bytes
         /\ a.replies = e.replies /\ a.accepted = e.accepted
    BY <2>4 DEF SinkFrame, SinkFields
  <2>11. Bitmap(b, n) /\ Received(b, n) = Received(k, n) \cup {m.psn}
    BY <2>3, <2>4, <2>7, <2>8 DEF Bitmap, Received, Has
  <2>12. b.received_bytes = k.received_bytes + (m.size - AckSize)
         /\ b.recvd_bytes = k.recvd_bytes + m.size
         /\ b.accepted = k.accepted /\ b.replies = k.replies
    BY <1>2, <2>2, <2>8, <2>10
  <2>13. Tidy(b, n)
    BY <1>2, <2>9, <2>11, <2>12 DEF Tidy
  <2>14. AnswerOK(Sack(b, ref2, m), n)
    BY <2>13, SackOK
  <2> HIDE DEF ref2
  <2>15. /\ Tidy(l2, n) /\ Received(l2, n) = Received(b, n)
         /\ l2.received_bytes = b.received_bytes
    BY <2>13, <2>14, ResetReplyTidy
  <2>16. /\ Tidy(z, n) /\ Received(z, n) = Received(b, n)
         /\ z.received_bytes = b.received_bytes
    <3>1. IsSink(z)
      BY <2>7 DEF IsSink
    <3>2. /\ z.expected = b.expected /\ z.rx = b.rx /\ z.ooo = b.ooo
          /\ z.received_bytes = b.received_bytes /\ z.recvd_bytes = b.recvd_bytes
          /\ z.replies = b.replies /\ z.accepted = accepted
          /\ z.ack_request = b.ack_request
      BY <2>7, <3>1 DEF IsSink, SinkFields
    <3> HIDE DEF z
    <3>3. accepted \in Nat
      BY <1>2 DEF accepted
    <3>4. Tidy(z, n)
      BY <2>13, <3>1, <3>2, <3>3 DEF Tidy, Bitmap
    <3> QED BY <3>2, <3>4 DEF Received, Has
  <2> HIDE DEF l1, l2, z, force_ack
  <2> QED BY <1>1, <1>4, <2>11, <2>12, <2>15, <2>16 DEF Counts
<1> QED BY <1>3, <1>4

LEMMA ProcessTrimmedCounts ==
  ASSUME NEW n \in Nat, NEW k, Tidy(k, n), NEW m, m.psn \in Below(n)
  PROVE  LET l == ProcessTrimmed(k, m)
         IN /\ Tidy(l, n) /\ Received(l, n) = Received(k, n)
            /\ l.received_bytes = k.received_bytes
BY SackOK, NackOK, ReplyTidy DEF ProcessTrimmed

LEMMA ProcessRtsCounts ==
  ASSUME NEW n \in Nat, NEW k, Tidy(k, n), NEW m, m.psn \in Below(n)
  PROVE  Counts(k, ProcessRts(k, m), n, m.psn, 0)
<1> DEFINE a == Accept(k, m.psn)
           drained == m.psn = k.expected /\ a.ooo = 0
           b == [a EXCEPT !.ack_request = @ /\ ~drained]
           l1 == Reply([k EXCEPT !.accepted = 0],
                       Sack(k, SackBitmapBase(k, m.psn), m))
           l2 == Reply(b, Sack(b, m.psn, m))
<1>1. ProcessRts(k, m) = IF Has(k, m.psn) THEN l1 ELSE l2
  BY DEF ProcessRts
<1>2. k.received_bytes \in Int
  BY DEF Tidy
<1>3. CASE Has(k, m.psn)
  <2>1. AnswerOK(Sack(k, SackBitmapBase(k, m.psn), m), n)
    BY SackOK
  <2>2. /\ Tidy(l1, n) /\ Received(l1, n) = Received(k, n)
        /\ l1.received_bytes = k.received_bytes
    BY <2>1, ResetReplyTidy
  <2> QED BY <1>1, <1>3, <2>2 DEF Counts
<1>4. CASE ~Has(k, m.psn)
  <2>1. /\ Bitmap(a, n) /\ SinkFrame(k, a, {"expected", "rx", "ooo"})
        /\ Received(a, n) = Received(k, n) \cup {m.psn}
        /\ a.ooo \in Nat /\ (m.psn # k.expected => a.ooo > 0)
    BY <1>4, AcceptCounts DEF Tidy
  <2> HIDE DEF a
  <2>2. /\ a.received_bytes = k.received_bytes /\ a.recvd_bytes = k.recvd_bytes
        /\ a.replies = k.replies /\ a.accepted = k.accepted
        /\ a.ack_request = k.ack_request /\ IsSink(a)
    BY <2>1 DEF SinkFrame, SinkFields
  <2>3. k.ack_request /\ ~drained => a.ooo > 0
    BY <2>1
  <2> DEFINE keep == a.ack_request /\ ~drained
  <2> HIDE DEF drained
  <2>4. IsSink(b)
    BY <2>2 DEF IsSink
  <2>5. /\ b.expected = a.expected /\ b.rx = a.rx /\ b.ooo = a.ooo
        /\ b.received_bytes = a.received_bytes /\ b.recvd_bytes = a.recvd_bytes
        /\ b.replies = a.replies /\ b.accepted = a.accepted
        /\ b.ack_request = keep
    BY <2>2, <2>4 DEF IsSink, SinkFields
  <2>6. b.ack_request => b.ooo > 0
    BY <2>2, <2>3, <2>5
  <2> HIDE DEF b, keep
  <2>7. Bitmap(b, n) /\ Received(b, n) = Received(k, n) \cup {m.psn}
    BY <2>1, <2>4, <2>5 DEF Bitmap, Received, Has
  <2>8. Tidy(b, n) /\ b.received_bytes = k.received_bytes
    BY <2>2, <2>5, <2>6, <2>7 DEF Tidy
  <2>9. AnswerOK(Sack(b, m.psn, m), n)
    BY <2>8, SackOK
  <2>10. /\ Tidy(l2, n) /\ Received(l2, n) = Received(b, n)
         /\ l2.received_bytes = b.received_bytes
    BY <2>8, <2>9, ReplyTidy
  <2> HIDE DEF l1, l2
  <2> QED BY <1>1, <1>2, <1>4, <2>7, <2>8, <2>10 DEF Counts
<1> QED BY <1>3, <1>4

-----------------------------------------------------------------------------
(* The connection, counted.  "fresh": psns of data the sink has. *)

Fresh(k, s) == Received(k, s.highest_sent) \ s.rts

CInv ==
  /\ Body(src) /\ Timer(src) /\ Queued(src)
  /\ src.started => src.done \/ Awake(src)
  /\ ~src.started => src.highest_sent = 0 /\ src.requests = 0
  /\ Tidy(sink, src.highest_sent)
  /\ \A m \in fwd : PacketOK(m, src)
  /\ \A m \in back : AnswerOK(m, src.highest_sent)
  /\ sink.received_bytes = (Mtu - Hdr) * Cardinality(Fresh(sink, src))
  /\ src.done => Cardinality(Fresh(sink, src)) = Packets

LEMMA CardinalityOfEmpty == Cardinality({}) = 0 /\ IsFiniteSet({})
BY FS_EmptySet

LEMMA InitCInv == Init => CInv
<1> SUFFICES ASSUME Init PROVE CInv
  OBVIOUS
<1>1. /\ src.started = FALSE /\ src.highest_sent = 0 /\ src.backlog = Packets
      /\ src.tx = {} /\ src.send_times = <<>> /\ src.rto = NoPsn /\ src.rtx = {}
      /\ src.rts = {} /\ src.in_flight = 0 /\ src.cwnd = InitCwnd
      /\ src.recvd_bytes = 0 /\ src.blocked = FALSE /\ src.requests = 0
      /\ src.port_free = TRUE /\ src.done = FALSE /\ src.sent = {}
  BY DEF Init, InitSrc
<1>2. SrcOK(src)
  BY InitIInv DEF IInv
<1>3. Below(0) = {}
  BY DEF Below
<1>4. SrcTypes(src)
  <2>1. /\ src.started \in BOOLEAN /\ src.blocked \in BOOLEAN
        /\ src.port_free \in BOOLEAN /\ src.done \in BOOLEAN
    BY <1>1
  <2>2. Cardinality(Below(src.highest_sent) \ src.rts) = 0 /\ Cardinality(src.rts) = 0
    <3>1. Below(src.highest_sent) \ src.rts = {} /\ src.rts = {}
      BY <1>1, <1>3
    <3> QED BY <3>1, CardinalityOfEmpty
  <2>3. InitCwnd \in Nat
    BY UecSrcAssumption
  <2>4. src.rts \subseteq Below(src.highest_sent)
    BY <1>1
  <2> QED BY <1>1, <2>1, <2>2, <2>3, <2>4, ParametersAreNat DEF SrcTypes
<1>5. SendTimes(src)
  BY <1>1 DEF SendTimes, Distinct, RangeOf
<1>6. Charge(0, {}, {}) = 0
  <2>1. (Below(0) \ {}) \ {} = {} /\ {} \cap {} = {}
    BY <1>3
  <2>2. Mtu * 0 = 0 /\ Hdr * 0 = 0
    BY ParametersAreNat
  <2> QED BY <2>1, <2>2, CardinalityOfEmpty DEF Charge
<1>7. Counted(src)
  BY <1>1, <1>6 DEF Counted
<1>8. Body(src) /\ Timer(src) /\ Queued(src)
  BY <1>1, <1>2, <1>4, <1>5, <1>7 DEF Body, Timer, Queued
<1>9. /\ sink.expected = 0 /\ sink.rx = {} /\ sink.ooo = 0 /\ ~sink.ack_request
      /\ sink.accepted = 0 /\ sink.received_bytes = 0 /\ sink.recvd_bytes = 0
      /\ sink.replies = {}
  BY DEF Init, InitSink
<1>10. IsSink(sink)
  BY InitIInv DEF IInv, SinkOK
<1>11. Tidy(sink, 0)
  BY <1>9, <1>10, CardinalityOfEmpty DEF Tidy, Bitmap
<1>12. sink.received_bytes = (Mtu - Hdr) * Cardinality(Fresh(sink, src))
  <2>1. Fresh(sink, src) = {}
    BY <1>1, <1>3 DEF Fresh, Received
  <2>2. (Mtu - Hdr) * 0 = 0
    BY ParametersAreNat
  <2> QED BY <1>9, <2>1, <2>2, CardinalityOfEmpty
<1>13. fwd = {} /\ back = {}
  BY DEF Init
<1> QED BY <1>1, <1>8, <1>11, <1>12, <1>13 DEF CInv

(* The psns of data are as many as the packets sent. *)
LEMMA FreshBound ==
  ASSUME NEW s, Body(s), NEW k
  PROVE  /\ IsFiniteSet(Fresh(k, s)) /\ Cardinality(Fresh(k, s)) \in Nat
         /\ Cardinality(Fresh(k, s)) <= Packets
<1> DEFINE D == Below(s.highest_sent) \ s.rts
           F == Fresh(k, s)
<1>1. F \subseteq D
  BY DEF Fresh, Received
<1>2. D \subseteq Below(s.highest_sent) /\ s.highest_sent \in Nat
  BY DEF Body, SrcOK
<1>3. Cardinality(D) = Packets - s.backlog /\ s.backlog \in Nat
  BY DEF Body, SrcTypes
<1> HIDE DEF D, F
<1>4. IsFiniteSet(D) /\ Cardinality(D) \in Nat
  BY <1>2, BelowIsFinite
<1>5. IsFiniteSet(F) /\ Cardinality(F) <= Cardinality(D)
  BY <1>1, <1>4, FS_Subset
<1>6. Cardinality(F) \in Nat
  BY <1>5, FS_CardinalityType
<1>7. Cardinality(F) <= Packets
  BY <1>3, <1>4, <1>5, <1>6, ParametersAreNat
<1> QED BY <1>5, <1>6, <1>7 DEF F

(* What the source sends, the sink does not have yet. *)
LEMMA FreshStays ==
  ASSUME NEW s, NEW t, s.highest_sent \in Nat, t.highest_sent \in Nat, Grows(s, t),
         NEW k, Tidy(k, s.highest_sent)
  PROVE  Tidy(k, t.highest_sent) /\ Fresh(k, t) = Fresh(k, s)
<1>1. \A p \in Nat : Has(k, p) => p < s.highest_sent
  BY DEF Tidy, Bitmap, Has, Below
<1>2. Fresh(k, t) = Fresh(k, s)
  BY <1>1 DEF Grows, Fresh, Received, Below
<1>3. Bitmap(k, t.highest_sent)
  BY DEF Tidy, Bitmap, Grows, Below
<1>4. \A r \in k.replies : AnswerOK(r, t.highest_sent)
  BY DEF Tidy, AnswerOK, Grows, Below
<1> QED BY <1>2, <1>3, <1>4 DEF Tidy

(* What a step does to the two ends, seen as a flow. *)
Progress ==
  /\ src.done => src'.done
  /\ \/ sink'.received_bytes = sink.received_bytes
     \/ /\ src' = src
        /\ Cardinality(Fresh(sink', src')) \in
             {Cardinality(Fresh(sink, src)), Cardinality(Fresh(sink, src)) + 1}

LEMMA SrcStepCounts ==
  ASSUME IInv, CInv, NEW s, NEW d, SrcBecomes(s, d), Body(s), Timer(s), Queued(s),
         Grows(src, s), s.started => s.done \/ Awake(s),
         ~s.started => s.highest_sent = 0 /\ s.requests = 0,
         src.done => s.done, s.done => Cardinality(Fresh(sink, src)) = Packets
  PROVE  CInv' /\ Progress
<1> DEFINE n == src.highest_sent
<1>1. IsSrc(s) /\ src' = [s EXCEPT !.sent = {}]
  BY DEF Body, SrcOK, SrcBecomes
<1>2. IsSrc(src')
  BY <1>1 DEF IsSrc
<1>3. /\ src'.highest_sent = s.highest_sent /\ src'.backlog = s.backlog
      /\ src'.tx = s.tx /\ src'.send_times = s.send_times /\ src'.rto = s.rto
      /\ src'.rtx = s.rtx /\ src'.rts = s.rts /\ src'.in_flight = s.in_flight
      /\ src'.recvd_bytes = s.recvd_bytes /\ src'.sent = {}
  BY <1>1, <1>2 DEF IsSrc, SrcFields
<1>4. /\ src'.started = s.started /\ src'.blocked = s.blocked
      /\ src'.requests = s.requests /\ src'.port_free = s.port_free
      /\ src'.done = s.done /\ src'.cwnd = s.cwnd
  BY <1>1, <1>2 DEF IsSrc, SrcFields
<1>5. fwd' = fwd \cup s.sent /\ back' = back \ d /\ sink' = sink
  BY DEF SrcBecomes
<1>6. s.highest_sent \in Nat /\ n \in Nat
  BY DEF Body, SrcOK, CInv
<1> DEFINE t == src'
<1> HIDE DEF t
<1>7. SrcOK(src')
  BY <1>2, <1>3 DEF Body, SrcOK
<1>8. SrcTypes(src')
  BY <1>3, <1>4 DEF Body, SrcTypes
<1>9. SendTimes(src') /\ Counted(src') /\ Timer(src')
  BY <1>3 DEF Body, SendTimes, Counted, Timer
<1>10. Queued(src')
  BY <1>4 DEF Queued
<1>11. CanSend(src') <=> CanSend(s)
  BY <1>3, <1>4 DEF CanSend, NextSize, Size
<1>12. src'.started => src'.done \/ Awake(src')
  BY <1>4, <1>11 DEF Awake
<1>13. Grows(src, src') /\ Grows(s, src')
  BY <1>3, <1>6 DEF Grows
<1>14. \A m \in fwd' : PacketOK(m, src')
  <2>1. \A m \in fwd : PacketOK(m, src')
    BY <1>3, <1>6, <1>13, PacketStays DEF CInv
  <2>2. \A m \in s.sent : PacketOK(m, src')
    BY <1>3, <1>6, <1>13, PacketStays DEF Body
  <2> QED BY <1>5, <2>1, <2>2
<1>15. Tidy(sink, src'.highest_sent) /\ Fresh(sink, src') = Fresh(sink, src)
  <2>1. Tidy(sink, src.highest_sent)
    BY DEF CInv
  <2>2. src'.highest_sent \in Nat
    BY <1>3, <1>6
  <2> QED BY <1>6, <1>13, <2>1, <2>2, FreshStays
<1>16. \A m \in back' : AnswerOK(m, src'.highest_sent)
  <2>1. \A p \in Below(src.highest_sent) : p \in Below(src'.highest_sent)
    BY <1>3, <1>6, <1>13 DEF Grows, Below
  <2>2. \A m \in back' : AnswerOK(m, src.highest_sent)
    BY <1>5 DEF CInv
  <2> QED BY <2>1, <2>2 DEF AnswerOK
<1>17. Body(src')
  BY <1>3, <1>7, <1>8, <1>9 DEF Body
<1>18. CInv'
  BY <1>3, <1>4, <1>5, <1>9, <1>10, <1>12, <1>14, <1>15, <1>16, <1>17 DEF CInv
<1>19. Progress
  BY <1>4, <1>5 DEF Progress
<1> QED BY <1>18, <1>19

(* The same for a handler that leaves the end of the flow alone. *)
LEMMA SrcStepOutcome ==
  ASSUME IInv, CInv, NEW s, NEW d, SrcBecomes(s, d), Outcome(src, s), Timer(s),
         s.done = src.done, src.started
  PROVE  CInv' /\ Progress
<1>1. Body(s) /\ Grows(src, s) /\ Queued(s) /\ (s.done \/ Awake(s)) /\ s.started
  BY DEF Outcome, Moves
<1>2. s.done => Cardinality(Fresh(sink, src)) = Packets
  BY DEF CInv
<1> QED BY <1>1, <1>2, SrcStepCounts

(* A psn the sink did not have adds the payload of its packet. *)
LEMMA FreshCounts ==
  ASSUME CInv, NEW m, PacketOK(m, src), NEW k,
         Counts(sink, k, src.highest_sent, m.psn, m.size - AckSize)
  PROVE  /\ k.received_bytes = (Mtu - Hdr) * Cardinality(Fresh(k, src))
         /\ Cardinality(Fresh(k, src)) \in
              {Cardinality(Fresh(sink, src)), Cardinality(Fresh(sink, src)) + 1}
<1> DEFINE F == Fresh(sink, src)
           G == Fresh(k, src)
           n == src.highest_sent
           psn == m.psn
<1>1. /\ sink.received_bytes = (Mtu - Hdr) * Cardinality(F)
      /\ IsFiniteSet(F) /\ Cardinality(F) \in Nat
  BY FreshBound DEF CInv
<1>2. psn \in Below(n) /\ m.size = (IF psn \in src.rts THEN Hdr ELSE Mtu)
  BY DEF PacketOK, Size
<1>3. CASE Has(sink, psn)
  <2>1. G = F /\ k.received_bytes = sink.received_bytes
    BY <1>3 DEF Counts, Fresh
  <2> QED BY <1>1, <2>1
<1>4. CASE ~Has(sink, psn)
  <2>1. Received(k, n) = Received(sink, n) \cup {psn}
        /\ k.received_bytes = sink.received_bytes + (m.size - AckSize)
    BY <1>4 DEF Counts
  <2>2. psn \notin Received(sink, n)
    BY <1>4 DEF Received
  <2>3. sink.received_bytes \in Int
    BY DEF CInv, Tidy
  <2>4. CASE psn \in src.rts
    <3>1. G = F
      BY <2>1, <2>4 DEF Fresh
    <3>2. m.size - AckSize = 0
      BY <1>2, <2>4, ParametersAreNat
    <3> QED BY <1>1, <2>1, <2>3, <3>1, <3>2
  <2>5. CASE psn \notin src.rts
    <3>1. G = F \cup {psn} /\ psn \notin F
      BY <2>1, <2>2, <2>5 DEF Fresh
    <3> HIDE DEF F, G
    <3>2. Cardinality(G) = Cardinality(F) + 1
      BY <1>1, <3>1, FS_AddElement
    <3>3. m.size - AckSize = Mtu - Hdr /\ Mtu - Hdr \in Nat
      BY <1>2, <2>5, ParametersAreNat
    <3>4. (Mtu - Hdr) * (Cardinality(F) + 1) = (Mtu - Hdr) * Cardinality(F) + (Mtu - Hdr)
      BY <1>1, <3>3
    <3>5. k.received_bytes = (Mtu - Hdr) * Cardinality(G)
      BY <1>1, <2>1, <2>3, <3>2, <3>3, <3>4
    <3> QED BY <3>2, <3>5 DEF F, G
  <2> QED BY <2>4, <2>5
<1> QED BY <1>3, <1>4

LEMMA SinkStepCounts ==
  ASSUME IInv, CInv, NEW k, NEW d, SinkBecomes(k, d), Tidy(k, src.highest_sent),
         k.received_bytes = (Mtu - Hdr) * Cardinality(Fresh(k, src)),
         Cardinality(Fresh(k, src)) \in
           {Cardinality(Fresh(sink, src)), Cardinality(Fresh(sink, src)) + 1}
  PROVE  CInv' /\ Progress
<1> DEFINE n == src.highest_sent
<1>1. IsSink(k) /\ sink' = [k EXCEPT !.replies = {}]
  BY DEF Tidy, Bitmap, SinkBecomes
<1>2. IsSink(sink')
  BY <1>1 DEF IsSink
<1>3. /\ sink'.expected = k.expected /\ sink'.rx = k.rx /\ sink'.ooo = k.ooo
      /\ sink'.ack_request = k.ack_request /\ sink'.accepted = k.accepted
      /\ sink'.received_bytes = k.received_bytes
      /\ sink'.recvd_bytes = k.recvd_bytes /\ sink'.replies = {}
  BY <1>1, <1>2 DEF IsSink, SinkFields
<1>4. src' = src /\ fwd' = fwd \ d /\ back' = back \cup k.replies
  BY DEF SinkBecomes
<1>5. Tidy(sink', n)
  BY <1>2, <1>3 DEF Tidy, Bitmap
<1>6. Fresh(sink', src) = Fresh(k, src)
  BY <1>3 DEF Fresh, Received, Has
<1>7. \A m \in back' : AnswerOK(m, n)
  BY <1>4 DEF CInv, Tidy
<1>8. \A m \in fwd' : PacketOK(m, src)
  BY <1>4 DEF CInv
<1> DEFINE a == Cardinality(Fresh(sink, src))
           b == Cardinality(Fresh(k, src))
<1>9. src.done => b = Packets
  <2>1. Body(src) /\ (src.done => a = Packets)
    BY DEF CInv
  <2>2. a \in Nat /\ b \in Nat /\ b <= Packets /\ b \in {a, a + 1}
    BY <2>1, FreshBound
  <2> HIDE DEF a, b
  <2> QED BY <2>1, <2>2, ParametersAreNat
<1>10. CInv'
  <2>1. /\ Body(src) /\ Timer(src) /\ Queued(src)
        /\ src.started => src.done \/ Awake(src)
        /\ ~src.started => src.highest_sent = 0 /\ src.requests = 0
    BY DEF CInv
  <2> QED BY <1>3, <1>4, <1>5, <1>6, <1>7, <1>8, <1>9, <2>1 DEF CInv
<1>11. Progress
  BY <1>4, <1>6 DEF Progress
<1> QED BY <1>10, <1>11

(* The last ACK: what it acknowledges cumulatively, less the RTSs of the     *)
(* flow, is all of the flow.                                                 *)
LEMMA LastAck ==
  ASSUME IInv, CInv, NEW m, m \in back, m.kind = "ack", IsFinished(src, m.cum_ack)
  PROVE  Cardinality(Fresh(sink, src)) = Packets
<1> DEFINE n == src.highest_sent
           c == m.cum_ack
           A == Below(c) \ src.rts
           B == Below(c) \cap src.rts
           F == Fresh(sink, src)
<1>1. CASE src.done
  BY <1>1 DEF CInv
<1>2. CASE ~src.done
  <2>1. c - Cardinality(src.rts) >= Packets
    BY <1>2 DEF IsFinished
  <2>2. c \in Nat
    BY DEF CInv, AnswerOK
  <2>3. /\ n \in Nat /\ src.rts \subseteq Below(n) /\ Body(src)
    BY DEF CInv, Body, SrcOK, SrcTypes
  <2>4. \A p \in Nat : p < c => Has(sink, p)
    BY DEF IInv, AckHolds
  <2>5. \A p \in Nat : Has(sink, p) => p < n
    <3>1. sink.expected \in Nat /\ sink.expected <= n /\ sink.rx \subseteq Below(n)
      BY DEF CInv, Tidy, Bitmap
    <3> QED BY <2>3, <3>1 DEF Has, Below
  <2>6. A \subseteq F
    BY <2>2, <2>3, <2>4, <2>5 DEF Fresh, Received, Below
  <2>7. A \subseteq Below(c) /\ B \subseteq Below(c) /\ Below(c) = A \cup B
        /\ A \cap B = {} /\ B \subseteq src.rts
    OBVIOUS
  <2> HIDE DEF A, B, F
  <2>8. IsFiniteSet(A) /\ IsFiniteSet(B) /\ Cardinality(Below(c)) = c
    BY <2>2, <2>7, BelowIsFinite
  <2>9. c = Cardinality(A) + Cardinality(B) /\ Cardinality(A) \in Nat /\ Cardinality(B) \in Nat
    BY <2>7, <2>8, SizesAdd
  <2>10. IsFiniteSet(src.rts) /\ Cardinality(src.rts) \in Nat
    BY <2>3, BelowIsFinite
  <2>11. Cardinality(B) <= Cardinality(src.rts)
    BY <2>7, <2>10, FS_Subset
  <2>12. IsFiniteSet(F) /\ Cardinality(F) \in Nat /\ Cardinality(F) <= Packets
    BY <2>3, FreshBound DEF F
  <2>13. Cardinality(A) <= Cardinality(F)
    BY <2>6, <2>12, FS_Subset
  <2>14. Cardinality(F) = Packets
    BY <2>1, <2>2, <2>9, <2>10, <2>11, <2>12, <2>13, ParametersAreNat
  <2> QED BY <2>14 DEF F
<1>3. src.done \in BOOLEAN
  BY DEF CInv, Body, SrcTypes
<1> QED BY <1>1, <1>2

-----------------------------------------------------------------------------
(* Every step of the connection. *)

LEMMA CInvSrc ==
  ASSUME CInv
  PROVE  /\ Body(src) /\ Timer(src) /\ Queued(src) /\ src.highest_sent \in Nat
         /\ src.requests \in Nat /\ src.started \in BOOLEAN
         /\ src.port_free \in BOOLEAN /\ src.done \in BOOLEAN
         /\ src.started => src.done \/ Awake(src)
         /\ ~src.started => src.highest_sent = 0 /\ src.requests = 0
         /\ src.done => Cardinality(Fresh(sink, src)) = Packets
BY DEF CInv, Body, SrcOK, SrcTypes

(* Before the flow starts nothing is sent. *)
LEMMA Unstarted ==
  ASSUME CInv, ~src.started
  PROVE  src.rtx = {} /\ src.tx = {} /\ src.backlog > 0 /\ src.requests = 0
         /\ Below(src.highest_sent) = {}
<1>1. src.highest_sent = 0 /\ src.requests = 0 /\ Body(src)
  BY CInvSrc
<1>2. Below(src.highest_sent) = {}
  BY <1>1 DEF Below
<1>3. src.tx = {} /\ src.rtx = {}
  BY <1>1, <1>2 DEF Body, SrcOK
<1>4. Cardinality(Below(src.highest_sent) \ src.rts) = Packets - src.backlog
      /\ src.backlog \in Nat
  BY <1>1 DEF Body, SrcTypes
<1>5. Below(src.highest_sent) \ src.rts = {}
  BY <1>2
<1>6. Cardinality(Below(src.highest_sent) \ src.rts) = 0
  BY <1>5, CardinalityOfEmpty
<1>7. src.backlog > 0
  BY <1>4, <1>6, ParametersAreNat
<1> QED BY <1>1, <1>2, <1>3, <1>7

LEMMA StartCounts ==
  ASSUME IInv, CInv, Start
  PROVE  CInv' /\ Progress
<1> DEFINE t == StartFlow(src)
<1>1. ~src.started /\ SrcBecomes(t, {})
  BY DEF Start
<1>2. Body(src) /\ Queued(src) /\ Timer(src) /\ src.requests = 0 /\ src.rtx = {} /\ src.backlog > 0
  BY <1>1, CInvSrc, Unstarted
<1>3. /\ Moves(src, t) /\ Queued(t) /\ Awake(t) /\ t.started = TRUE /\ t.done = src.done
  BY <1>2, StartFlowMoves
<1> HIDE DEF t
<1>4. Body(t) /\ Timer(t) /\ Grows(src, t)
  BY <1>2, <1>3 DEF Moves
<1>5. t.done => Cardinality(Fresh(sink, src)) = Packets
  BY <1>3, CInvSrc
<1> QED BY <1>1, <1>3, <1>4, <1>5, SrcStepCounts

LEMMA PortCounts ==
  ASSUME IInv, CInv, PortIsFreed \/ PortIsTaken
  PROVE  CInv' /\ Progress
<1>1. ASSUME NEW v \in BOOLEAN, v = TRUE => src.requests = 0,
             SrcBecomes([src EXCEPT !.port_free = v], {})
      PROVE  CInv' /\ Progress
  <2> DEFINE t == [src EXCEPT !.port_free = v]
  <2>1. Body(src) /\ Timer(src) /\ Queued(src)
    BY CInvSrc
  <2>2. /\ Moves(src, t) /\ t.blocked = src.blocked /\ t.requests = src.requests
        /\ t.port_free = v /\ t.started = src.started /\ t.done = src.done
        /\ (CanSend(t) <=> CanSend(src))
    BY <2>1, FramePort
  <2>3. t.highest_sent = src.highest_sent
    BY <2>1 DEF Body, SrcOK, IsSrc, SrcFields
  <2>4. SrcBecomes(t, {})
    BY <1>1
  <2> HIDE DEF t
  <2>5. Body(t) /\ Timer(t) /\ Grows(src, t)
    BY <2>1, <2>2 DEF Moves
  <2>6. src.requests \in Nat
    BY CInvSrc
  <2>7. Queued(t)
    BY <1>1, <2>1, <2>2, <2>6 DEF Queued
  <2>8. t.started => t.done \/ Awake(t)
    BY <2>2, CInvSrc DEF Awake
  <2>9. ~t.started => t.highest_sent = 0 /\ t.requests = 0
    BY <2>2, <2>3, CInvSrc
  <2>10. /\ src.done => t.done
         /\ t.done => Cardinality(Fresh(sink, src)) = Packets
    BY <2>2, CInvSrc
  <2> QED BY <2>4, <2>5, <2>7, <2>8, <2>9, <2>10, SrcStepCounts
<1>2. CASE PortIsFreed
  <2>1. CASE src.requests > 0
    <3> DEFINE t == TimeToSend(src)
    <3>1. SrcBecomes(t, {}) /\ ~src.port_free
      BY <1>2, <2>1 DEF PortIsFreed
    <3>2. Body(src) /\ Timer(src) /\ src.started
      BY <2>1, CInvSrc
    <3>3. Outcome(src, t) /\ t.done = src.done
      BY <2>1, <3>1, <3>2, TimeToSendMoves
    <3> HIDE DEF t
    <3>4. Timer(t)
      BY <3>2, <3>3 DEF Outcome, Moves
    <3> QED BY <3>1, <3>2, <3>3, <3>4, SrcStepOutcome
  <2>2. CASE ~(src.requests > 0)
    <3>1. src.requests = 0
      BY <2>2, CInvSrc
    <3>2. SrcBecomes([src EXCEPT !.port_free = TRUE], {})
      BY <1>2, <2>2 DEF PortIsFreed
    <3> QED BY <1>1, <3>1, <3>2
  <2> QED BY <2>1, <2>2
<1>3. CASE PortIsTaken
  <2>1. SrcBecomes([src EXCEPT !.port_free = FALSE], {})
    BY <1>3 DEF PortIsTaken
  <2> QED BY <1>1, <2>1
<1> QED BY <1>2, <1>3

LEMMA AckCounts ==
  ASSUME IInv, CInv, ReceiveAck
  PROVE  CInv' /\ Progress
<1>1. PICK m \in back, w \in Windows :
        m.kind = "ack" /\ SrcBecomes(ProcessAck(src, m, w), {m})
  BY DEF ReceiveAck
<1> DEFINE t == ProcessAck(src, m, w)
<1>2. w \in Nat
  BY UecTransportAssumption
<1>3. Body(src) /\ Queued(src) /\ Timer(src)
  BY CInvSrc
<1>4. AnswerOK(m, src.highest_sent)
  BY DEF CInv
<1>5. m.recvd_bytes \in Int /\ Below(src.highest_sent) # {}
  BY <1>1, <1>4 DEF AnswerOK
<1>6. src.started
  BY <1>5, Unstarted
<1>7. Outcome(src, t) /\ Timer(t) /\ (t.done <=> IsFinished(src, m.cum_ack))
  BY <1>2, <1>3, <1>5, AckMoves
<1> HIDE DEF t
<1>8. Body(t) /\ Grows(src, t) /\ Queued(t) /\ (t.done \/ Awake(t)) /\ t.started
  BY <1>6, <1>7 DEF Outcome, Moves
<1>9. src.done => t.done
  BY <1>7 DEF IsFinished
<1>10. t.done => Cardinality(Fresh(sink, src)) = Packets
  BY <1>1, <1>7, LastAck
<1>11. SrcBecomes(t, {m})
  BY <1>1 DEF t
<1> QED BY <1>7, <1>8, <1>9, <1>10, <1>11, SrcStepCounts

LEMMA NackCounts ==
  ASSUME IInv, CInv, ReceiveNack
  PROVE  CInv' /\ Progress
<1>1. PICK m \in back, w \in Windows :
        m.kind = "nack" /\ SrcBecomes(ProcessNack(src, m, w), {m})
  BY DEF ReceiveNack
<1> DEFINE t == ProcessNack(src, m, w)
<1>2. w \in Nat
  BY UecTransportAssumption
<1>3. Body(src) /\ Queued(src) /\ Timer(src)
  BY CInvSrc
<1>4. AnswerOK(m, src.highest_sent)
  BY DEF CInv
<1>5. src.started
  BY <1>4, Unstarted DEF AnswerOK
<1>6. src.done \/ Awake(src)
  BY <1>5, CInvSrc
<1>7. Outcome(src, t) /\ t.done = src.done
  BY <1>2, <1>3, <1>6, NackMoves
<1> HIDE DEF t
<1>8. Timer(t)
  BY <1>3, <1>7 DEF Outcome, Moves
<1>9. SrcBecomes(t, {m})
  BY <1>1 DEF t
<1> QED BY <1>5, <1>7, <1>8, <1>9, SrcStepOutcome

LEMMA TimeoutCounts ==
  ASSUME IInv, CInv, Timeout
  PROVE  CInv' /\ Progress
<1>1. PICK allowed \in BOOLEAN :
        /\ Cardinality(src.rts) >= MaxRts => ~allowed
        /\ SrcBecomes(RtxTimerExpired(src, allowed), {})
  BY DEF Timeout
<1> DEFINE t == RtxTimerExpired(src, allowed)
<1>2. Head(src.send_times) \in src.tx
  BY DEF Timeout
<1>3. Body(src) /\ Queued(src)
  BY CInvSrc
<1>4. src.started
  BY <1>2, Unstarted
<1>5. Outcome(src, t) /\ Timer(t) /\ t.done = src.done
  BY <1>1, <1>2, <1>3, TimeoutMoves
<1> HIDE DEF t
<1>6. SrcBecomes(t, {})
  BY <1>1 DEF t
<1> QED BY <1>4, <1>5, <1>6, SrcStepOutcome

LEMMA SinkCounts ==
  ASSUME IInv, CInv, ReceiveData \/ ReceiveTrimmed \/ ReceiveRts
  PROVE  CInv' /\ Progress
<1> DEFINE n == src.highest_sent
<1>1. n \in Nat /\ Tidy(sink, n) /\ \A m \in fwd : PacketOK(m, src)
  BY CInvSrc DEF CInv
<1>2. \A m \in fwd : m.psn \in Below(n) /\ m.size \in Nat
  <2>1. \A p : Size(src, p) \in Nat
    BY ParametersAreNat DEF Size
  <2> QED BY <1>1, <2>1 DEF PacketOK
<1>3. CASE ReceiveData
  <2>1. PICK m \in fwd, ecn \in BOOLEAN : SinkBecomes(ProcessData(sink, m, ecn), {m})
    BY <1>3 DEF ReceiveData
  <2> DEFINE k == ProcessData(sink, m, ecn)
  <2>2. Counts(sink, k, n, m.psn, m.size - AckSize)
    BY <1>1, <1>2, ProcessDataCounts
  <2>3. SinkBecomes(k, {m}) /\ PacketOK(m, src)
    BY <1>1, <2>1
  <2> HIDE DEF k
  <2>4. Tidy(k, n)
    BY <2>2 DEF Counts
  <2> QED BY <2>2, <2>3, <2>4, FreshCounts, SinkStepCounts
<1>4. CASE ReceiveRts
  <2>1. PICK m \in fwd : m.kind = "rts" /\ SinkBecomes(ProcessRts(sink, m), {m})
    BY <1>4 DEF ReceiveRts
  <2> DEFINE k == ProcessRts(sink, m)
  <2>2. Counts(sink, k, n, m.psn, 0)
    BY <1>1, <1>2, ProcessRtsCounts
  <2>3. SinkBecomes(k, {m}) /\ PacketOK(m, src)
    BY <1>1, <2>1
  <2>4. m.size - AckSize = 0
    BY <2>1, <2>3, ParametersAreNat DEF PacketOK, Size
  <2> HIDE DEF k
  <2>5. Tidy(k, n) /\ Counts(sink, k, n, m.psn, m.size - AckSize)
    BY <2>2, <2>4 DEF Counts
  <2> QED BY <2>3, <2>5, FreshCounts, SinkStepCounts
<1>5. CASE ReceiveTrimmed
  <2>1. PICK m \in fwd : SinkBecomes(ProcessTrimmed(sink, m), {m})
    BY <1>5 DEF ReceiveTrimmed
  <2> DEFINE k == ProcessTrimmed(sink, m)
  <2>2. /\ Tidy(k, n) /\ Received(k, n) = Received(sink, n)
        /\ k.received_bytes = sink.received_bytes
    BY <1>1, <1>2, ProcessTrimmedCounts
  <2>3. SinkBecomes(k, {m})
    BY <2>1
  <2> HIDE DEF k
  <2>4. Fresh(k, src) = Fresh(sink, src)
    BY <2>2 DEF Fresh
  <2>5. k.received_bytes = (Mtu - Hdr) * Cardinality(Fresh(k, src))
    BY <2>2, <2>4 DEF CInv
  <2>6. Cardinality(Fresh(k, src)) \in
          {Cardinality(Fresh(sink, src)), Cardinality(Fresh(sink, src)) + 1}
    BY <2>4
  <2> QED BY <2>2, <2>3, <2>5, <2>6, SinkStepCounts
<1> QED BY <1>3, <1>4, <1>5

LEMMA NextCInv == IInv /\ CInv /\ [Next]_vars => CInv' /\ Progress
<1> SUFFICES ASSUME IInv, CInv, [Next]_vars PROVE CInv' /\ Progress
  OBVIOUS
<1>1. CASE Lose
  <2>1. src' = src /\ sink' = sink
    BY <1>1 DEF Lose
  <2>2. (\A m \in fwd' : m \in fwd) /\ (\A m \in back' : m \in back)
    BY <1>1 DEF Lose
  <2>3. CInv'
    BY <2>1, <2>2 DEF CInv
  <2> QED BY <2>1, <2>3 DEF Progress
<1>2. CASE UNCHANGED vars
  <2>1. src' = src /\ sink' = sink /\ fwd' = fwd /\ back' = back
    BY <1>2 DEF vars
  <2>2. CInv'
    BY <2>1 DEF CInv
  <2> QED BY <2>1, <2>2 DEF Progress
<1> QED BY <1>1, <1>2, StartCounts, PortCounts, AckCounts, NackCounts, TimeoutCounts,
           SinkCounts DEF Next

LEMMA SpecCInv == Spec => [](IInv /\ CInv)
BY InitIInv, NextIInv, InitCInv, NextCInv, PTL DEF Spec

-----------------------------------------------------------------------------
(* The theorems. *)

LEMMA SentPsnsAre == SentPsns = Below(src.highest_sent)
BY DEF SentPsns, Below

(* The entries of a list without duplicates are as many as its members. *)
LEMMA DistinctSize ==
  ASSUME NEW q \in Seq(Int), Distinct(q)
  PROVE  Cardinality(RangeOf(q)) = Len(q)
<1> DEFINE n == Len(q)
           D == 1..n
           f == [i \in D |-> q[i]]
<1>1. n \in Nat
  OBVIOUS
<1>2. IsFiniteSet(D) /\ Cardinality(D) = n
  <2>1. 1 \in Int /\ n \in Int
    BY <1>1
  <2>2. IsFiniteSet(D) /\ Cardinality(D) = IF 1 > n THEN 0 ELSE n - 1 + 1
    BY <2>1, FS_Interval, Zenon
  <2> QED BY <1>1, <2>2
<1>3. f \in Bijection(D, RangeOf(q))
  <2>1. f \in [D -> RangeOf(q)]
    BY DEF RangeOf
  <2>2. \A i, j \in D : f[i] = f[j] => i = j
    BY DEF Distinct
  <2>3. \A x \in RangeOf(q) : \E i \in D : f[i] = x
    BY DEF RangeOf
  <2> HIDE DEF f, D
  <2> QED BY <2>1, <2>2, <2>3, Fun_IsBij
<1> HIDE DEF D, f
<1>4. \E g \in Bijection(D, RangeOf(q)) : TRUE
  BY <1>3
<1>5. Cardinality(RangeOf(q)) = Cardinality(D)
  BY <1>2, <1>4, FS_Bijection, Zenon DEF ExistsBijection
<1> QED BY <1>2, <1>5

(* The psns and the counters of both ends stay within what was sent, for any *)
(* number of packets and of RTSs.                                            *)
THEOREM CountersStayInRange == Spec => []TypeOK
<1>1. ASSUME IInv, CInv PROVE TypeOK
  <2> DEFINE n == src.highest_sent
             D == Below(n) \ src.rts
  <2>1. Body(src) /\ Timer(src) /\ n \in Nat /\ SrcTypes(src) /\ SrcOK(src)
    BY <1>1, CInvSrc DEF Body
  <2>2. src.rts \subseteq Below(n) /\ Cardinality(src.rts) <= MaxRts
        /\ src.backlog \in Nat /\ Cardinality(D) = Packets - src.backlog
    BY <2>1 DEF SrcTypes
  <2>3. D \subseteq Below(n) /\ Below(n) = D \cup src.rts /\ D \cap src.rts = {}
    BY <2>2
  <2> HIDE DEF D
  <2>4. IsFiniteSet(D) /\ IsFiniteSet(src.rts) /\ Cardinality(Below(n)) = n
    BY <2>1, <2>2, <2>3, BelowIsFinite
  <2>5. n = Cardinality(D) + Cardinality(src.rts)
        /\ Cardinality(D) \in Nat /\ Cardinality(src.rts) \in Nat
    BY <2>3, <2>4, SizesAdd
  <2>6. src.highest_sent \in 0 .. (Packets + MaxRts) /\ src.backlog \in 0 .. Packets
    BY <2>1, <2>2, <2>5, ParametersAreNat
  <2>7. src.tx \subseteq SentPsns /\ src.rtx \subseteq SentPsns /\ src.rts \subseteq SentPsns
    BY <2>1, <2>2, SentPsnsAre DEF SrcOK
  <2>8. Cardinality(DataPsns) = Packets - src.backlog
    BY <2>2, SentPsnsAre DEF DataPsns, D
  <2>9. src.rto \in SentPsns \cup {NoPsn}
    <3>1. /\ src.send_times \in Seq(Int) /\ RangeOf(src.send_times) = src.tx
      BY <2>1 DEF Body, SendTimes
    <3>2. src.send_times # <<>> => Head(src.send_times) \in RangeOf(src.send_times)
      BY <3>1 DEF RangeOf
    <3> QED BY <2>1, <2>7, <3>1, <3>2 DEF Timer
  <2>10. /\ sink.expected \in Nat /\ sink.expected <= n /\ sink.rx \subseteq Below(n)
         /\ sink.ooo = Cardinality(sink.rx) /\ sink.accepted \in Nat
    BY <1>1 DEF CInv, Tidy, Bitmap
  <2>11. sink.ooo \in Nat
    BY <2>1, <2>10, BelowIsFinite
  <2>12. sink.expected \in 0 .. src.highest_sent /\ sink.rx \subseteq SentPsns
    BY <2>1, <2>10, SentPsnsAre
  <2>13. /\ src.in_flight \in Int /\ src.cwnd \in Nat /\ src.requests \in Nat
         /\ src.blocked \in BOOLEAN /\ src.port_free \in BOOLEAN /\ src.done \in BOOLEAN
    BY <2>1 DEF SrcTypes
  <2> QED BY <2>6, <2>7, <2>8, <2>9, <2>10, <2>11, <2>12, <2>13 DEF TypeOK
<1> QED BY <1>1, SpecCInv, PTL

(* The retransmission timer is armed whenever a packet is in flight, for the *)
(* oldest, and the list of send times has one entry for each.                *)
THEOREM TimerIsForOldest == Spec => []TimerCoversOldest
<1>1. ASSUME CInv PROVE TimerCoversOldest
  <2>1. Body(src) /\ Timer(src)
    BY <1>1, CInvSrc
  <2>2. src.send_times \in Seq(Int) /\ Distinct(src.send_times)
        /\ RangeOf(src.send_times) = src.tx
    BY <2>1 DEF Body, SendTimes
  <2>3. Cardinality(RangeOf(src.send_times)) = Len(src.send_times)
    BY <2>2, DistinctSize
  <2> QED BY <2>1, <2>2, <2>3 DEF TimerCoversOldest, Timer
<1> QED BY <1>1, SpecCInv, PTL

(* The bytes in flight are exact: each data packet sent is counted until it  *)
(* waits for its retransmission, an RTS never, whatever is lost or trimmed.  *)
THEOREM FlightIsExact == Spec => []FlightAccounting
<1>1. ASSUME CInv PROVE FlightAccounting
  <2>1. Counted(src)
    BY <1>1, CInvSrc DEF Body
  <2> QED BY <2>1, SentPsnsAre DEF Counted, Charge, FlightAccounting, DataPsns
<1> QED BY <1>1, SpecCInv, PTL

(* A source that the window lets send is in the queue of the NIC. *)
THEOREM SourceAsksWhenItCan == Spec => []NoMissedSend
<1>1. CInv => NoMissedSend
  BY CInvSrc DEF NoMissedSend, Awake
<1> QED BY <1>1, SpecCInv, PTL

(* A source that waits for the NIC is in its queue, and a port is not free   *)
(* while the queue is not empty.                                             *)
THEOREM WaitingSourceIsQueued == Spec => []WaitingIsKnown
<1>1. CInv => WaitingIsKnown
  BY CInvSrc DEF WaitingIsKnown, Queued
<1> QED BY <1>1, SpecCInv, PTL

(* The count of out-of-order packets is exact, and a request for an ACK that *)
(* is kept waits for a gap.                                                  *)
THEOREM KeptRequestHasGap == Spec => []AckRequestWillFire
<1>1. CInv => AckRequestWillFire
  BY DEF CInv, Tidy, Bitmap, AckRequestWillFire
<1> QED BY <1>1, SpecCInv, PTL

(* A step of the connection is a step of the flow, or none. *)
LEMMA FlowStep ==
  ASSUME IInv, CInv, CInv', Progress
  PROVE  [Flow!Next]_<<sink.received_bytes, src.done>>
<1> DEFINE a == Cardinality(Fresh(sink, src))
           b == Cardinality(Fresh(sink', src'))
           u == Mtu - Hdr
<1>1. /\ sink.received_bytes = u * a /\ sink'.received_bytes = u * b
      /\ src.done => a = Packets
      /\ src'.done => b = Packets
  BY DEF CInv
<1>2. a \in Nat /\ b \in Nat /\ a <= Packets /\ b <= Packets
  BY FreshBound DEF CInv
<1>3. src.done \in BOOLEAN /\ src'.done \in BOOLEAN
  BY DEF CInv, Body, SrcTypes
<1>4. u \in Nat
  BY ParametersAreNat
<1>5. /\ src.done => src'.done
      /\ \/ sink'.received_bytes = sink.received_bytes
         \/ src' = src /\ b \in {a, a + 1}
  BY DEF Progress
<1> HIDE DEF a, b
<1>6. CASE sink'.received_bytes = sink.received_bytes /\ src.done = src'.done
  BY <1>6
<1>7. CASE sink'.received_bytes = sink.received_bytes /\ src.done # src'.done
  <2>1. ~src.done /\ src'.done = TRUE
    BY <1>3, <1>5, <1>7
  <2>2. b = Packets
    BY <1>1, <2>1
  <2>3. sink.received_bytes = Packets * (Mtu - Hdr)
    BY <1>1, <1>2, <1>4, <1>7, <2>2, ParametersAreNat
  <2> QED BY <1>7, <2>1, <2>3 DEF Flow!Next, Flow!Finish
<1>8. CASE sink'.received_bytes # sink.received_bytes
  <2>1. src' = src /\ b = a + 1
    BY <1>1, <1>5, <1>8
  <2>2. u # 0
    BY <1>1, <1>2, <1>8
  <2>3. \A x, y \in Nat : x < y => u * x < y * u
    BY <1>4, <2>2
  <2>4. u * a < Packets * u
    BY <1>2, <2>1, <2>3, ParametersAreNat
  <2>5. u * (a + 1) = u * a + u
    BY <1>2, <1>4
  <2>6. Flow!Deliver
    BY <1>1, <2>1, <2>4, <2>5 DEF Flow!Deliver
  <2> QED BY <2>6 DEF Flow!Next
<1> QED BY <1>3, <1>6, <1>7, <1>8

(* The connection implements a reliable flow: every packet of payload is     *)
(* counted exactly once at the sink, and the source reports the end only     *)
(* when all of it has arrived; for every flow, window, loss and trimming.    *)
THEOREM ConnectionIsReliable == Spec => ImplementsFlow
<1>1. Init => Flow!Init
  BY DEF Init, InitSrc, InitSink, Flow!Init
<1>2. IInv /\ CInv /\ IInv' /\ CInv' /\ [Next]_vars
        => [Flow!Next]_<<sink.received_bytes, src.done>>
  BY NextCInv, FlowStep
<1> QED BY <1>1, <1>2, SpecCInv, PTL DEF Spec, ImplementsFlow, Flow!Safety
=============================================================================
