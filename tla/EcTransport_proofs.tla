------------------------ MODULE EcTransport_proofs -------------------------
(***************************************************************************)
(* Proofs about one erasure-coded flow, for every number of messages,      *)
(* stripes and packets, every threshold, bitmap and list size, any losses  *)
(* and any reordering between the paths.                                   *)
(*                                                                         *)
(* The inductive invariant IInv has a part for each side and one for what  *)
(* is between them.  SenderOK types the sender's lists, says that every    *)
(* number on them has its stripes, and counts the events that a flow owes  *)
(* itself: one while it has something to send, one more while a timeout is *)
(* pending.  SinkOK says where the receiver's boundaries may lie: none     *)
(* before the place where its message begins, so that a new one fits       *)
(* between its neighbours.  The network carries packets whose numbers are  *)
(* within the bounds and answers that report no more stripes than a        *)
(* message has, and it is silent until the flow starts.                    *)
(***************************************************************************)
EXTENDS EcTransport, TLAPS, WellFoundedInduction, SequenceTheorems,
        FiniteSetTheorems

-----------------------------------------------------------------------------
(* What the sender's lists hold, and what is on its way. *)
Cursors  == [msn : Nat, stripe : Nat, pkt : Paths]
Resumes  == [msn : Nat, stripe : Nat, pkt : Paths, num : 1 .. Stripes]
Requests == [msn : Nat, num : 1 .. Stripes]
Entries  == [msn : Nat, orig : Int, num : 1 .. Stripes]
Packets  == [msn : 0 .. MaxMsn + 1, stripe : Nat, path : Paths,
             num : 1 .. Stripes, data : Int]
Offsets  == {q \in Seq(Nat) : Len(q) <= Stripes}
Answers  == [type : {"SACK", "NACK", "METRIC"}, msn : Nat, missing : Offsets,
             bytes : Int]

SenderFields ==
  {"perPath", "windowed", "started", "finished", "pending", "failed", "events",
   "messages", "original", "sacks", "retrans", "unfinished", "nextRetrans",
   "unacked", "cwnd", "erased", "content"}
SinkFields ==
  {"perPath", "windowed", "epsn", "bits", "top", "base", "mbl", "missing",
   "armed", "change", "pending", "active", "acked", "canSend", "metric"}

IsSender(s) == s = [f \in SenderFields |-> s[f]]
IsSink(k)   == k = [f \in SinkFields |-> k[f]]

Lists(s) ==
  /\ s.messages \in Seq(Nat) /\ s.original \in Seq(Cursors)
  /\ s.sacks \in Seq(Requests) /\ s.retrans \in Seq(Resumes)
  /\ s.unfinished \in Seq(Entries)
  /\ s.nextRetrans \in Nat /\ s.erased \in Nat /\ s.events \in Nat

(* Every message that is named has its stripes. *)
Contents(s) ==
  /\ s.content = [m \in DOMAIN s.content |-> s.content[m]]
  /\ \A m \in DOMAIN s.content : s.content[m] \in Seq(Int)
  /\ \A i \in 1 .. Len(s.sacks) : s.sacks[i].msn \in DOMAIN s.content
  /\ \A i \in 1 .. Len(s.unfinished) : s.unfinished[i].msn \in DOMAIN s.content

(* The numbers that are followed are used up. *)
UsedUp(s) ==
  \/ s.nextRetrans > MaxMsn + 1
  \/ \E i \in 1 .. Len(s.unfinished) : s.unfinished[i].msn > MaxMsn

(* Until then every number the sender may put into a packet is within them. *)
Within(s) ==
  \/ UsedUp(s)
  \/ /\ \A i \in 1 .. Len(s.messages) : s.messages[i] <= MaxMsn
     /\ \A i \in 1 .. Len(s.sacks) : s.sacks[i].msn <= MaxMsn
     /\ \A i \in 1 .. Len(s.original) : s.original[i].msn <= MaxMsn
     /\ \A i \in 1 .. Len(s.retrans) : s.retrans[i].msn <= MaxMsn + 1

(* The events of a flow that is not finished: one while it has something to *)
(* send or has not begun, and one more while a timeout is pending.          *)
Due(s) == (IF ~s.started \/ HasData(s) THEN 1 ELSE 0) + (IF s.pending THEN 1 ELSE 0)
Awake(s) == s.finished \/ s.events >= IF s.windowed THEN 1 ELSE Due(s)

(* Before the flow starts nothing is queued and no timeout is pending. *)
Begun(s) == s.started \/ (s.sacks = <<>> /\ ~s.pending)

SenderOK(s) ==
  IsSender(s) /\ Lists(s) /\ Contents(s) /\ Within(s) /\ Awake(s) /\ Begun(s)

(* Every boundary that is known lies where its message begins or beyond, and *)
(* the boundaries ascend.                                                    *)
Boundaries(k) ==
  /\ k.base \in Nat /\ k.mbl \in Seq(Nat)
  /\ \A i \in 1 .. Len(k.mbl) :
       k.mbl[i] = Big \/ (k.mbl[i] <= Big /\ k.mbl[i] >= (k.base + i - 1) * Stripes)
  /\ \A i, j \in 1 .. Len(k.mbl) : i < j => k.mbl[i] <= k.mbl[j]

(* What the bitmaps and the expected stripes hold is bounded. *)
Reach(k, b) ==
  /\ \A x \in k.bits : x[1] <= b
  /\ \A p \in Paths : k.epsn[p] <= b

Positions(k) ==
  /\ k.epsn \in [Paths -> Nat] /\ k.bits \subseteq Nat \X Paths
  /\ k.missing \subseteq Nat /\ k.acked \in Int
  /\ \E b \in Nat : Reach(k, b)

SinkOK(k) == IsSink(k) /\ Boundaries(k) /\ Positions(k)

(* The receiver and the network are silent until the flow starts. *)
Silent ==
  /\ acks = <<>> /\ \A p \in Paths : data[p] = <<>>
  /\ ~sink.armed /\ ~sink.pending /\ ~sink.metric /\ sink.acked = 0

IInv ==
  /\ SenderOK(sender) /\ SinkOK(sink)
  /\ data \in [Paths -> Seq(Packets)] /\ acks \in Seq(Answers)
  /\ sender.started \/ Silent

-----------------------------------------------------------------------------
(* Numbers, sets of numbers and lists. *)

(* Min returns the least element of a set of naturals. *)
LEMMA MinIn ==
  ASSUME NEW S \in SUBSET Nat, S # {}
  PROVE  Min(S) \in S /\ \A q \in S : Min(S) <= q
<1> DEFINE R == OpToRel(<, Nat)
<1>1. PICK x \in S : \A y \in S : ~ (<<y, x>> \in R)
  BY WFMin, NatLessThanWellFounded, Zenon
<1>2. \A u, v \in Nat : u < v => <<u, v>> \in R
  BY DEF OpToRel
<1> HIDE DEF R
<1>3. \A y \in S : ~ (y < x)
  BY <1>1, <1>2
<1>4. \E p \in S : \A q \in S : p <= q
  BY <1>3
<1> QED
  BY <1>4 DEF Min

(* Max returns the greatest element of a set of naturals that has a bound. *)
LEMMA MaxIn ==
  ASSUME NEW S \in SUBSET Nat, S # {}, NEW b \in Nat, \A x \in S : x <= b
  PROVE  Max(S) \in S /\ \A q \in S : Max(S) >= q
<1> DEFINE D == {b - x : x \in S}
<1>1. D \in SUBSET Nat /\ D # {}
  OBVIOUS
<1>2. Min(D) \in D /\ \A q \in D : Min(D) <= q
  BY <1>1, MinIn
<1>3. PICK x \in S : Min(D) = b - x
  BY <1>2
<1>4. ASSUME NEW q \in S
      PROVE  x >= q
  <2>1. b - q \in D
    OBVIOUS
  <2>2. b - x <= b - q
    BY <1>2, <1>3, <2>1
  <2> QED BY <2>2
<1>5. \E p \in S : \A q \in S : p >= q
  BY <1>4
<1> QED
  BY <1>5 DEF Max

LEMMA MaxOfTwo ==
  ASSUME NEW a \in Nat, NEW b \in Nat
  PROVE  /\ Max({a, b}) \in {a, b}
         /\ Max({a, b}) >= a /\ Max({a, b}) >= b
<1>1. {a, b} \in SUBSET Nat /\ {a, b} # {} /\ a + b \in Nat
      /\ \A x \in {a, b} : x <= a + b
  OBVIOUS
<1> QED
  BY <1>1, MaxIn

LEMMA MinOfTwo ==
  ASSUME NEW a \in Nat, NEW b \in Nat
  PROVE  /\ Min({a, b}) \in {a, b}
         /\ Min({a, b}) <= a /\ Min({a, b}) <= b
<1>1. {a, b} \in SUBSET Nat /\ {a, b} # {}
  OBVIOUS
<1> QED
  BY <1>1, MinIn

(* The packets and messages of the constants. *)
LEMMA Sizes ==
  /\ Messages \in Nat /\ Messages >= 1 /\ Stripes \in Nat /\ Stripes >= 1
  /\ K \in Nat /\ K >= 1 /\ M \in Nat /\ M >= 1
  /\ Chunk \in Nat /\ Chunk >= 2 /\ 0 \in Paths
  /\ MaxMsn \in Nat /\ MaxEvents \in Nat /\ Big \in Nat /\ Messages <= MaxMsn + 1
  /\ (MaxMsn + 2) * Stripes <= Big
BY EcAssumption, BoundAssumption DEF Chunk, Paths

(* Multiplication by the length of a message keeps the order. *)
LEMMA Ordered ==
  ASSUME NEW a \in Int, NEW b \in Int
  PROVE  /\ a * Stripes \in Int
         /\ (a + 1) * Stripes = a * Stripes + Stripes
         /\ a <= b => a * Stripes <= b * Stripes
         /\ a < b => a * Stripes + Stripes <= b * Stripes
         /\ a \in Nat => a * Stripes \in Nat
<1>1. Stripes \in Nat
  BY Sizes
<1> QED
  BY <1>1

(* Every element of t is one of l. *)
Among(t, l) == \A j \in 1 .. Len(t) : \E i \in 1 .. Len(l) : t[j] = l[i]

LEMMA AmongItself ==
  ASSUME NEW S, NEW l \in Seq(S)
  PROVE  Among(l, l)
BY DEF Among

LEMMA TailAmong ==
  ASSUME NEW S, NEW l \in Seq(S), l # <<>>
  PROVE  Tail(l) \in Seq(S) /\ Among(Tail(l), l) /\ Head(l) \in S /\ Head(l) = l[1]
         /\ 1 \in 1 .. Len(l)
<1>1. Len(l) \in Nat /\ Len(l) >= 1
  OBVIOUS
<1>2. /\ Tail(l) \in Seq(S) /\ Len(Tail(l)) = Len(l) - 1
      /\ \A j \in 1 .. (Len(l) - 1) : Tail(l)[j] = l[j + 1] /\ j + 1 \in 1 .. Len(l)
  BY <1>1
<1> QED
  BY <1>1, <1>2 DEF Among

(* One element is taken out of a list. *)
LEMMA RemoveAtAmong ==
  ASSUME NEW S, NEW l \in Seq(S), NEW n \in 1 .. Len(l)
  PROVE  RemoveAt(l, n) \in Seq(S) /\ Among(RemoveAt(l, n), l)
<1> DEFINE a == SubSeq(l, 1, n - 1)
           z == SubSeq(l, n + 1, Len(l))
<1>1. Len(l) \in Nat
  OBVIOUS
<1>2. /\ a \in Seq(S) /\ Len(a) = n - 1
      /\ \A j \in 1 .. (n - 1) : a[j] = l[j]
  BY <1>1
<1>3. /\ z \in Seq(S) /\ Len(z) = Len(l) - n
      /\ \A j \in 1 .. (Len(l) - n) : z[j] = l[j + n]
  BY <1>1
<1> HIDE DEF a, z
<1>4. /\ a \o z \in Seq(S) /\ Len(a \o z) = Len(a) + Len(z)
      /\ \A j \in 1 .. (Len(a) + Len(z)) :
           (a \o z)[j] = IF j <= Len(a) THEN a[j] ELSE z[j - Len(a)]
  BY <1>2, <1>3, ConcatProperties
<1>5. ASSUME NEW j \in 1 .. Len(a \o z)
      PROVE  \E i \in 1 .. Len(l) : (a \o z)[j] = l[i]
  <2>1. CASE j <= n - 1
    BY <1>1, <1>2, <1>3, <1>4, <2>1
  <2>2. CASE j > n - 1
    <3>1. (a \o z)[j] = z[j - (n - 1)] /\ j - (n - 1) \in 1 .. (Len(l) - n)
      BY <1>1, <1>2, <1>3, <1>4, <2>2
    <3>2. (a \o z)[j] = l[j + 1] /\ j + 1 \in 1 .. Len(l)
      BY <1>1, <1>3, <3>1
    <3> QED BY <3>2
  <2> QED BY <1>1, <1>2, <1>3, <1>4, <2>1, <2>2
<1>6. RemoveAt(l, n) = a \o z
  BY DEF RemoveAt, a, z
<1> QED
  BY <1>4, <1>5, <1>6 DEF Among

(* Where a search in a list may end. *)
LEMMA WithoutAmong ==
  ASSUME NEW S, NEW l \in Seq(S), NEW msn
  PROVE  Without(l, msn) \in Seq(S) /\ Among(Without(l, msn), l)
<1> DEFINE I == {i \in 1 .. Len(l) : l[i].msn = msn}
           i0 == SelectInSeq(l, LAMBDA e : e.msn = msn)
<1>1. i0 = IF I # {} THEN Min(I) ELSE 0
  BY DEF SelectInSeq
<1>2. I \in SUBSET Nat
  OBVIOUS
<1>3. i0 = 0 \/ i0 \in 1 .. Len(l)
  BY <1>1, <1>2, MinIn
<1> HIDE DEF I, i0
<1>4. CASE i0 = 0
  BY <1>4, AmongItself DEF Without, i0
<1>5. CASE i0 # 0
  BY <1>3, <1>5, RemoveAtAmong DEF Without, i0
<1> QED
  BY <1>4, <1>5

LEMMA RemoveFirstAmong ==
  ASSUME NEW S, NEW l \in Seq(S), NEW e
  PROVE  RemoveFirst(l, e) \in Seq(S) /\ Among(RemoveFirst(l, e), l)
<1> DEFINE I == {i \in 1 .. Len(l) : l[i] = e}
           i0 == SelectInSeq(l, LAMBDA v : v = e)
<1>1. i0 = IF I # {} THEN Min(I) ELSE 0
  BY DEF SelectInSeq
<1>2. I \in SUBSET Nat
  OBVIOUS
<1>3. (\E i \in 1 .. Len(l) : l[i] = e) => i0 \in 1 .. Len(l)
  BY <1>1, <1>2, MinIn
<1> HIDE DEF I, i0
<1>4. CASE ~ \E i \in 1 .. Len(l) : l[i] = e
  BY <1>4, AmongItself DEF RemoveFirst
<1>5. CASE \E i \in 1 .. Len(l) : l[i] = e
  BY <1>3, <1>5, RemoveAtAmong DEF RemoveFirst, i0
<1> QED
  BY <1>4, <1>5

LEMMA AmongNonempty ==
  ASSUME NEW S, NEW l \in Seq(S), NEW t \in Seq(S), Among(t, l), t # <<>>
  PROVE  l # <<>>
<1>1. Len(t) \in Nat /\ Len(t) >= 1 /\ Len(<<>>) = 0
  OBVIOUS
<1>2. PICK i \in 1 .. Len(l) : t[1] = l[i]
  BY <1>1 DEF Among
<1>3. Len(l) \in Nat
  OBVIOUS
<1> QED
  BY <1>1, <1>2, <1>3

-----------------------------------------------------------------------------
(* The sender *)

(* HasData only asks whether the lists hold anything. *)
LEMMA DueType ==
  ASSUME NEW s
  PROVE  Due(s) \in 0 .. 2
BY DEF Due

(* A handler that only takes elements off the lists. *)
LEMMA Shrinks ==
  ASSUME NEW s, SenderOK(s), ~UsedUp(s), NEW t, IsSender(t),
         t.messages \in Seq(Nat), Among(t.messages, s.messages),
         t.sacks \in Seq(Requests), Among(t.sacks, s.sacks),
         t.unfinished \in Seq(Entries), Among(t.unfinished, s.unfinished),
         t.original = s.original, t.retrans = s.retrans,
         t.nextRetrans = s.nextRetrans, t.erased \in Nat, t.content = s.content,
         t.events = s.events, t.windowed = s.windowed, t.started = s.started,
         t.finished = s.finished, t.pending = s.pending
  PROVE  SenderOK(t) /\ ~UsedUp(t)
<1>1. Lists(s) /\ Contents(s) /\ Within(s) /\ Awake(s)
  BY DEF SenderOK
<1>2. Lists(t)
  BY <1>1 DEF Lists
<1>3. Contents(t)
  <2>1. \A i \in 1 .. Len(t.sacks) : t.sacks[i].msn \in DOMAIN t.content
    BY <1>1 DEF Contents, Among
  <2>2. \A i \in 1 .. Len(t.unfinished) : t.unfinished[i].msn \in DOMAIN t.content
    BY <1>1 DEF Contents, Among
  <2> QED BY <1>1, <2>1, <2>2 DEF Contents
<1>4. ~UsedUp(t)
  BY DEF UsedUp, Among
<1>5. Within(t)
  <2>1. \A i \in 1 .. Len(t.messages) : t.messages[i] <= MaxMsn
    BY <1>1 DEF Within, Among
  <2>2. \A i \in 1 .. Len(t.sacks) : t.sacks[i].msn <= MaxMsn
    BY <1>1 DEF Within, Among
  <2> QED BY <1>1, <2>1, <2>2 DEF Within
<1>6. Awake(t)
  <2>1. HasData(t) => HasData(s)
    <3>1. t.messages # <<>> => s.messages # <<>>
      BY <1>1, AmongNonempty DEF Lists
    <3>2. t.sacks # <<>> => s.sacks # <<>>
      BY <1>1, AmongNonempty DEF Lists
    <3> QED BY <3>1, <3>2 DEF HasData
  <2>2. s.events \in Nat
    BY <1>1 DEF Lists
  <2> QED BY <1>1, <2>1, <2>2 DEF Awake, Due
<1>7. Begun(t)
  <2>1. t.sacks # <<>> => s.sacks # <<>>
    BY <1>1, AmongNonempty DEF Lists
  <2> QED BY <2>1 DEF SenderOK, Begun
<1> QED
  BY <1>2, <1>3, <1>4, <1>5, <1>6, <1>7 DEF SenderOK

(* A handler that leaves the lists alone and keeps an event for each use. *)
LEMMA Neutral ==
  ASSUME NEW s, SenderOK(s), NEW t, IsSender(t),
         t.messages = s.messages, t.sacks = s.sacks, t.unfinished = s.unfinished,
         t.original = s.original, t.retrans = s.retrans,
         t.nextRetrans = s.nextRetrans, t.erased = s.erased, t.content = s.content,
         t.events \in Nat, Awake(t), Begun(t)
  PROVE  SenderOK(t) /\ (UsedUp(t) <=> UsedUp(s))
<1>1. Lists(t)
  BY DEF SenderOK, Lists
<1>2. Contents(t)
  BY DEF SenderOK, Contents
<1>3. UsedUp(t) <=> UsedUp(s)
  BY DEF UsedUp
<1>4. Within(t)
  BY <1>3 DEF SenderOK, Within
<1> QED
  BY <1>1, <1>2, <1>3, <1>4 DEF SenderOK

(* A handler that changes neither the lists nor the events. *)
LEMMA Untouched ==
  ASSUME NEW s, SenderOK(s), NEW t, IsSender(t),
         t.messages = s.messages, t.sacks = s.sacks, t.unfinished = s.unfinished,
         t.original = s.original, t.retrans = s.retrans,
         t.nextRetrans = s.nextRetrans, t.erased = s.erased, t.content = s.content,
         t.events = s.events, t.windowed = s.windowed, t.started = s.started,
         t.finished = s.finished, t.pending = s.pending
  PROVE  SenderOK(t) /\ (UsedUp(t) <=> UsedUp(s))
<1>1. t.events \in Nat
  BY DEF SenderOK, Lists
<1>2. Due(t) = Due(s)
  BY DEF Due, HasData
<1>3. Awake(t)
  BY <1>2 DEF SenderOK, Awake
<1>4. Begun(t)
  BY DEF SenderOK, Begun
<1> QED
  BY <1>1, <1>3, <1>4, Neutral

LEMMA CountOK ==
  ASSUME NEW s, SenderOK(s), NEW n
  PROVE  LET t == Count(s, n)
         IN  /\ SenderOK(t) /\ (UsedUp(t) <=> UsedUp(s))
             /\ t.messages = s.messages /\ t.sacks = s.sacks
             /\ t.original = s.original /\ t.retrans = s.retrans
             /\ t.nextRetrans = s.nextRetrans /\ t.started = s.started
<1> DEFINE t == Count(s, n)
<1>1. IsSender(s)
  BY DEF SenderOK
<1>2. IsSender(t)
  BY <1>1 DEF IsSender, Count, SenderFields
<1>3. /\ t.messages = s.messages /\ t.sacks = s.sacks /\ t.unfinished = s.unfinished
      /\ t.original = s.original /\ t.retrans = s.retrans
      /\ t.nextRetrans = s.nextRetrans /\ t.erased = s.erased
      /\ t.content = s.content
      /\ t.events = s.events /\ t.windowed = s.windowed /\ t.started = s.started
      /\ t.finished = s.finished /\ t.pending = s.pending
  BY <1>1, <1>2 DEF IsSender, Count, SenderFields
<1> HIDE DEF t
<1>4. SenderOK(t) /\ (UsedUp(t) <=> UsedUp(s))
  BY <1>2, <1>3, Untouched
<1> QED
  BY <1>3, <1>4 DEF t

LEMMA ReduceUnackedOK ==
  ASSUME NEW s, SenderOK(s), NEW n
  PROVE  LET t == ReduceUnacked(s, n)
         IN  /\ SenderOK(t) /\ (UsedUp(t) <=> UsedUp(s))
             /\ t.messages = s.messages /\ t.sacks = s.sacks
             /\ t.unfinished = s.unfinished /\ t.started = s.started
<1> DEFINE t == ReduceUnacked(s, n)
<1>1. IsSender(s)
  BY DEF SenderOK
<1>2. IsSender(t)
  BY <1>1 DEF IsSender, ReduceUnacked, SenderFields
<1>3. /\ t.messages = s.messages /\ t.sacks = s.sacks /\ t.unfinished = s.unfinished
      /\ t.original = s.original /\ t.retrans = s.retrans
      /\ t.nextRetrans = s.nextRetrans /\ t.erased = s.erased
      /\ t.content = s.content
      /\ t.events = s.events /\ t.windowed = s.windowed /\ t.started = s.started
      /\ t.finished = s.finished /\ t.pending = s.pending
  BY <1>1, <1>2 DEF IsSender, ReduceUnacked, SenderFields
<1> HIDE DEF t
<1>4. SenderOK(t) /\ (UsedUp(t) <=> UsedUp(s))
  BY <1>2, <1>3, Untouched
<1> QED
  BY <1>3, <1>4 DEF t

LEMMA FinishFlowOK ==
  ASSUME NEW s, SenderOK(s)
  PROVE  SenderOK(FinishFlow(s)) /\ FinishFlow(s).started = s.started
<1> DEFINE t == FinishFlow(s)
<1>1. IsSender(s) /\ Lists(s) /\ Awake(s)
  BY DEF SenderOK
<1>2. IsSender(t)
  BY <1>1 DEF IsSender, FinishFlow, SenderFields
<1>3. /\ t.messages = s.messages /\ t.sacks = s.sacks /\ t.unfinished = s.unfinished
      /\ t.original = s.original /\ t.retrans = s.retrans
      /\ t.nextRetrans = s.nextRetrans /\ t.erased = s.erased
      /\ t.content = s.content /\ t.started = s.started /\ t.pending = s.pending
  BY <1>1, <1>2 DEF IsSender, FinishFlow, SenderFields
<1>4. s.events \in Nat
  BY <1>1 DEF Lists
<1>5. t.events \in Nat /\ (t = s \/ t.finished = TRUE)
  BY <1>1, <1>2, <1>4 DEF IsSender, FinishFlow, SenderFields
<1> HIDE DEF t
<1>6. Awake(t)
  BY <1>1, <1>5 DEF Awake
<1>7. Begun(t)
  BY <1>3 DEF SenderOK, Begun
<1>8. SenderOK(t)
  BY <1>2, <1>3, <1>5, <1>6, <1>7, Neutral
<1> QED
  BY <1>3, <1>8 DEF t

LEMMA ProcessMetricAckOK ==
  ASSUME NEW s, SenderOK(s), NEW mimd0, NEW n, NEW t \in ProcessMetricAck(s, mimd0, n)
  PROVE  SenderOK(t) /\ t.started = s.started
<1> DEFINE r == ReduceUnacked(s, n)
<1>1. SenderOK(r) /\ r.started = s.started
  BY ReduceUnackedOK
<1> HIDE DEF r
<1>2. IsSender(r)
  BY <1>1 DEF SenderOK
<1>3. t = r \/ (\E w : t = [r EXCEPT !.cwnd = w, !.unacked = 0])
      \/ (\E w : t = [r EXCEPT !.cwnd = w])
  BY DEF ProcessMetricAck, AdjustWindowMimd, AdjustWindowAimd, r
<1>4. CASE t = r
  BY <1>1, <1>4
<1>5. CASE t # r
  <2>1. IsSender(t)
    BY <1>2, <1>3, <1>5 DEF IsSender, SenderFields
  <2>2. /\ t.messages = r.messages /\ t.sacks = r.sacks /\ t.unfinished = r.unfinished
        /\ t.original = r.original /\ t.retrans = r.retrans
        /\ t.nextRetrans = r.nextRetrans /\ t.erased = r.erased
        /\ t.content = r.content
        /\ t.events = r.events /\ t.windowed = r.windowed /\ t.started = r.started
        /\ t.finished = r.finished /\ t.pending = r.pending
    BY <1>2, <1>3, <1>5 DEF IsSender, SenderFields
  <2> QED BY <1>1, <2>1, <2>2, Untouched
<1> QED
  BY <1>4, <1>5

(* start_flow: the messages are put on the lists. *)
LEMMA StartFlowOK ==
  ASSUME NEW s, SenderOK(s), ~UsedUp(s)
  PROVE  LET t == StartFlow(s)
         IN  SenderOK(t) /\ ~UsedUp(t) /\ t.started /\ t.pending = s.pending
<1> DEFINE t == StartFlow(s)
<1>1. CASE s.started
  BY <1>1 DEF StartFlow
<1>2. CASE ~s.started
  <2>1. IsSender(s) /\ Lists(s) /\ Awake(s) /\ s.sacks = <<>> /\ ~s.pending
    BY <1>2 DEF SenderOK, Begun
  <2>2. IsSender(t)
    BY <1>2, <2>1 DEF IsSender, StartFlow, SenderFields
  <2>3. /\ t.started = TRUE
        /\ t.messages = [i \in 1 .. Messages |-> i - 1]
        /\ t.unfinished = [i \in 1 .. Messages |->
                             [msn |-> i - 1, orig |-> None, num |-> Stripes]]
        /\ t.original = <<[msn |-> 0, stripe |-> 0, pkt |-> 0]>>
        /\ t.nextRetrans = Messages
        /\ t.content = [m \in 0 .. Messages - 1 |->
                          [i \in 1 .. Stripes |-> m * Stripes + i - 1]]
    BY <1>2, <2>1, <2>2 DEF IsSender, StartFlow, SenderFields
  <2>4. /\ t.sacks = s.sacks /\ t.retrans = s.retrans /\ t.erased = s.erased
        /\ t.events = s.events /\ t.windowed = s.windowed
        /\ t.finished = s.finished /\ t.pending = s.pending
    BY <1>2, <2>1, <2>2 DEF IsSender, StartFlow, SenderFields
  <2> HIDE DEF t
  <2>5. /\ t.messages \in Seq(Nat) /\ Len(t.messages) = Messages
        /\ \A i \in 1 .. Messages : t.messages[i] = i - 1
    <3>1. Messages \in Nat /\ \A i \in 1 .. Messages : i - 1 \in Nat
      BY Sizes
    <3> QED BY <2>3, <3>1
  <2>6. /\ t.unfinished \in Seq(Entries) /\ Len(t.unfinished) = Messages
        /\ \A i \in 1 .. Messages : t.unfinished[i].msn = i - 1
    <3>1. \A i \in 1 .. Messages :
            [msn |-> i - 1, orig |-> None, num |-> Stripes] \in Entries
      BY Sizes DEF Entries, None
    <3> QED BY <2>3, <3>1, Sizes
  <2>7. /\ t.original \in Seq(Cursors) /\ Len(t.original) = 1
        /\ t.original[1].msn = 0
    <3>1. [msn |-> 0, stripe |-> 0, pkt |-> 0] \in Cursors
      BY Sizes DEF Cursors
    <3> QED BY <2>3, <3>1
  <2>8. Lists(t)
    BY <2>1, <2>3, <2>4, <2>5, <2>6, <2>7, Sizes DEF Lists
  <2>9. Contents(t)
    <3>1. \A m \in 0 .. Messages - 1 :
            [i \in 1 .. Stripes |-> m * Stripes + i - 1] \in Seq(Int)
      <4>1. ASSUME NEW m \in 0 .. Messages - 1
            PROVE  [i \in 1 .. Stripes |-> m * Stripes + i - 1] \in Seq(Int)
        <5>1. m \in Int /\ m * Stripes \in Int
          BY Sizes, Ordered
        <5> QED BY <5>1, Sizes
      <4> QED BY <4>1
    <3>2. DOMAIN t.content = 0 .. Messages - 1
      BY <2>3
    <3>3. \A i \in 1 .. Len(t.unfinished) : t.unfinished[i].msn \in DOMAIN t.content
      BY <2>6, <3>2, Sizes
    <3>4. \A m \in DOMAIN t.content : t.content[m] \in Seq(Int)
      BY <2>3, <3>1, <3>2
    <3>5. \A i \in 1 .. Len(t.sacks) : t.sacks[i].msn \in DOMAIN t.content
      BY <2>1, <2>4
    <3> QED BY <2>3, <3>3, <3>4, <3>5 DEF Contents
  <2>10. Within(t)
    <3>1. \A i \in 1 .. Len(t.messages) : t.messages[i] <= MaxMsn
      BY <2>5, Sizes
    <3>2. \A i \in 1 .. Len(t.sacks) : t.sacks[i].msn <= MaxMsn
      BY <2>1, <2>4
    <3>3. \A i \in 1 .. Len(t.original) : t.original[i].msn <= MaxMsn
      BY <2>7, Sizes
    <3>4. \A i \in 1 .. Len(t.retrans) : t.retrans[i].msn <= MaxMsn + 1
      BY <2>4 DEF SenderOK, Within
    <3> QED BY <3>1, <3>2, <3>3, <3>4 DEF Within
  <2>11. Awake(t)
    BY <1>2, <2>1, <2>3, <2>4 DEF Awake, Due, Lists
  <2>12. ~UsedUp(t)
    <3>1. ~(t.nextRetrans > MaxMsn + 1)
      BY <2>3, Sizes
    <3>2. \A i \in 1 .. Len(t.unfinished) : ~(t.unfinished[i].msn > MaxMsn)
      BY <2>6, Sizes
    <3> QED BY <3>1, <3>2 DEF UsedUp
  <2> QED BY <2>1, <2>2, <2>3, <2>4, <2>8, <2>9, <2>10, <2>11, <2>12
            DEF SenderOK, Begun, t
<1> QED
  BY <1>1, <1>2

(* A packet that is sent next is one that the receiver can be given. *)
LEMMA CarriesType ==
  ASSUME NEW s, SenderOK(s), NEW msn \in Nat, NEW stripe \in Nat
  PROVE  Carries(s, msn, stripe) \in Int
<1>1. CASE msn \in DOMAIN s.content /\ stripe < Len(s.content[msn])
  <2>1. s.content[msn] \in Seq(Int) /\ stripe + 1 \in 1 .. Len(s.content[msn])
    BY <1>1 DEF SenderOK, Contents
  <2> QED BY <1>1, <2>1 DEF Carries
<1>2. CASE ~(msn \in DOMAIN s.content /\ stripe < Len(s.content[msn]))
  BY <1>2 DEF Carries, None
<1> QED
  BY <1>1, <1>2

LEMMA NextOriginalType ==
  ASSUME NEW s, SenderOK(s), ~UsedUp(s), SendsOriginal(s)
  PROVE  NextOriginal(s) \in Cursors /\ NextOriginal(s).msn <= MaxMsn
<1>1. Lists(s) /\ Within(s)
  BY DEF SenderOK
<1>2. CASE s.original # <<>>
  <2>1. Head(s.original) \in Cursors /\ Head(s.original) = s.original[1]
        /\ 1 \in 1 .. Len(s.original)
    BY <1>1, <1>2, TailAmong DEF Lists
  <2> QED BY <1>1, <1>2, <2>1 DEF NextOriginal, Within
<1>3. CASE s.original = <<>>
  <2>1. Head(s.messages) \in Nat /\ Head(s.messages) = s.messages[1]
        /\ 1 \in 1 .. Len(s.messages)
    BY <1>1, <1>3, TailAmong DEF Lists, SendsOriginal
  <2> QED BY <1>1, <1>3, <2>1, Sizes DEF NextOriginal, Within, Cursors
<1> QED
  BY <1>2, <1>3

LEMMA NextRetransmissionType ==
  ASSUME NEW s, SenderOK(s), ~UsedUp(s), HasData(s), ~SendsOriginal(s)
  PROVE  /\ NextRetransmission(s) \in Resumes
         /\ NextRetransmission(s).msn <= MaxMsn + 1
         /\ s.sacks # <<>>
<1>1. Lists(s) /\ Within(s)
  BY DEF SenderOK
<1>2. s.sacks # <<>>
  BY DEF HasData, SendsOriginal
<1>3. CASE s.retrans # <<>>
  <2>1. Head(s.retrans) \in Resumes /\ Head(s.retrans) = s.retrans[1]
        /\ 1 \in 1 .. Len(s.retrans)
    BY <1>1, <1>3, TailAmong DEF Lists
  <2> QED BY <1>1, <1>2, <1>3, <2>1 DEF NextRetransmission, Within
<1>4. CASE s.retrans = <<>>
  <2>1. Head(s.sacks) \in Requests /\ Head(s.sacks) = s.sacks[1]
        /\ 1 \in 1 .. Len(s.sacks)
    BY <1>1, <1>2, TailAmong DEF Lists
  <2>2. Head(s.sacks).msn \in Nat /\ Head(s.sacks).num \in 1 .. Stripes
        /\ Head(s.sacks).msn <= MaxMsn
    BY <1>1, <2>1 DEF Within, Requests
  <2> QED BY <1>2, <1>4, <2>2, Sizes DEF NextRetransmission, Resumes
<1> QED
  BY <1>3, <1>4

LEMMA NextPacketType ==
  ASSUME NEW s, SenderOK(s), ~UsedUp(s), HasData(s)
  PROVE  NextPacket(s) \in Packets
<1>1. CASE SendsOriginal(s)
  <2> DEFINE c == NextOriginal(s)
  <2>1. c \in Cursors /\ c.msn <= MaxMsn
    BY <1>1, NextOriginalType
  <2> HIDE DEF c
  <2>2. c.msn \in Nat /\ c.stripe \in Nat /\ c.pkt \in Paths
    BY <2>1 DEF Cursors
  <2>3. Carries(s, c.msn, c.stripe) \in Int
    BY <2>2, CarriesType
  <2>4. PacketOf(s, c, Stripes) \in Packets
    BY <2>1, <2>2, <2>3, Sizes DEF PacketOf, Packets
  <2> QED BY <1>1, <2>4 DEF NextPacket, c
<1>2. CASE ~SendsOriginal(s)
  <2> DEFINE c == NextRetransmission(s)
  <2>1. c \in Resumes /\ c.msn <= MaxMsn + 1
    BY <1>2, NextRetransmissionType
  <2> HIDE DEF c
  <2>2. c.msn \in Nat /\ c.stripe \in Nat /\ c.pkt \in Paths /\ c.num \in 1 .. Stripes
    BY <2>1 DEF Resumes
  <2>3. Carries(s, c.msn, c.stripe) \in Int
    BY <2>2, CarriesType
  <2>4. PacketOf(s, c, c.num) \in Packets
    BY <2>1, <2>2, <2>3, Sizes DEF PacketOf, Packets
  <2> QED BY <1>2, <2>4 DEF NextPacket, c
<1> QED
  BY <1>1, <1>2

(* A step of sending: the cursors move on and the lists may lose elements. *)
LEMMA Advances ==
  ASSUME NEW s, SenderOK(s), ~UsedUp(s), HasData(s), s.started, NEW t, IsSender(t),
         t.messages \in Seq(Nat), Among(t.messages, s.messages),
         t.sacks \in Seq(Requests), Among(t.sacks, s.sacks),
         t.unfinished = s.unfinished, t.erased = s.erased, t.content = s.content,
         t.original \in Seq(Cursors), t.retrans \in Seq(Resumes),
         \A i \in 1 .. Len(t.original) : t.original[i].msn <= MaxMsn,
         \A i \in 1 .. Len(t.retrans) : t.retrans[i].msn <= MaxMsn + 1,
         t.nextRetrans \in Nat,
         t.events = s.events, t.windowed = s.windowed, t.started = s.started,
         t.finished = s.finished, t.pending = s.pending
  PROVE  SenderOK(t)
<1>1. Lists(s) /\ Contents(s) /\ Within(s) /\ Awake(s)
  BY DEF SenderOK
<1>2. Lists(t)
  BY <1>1 DEF Lists
<1>3. Contents(t)
  <2>1. \A i \in 1 .. Len(t.sacks) : t.sacks[i].msn \in DOMAIN t.content
    BY <1>1 DEF Contents, Among
  <2> QED BY <1>1, <2>1 DEF Contents
<1>4. Within(t)
  <2>1. \A i \in 1 .. Len(t.messages) : t.messages[i] <= MaxMsn
    BY <1>1 DEF Within, Among
  <2>2. \A i \in 1 .. Len(t.sacks) : t.sacks[i].msn <= MaxMsn
    BY <1>1 DEF Within, Among
  <2> QED BY <2>1, <2>2 DEF Within
<1>5. Awake(t)
  <2>1. s.events \in Nat
    BY <1>1 DEF Lists
  <2> QED BY <1>1, <2>1 DEF Awake, Due
<1> QED
  BY <1>2, <1>3, <1>4, <1>5 DEF SenderOK, Begun

LEMMA OneCursor ==
  ASSUME NEW S, NEW c \in S
  PROVE  <<c>> \in Seq(S) /\ Len(<<c>>) = 1 /\ <<c>>[1] = c
OBVIOUS

LEMMA UpdateOffsetsOK ==
  ASSUME NEW s, SenderOK(s), ~UsedUp(s), HasData(s), s.started,
         NEW cur \in Cursors, cur.msn <= MaxMsn
  PROVE  SenderOK(UpdateOffsets(s, cur)) /\ UpdateOffsets(s, cur).started
<1> DEFINE t == UpdateOffsets(s, cur)
<1>1. IsSender(s) /\ Lists(s) /\ Within(s)
  BY DEF SenderOK
<1>2. IsSender(t)
  BY <1>1 DEF IsSender, UpdateOffsets, SenderFields
<1>3. /\ t.sacks = s.sacks /\ t.unfinished = s.unfinished /\ t.retrans = s.retrans
      /\ t.nextRetrans = s.nextRetrans /\ t.erased = s.erased
      /\ t.content = s.content
      /\ t.events = s.events /\ t.windowed = s.windowed /\ t.started = s.started
      /\ t.finished = s.finished /\ t.pending = s.pending
  BY <1>1, <1>2 DEF IsSender, UpdateOffsets, SenderFields
<1>4. cur.msn \in Nat /\ cur.stripe \in Nat /\ cur.pkt \in Paths
  BY DEF Cursors
<1> DEFINE a == [cur EXCEPT !.pkt = @ + 1]
           b == [cur EXCEPT !.stripe = @ + 1, !.pkt = 0]
           c == [msn |-> Head(Tail(s.messages)), stripe |-> 0, pkt |-> 0]
<1>5. \/ t.messages = s.messages /\ t.original = <<a>> /\ cur.pkt + 1 < Chunk
      \/ t.messages = s.messages /\ t.original = <<b>>
      \/ t.messages = s.messages /\ t.original = s.original
      \/ /\ s.messages # <<>> /\ t.messages = Tail(s.messages)
         /\ t.original = IF Tail(s.messages) = <<>> THEN <<>> ELSE <<c>>
  BY <1>1, <1>2 DEF IsSender, UpdateOffsets, SenderFields
<1>6. cur.pkt + 1 < Chunk => a \in Cursors /\ a.msn <= MaxMsn
  <2>1. a = [msn |-> cur.msn, stripe |-> cur.stripe, pkt |-> cur.pkt + 1]
    BY DEF Cursors
  <2>2. cur.pkt + 1 < Chunk => cur.pkt + 1 \in Paths
    BY <1>4, Sizes DEF Paths
  <2> HIDE DEF a
  <2> QED BY <1>4, <2>1, <2>2 DEF Cursors
<1>7. b \in Cursors /\ b.msn <= MaxMsn
  <2> DEFINE d == [cur EXCEPT !.stripe = @ + 1]
  <2>2. d = [msn |-> cur.msn, stripe |-> cur.stripe + 1, pkt |-> cur.pkt]
    BY DEF Cursors
  <2>3. b = [d EXCEPT !.pkt = 0]
    OBVIOUS
  <2> HIDE DEF d
  <2>1. b = [msn |-> cur.msn, stripe |-> cur.stripe + 1, pkt |-> 0]
    BY <2>2, <2>3
  <2> HIDE DEF b
  <2> QED BY <1>4, <2>1, Sizes DEF Cursors
<1>8. s.messages # <<>> /\ Tail(s.messages) # <<>> => c \in Cursors /\ c.msn <= MaxMsn
  <2> SUFFICES ASSUME s.messages # <<>>, Tail(s.messages) # <<>>
               PROVE  c \in Cursors /\ c.msn <= MaxMsn
    OBVIOUS
  <2>1. Tail(s.messages) \in Seq(Nat) /\ Among(Tail(s.messages), s.messages)
    BY <1>1, TailAmong DEF Lists
  <2>2. Head(Tail(s.messages)) \in Nat /\ Head(Tail(s.messages)) = Tail(s.messages)[1]
        /\ 1 \in 1 .. Len(Tail(s.messages))
    BY <2>1, TailAmong
  <2>3. Head(Tail(s.messages)) <= MaxMsn
    BY <1>1, <2>1, <2>2 DEF Within, Among
  <2> QED BY <2>2, <2>3, Sizes DEF Cursors
<1> HIDE DEF t, a, b, c
<1>9. t.messages \in Seq(Nat) /\ Among(t.messages, s.messages)
  <2>1. s.messages \in Seq(Nat)
    BY <1>1 DEF Lists
  <2>2. s.messages # <<>> => /\ Tail(s.messages) \in Seq(Nat)
                             /\ Among(Tail(s.messages), s.messages)
    BY <2>1, TailAmong
  <2>3. Among(s.messages, s.messages)
    BY <2>1, AmongItself
  <2>4. t.messages = s.messages
        \/ (s.messages # <<>> /\ t.messages = Tail(s.messages))
    BY <1>5
  <2> QED BY <2>1, <2>2, <2>3, <2>4
<1>10. t.original \in Seq(Cursors)
       /\ \A i \in 1 .. Len(t.original) : t.original[i].msn <= MaxMsn
  <2>1. ASSUME NEW d \in Cursors, d.msn <= MaxMsn, t.original = <<d>>
        PROVE  t.original \in Seq(Cursors)
               /\ \A i \in 1 .. Len(t.original) : t.original[i].msn <= MaxMsn
    BY <2>1, OneCursor
  <2>2. CASE t.original = s.original
    BY <1>1, <2>2 DEF Lists, Within
  <2>3. CASE t.original = <<>>
    BY <2>3
  <2> QED BY <1>5, <1>6, <1>7, <1>8, <2>1, <2>2, <2>3
<1>11. /\ s.sacks \in Seq(Requests) /\ Among(s.sacks, s.sacks)
       /\ s.retrans \in Seq(Resumes) /\ s.nextRetrans \in Nat
       /\ \A i \in 1 .. Len(s.retrans) : s.retrans[i].msn <= MaxMsn + 1
  BY <1>1, AmongItself DEF Lists, Within
<1>12. SenderOK(t)
  BY <1>2, <1>3, <1>9, <1>10, <1>11, Advances
<1> QED
  BY <1>3, <1>12 DEF t

LEMMA UpdateRetransOffsetsOK ==
  ASSUME NEW s, SenderOK(s), ~UsedUp(s), HasData(s), s.started, s.sacks # <<>>,
         NEW cur \in Resumes
  PROVE  SenderOK(UpdateRetransOffsets(s, cur)) /\ UpdateRetransOffsets(s, cur).started
<1> DEFINE t == UpdateRetransOffsets(s, cur)
<1>1. IsSender(s) /\ Lists(s) /\ Within(s)
  BY DEF SenderOK
<1>2. IsSender(t)
  BY <1>1 DEF IsSender, UpdateRetransOffsets, SenderFields
<1>3. /\ t.messages = s.messages /\ t.unfinished = s.unfinished
      /\ t.original = s.original /\ t.erased = s.erased /\ t.content = s.content
      /\ t.events = s.events /\ t.windowed = s.windowed /\ t.started = s.started
      /\ t.finished = s.finished /\ t.pending = s.pending
  BY <1>1, <1>2 DEF IsSender, UpdateRetransOffsets, SenderFields
<1>4. /\ cur.msn \in Nat /\ cur.stripe \in Nat /\ cur.pkt \in Paths
      /\ cur.num \in 1 .. Stripes
  BY DEF Resumes
<1>5. s.nextRetrans \in Nat /\ s.nextRetrans <= MaxMsn + 1
  BY <1>1, Sizes DEF Lists, UsedUp
<1> DEFINE rest == Tail(s.sacks)
           a == [cur EXCEPT !.msn = s.nextRetrans, !.pkt = @ + 1]
           b == [cur EXCEPT !.msn = s.nextRetrans, !.stripe = @ + 1, !.pkt = 0]
           c == [msn |-> Head(rest).msn, stripe |-> 0, pkt |-> 0,
                 num |-> Head(rest).num]
<1>6. \/ /\ t.sacks = s.sacks /\ t.nextRetrans = s.nextRetrans
         /\ t.retrans = <<a>> /\ cur.pkt + 1 < Chunk
      \/ t.sacks = s.sacks /\ t.nextRetrans = s.nextRetrans /\ t.retrans = <<b>>
      \/ t.sacks = rest /\ t.nextRetrans = s.nextRetrans + 1 /\ t.retrans = <<>>
      \/ /\ rest # <<>> /\ t.sacks = rest /\ t.nextRetrans = Head(rest).msn
         /\ t.retrans = <<c>>
  BY <1>1, <1>2 DEF IsSender, UpdateRetransOffsets, SenderFields
<1>7. cur.pkt + 1 < Chunk => a \in Resumes /\ a.msn <= MaxMsn + 1
  <2> DEFINE d == [cur EXCEPT !.msn = s.nextRetrans]
  <2>3. d = [msn |-> s.nextRetrans, stripe |-> cur.stripe, pkt |-> cur.pkt,
             num |-> cur.num]
    BY DEF Resumes
  <2>4. a = [d EXCEPT !.pkt = cur.pkt + 1]
    OBVIOUS
  <2> HIDE DEF d
  <2>1. a = [msn |-> s.nextRetrans, stripe |-> cur.stripe, pkt |-> cur.pkt + 1,
             num |-> cur.num]
    BY <2>3, <2>4
  <2>2. cur.pkt + 1 < Chunk => cur.pkt + 1 \in Paths
    BY <1>4, Sizes, SMTT(20) DEF Paths
  <2> HIDE DEF a
  <2> QED BY <1>4, <1>5, <2>1, <2>2 DEF Resumes
<1>8. b \in Resumes /\ b.msn <= MaxMsn + 1
  <2> DEFINE d == [cur EXCEPT !.msn = s.nextRetrans]
             e == [d EXCEPT !.stripe = cur.stripe + 1]
  <2>2. d = [msn |-> s.nextRetrans, stripe |-> cur.stripe, pkt |-> cur.pkt,
             num |-> cur.num]
    BY DEF Resumes
  <2>3. b = [e EXCEPT !.pkt = 0]
    OBVIOUS
  <2> HIDE DEF d
  <2>4. e = [msn |-> s.nextRetrans, stripe |-> cur.stripe + 1, pkt |-> cur.pkt,
             num |-> cur.num]
    BY <2>2
  <2> HIDE DEF e
  <2>1. b = [msn |-> s.nextRetrans, stripe |-> cur.stripe + 1, pkt |-> 0,
             num |-> cur.num]
    BY <2>3, <2>4
  <2> HIDE DEF b
  <2> QED BY <1>4, <1>5, <2>1, Sizes, SMTT(20) DEF Resumes
<1>9. rest \in Seq(Requests) /\ Among(rest, s.sacks)
  BY <1>1, TailAmong DEF Lists
<1>10. rest # <<>> => Head(rest).msn \in Nat /\ c \in Resumes /\ c.msn <= MaxMsn + 1
  <2> SUFFICES ASSUME rest # <<>>
               PROVE  Head(rest).msn \in Nat /\ c \in Resumes /\ c.msn <= MaxMsn + 1
    OBVIOUS
  <2>1. Head(rest) \in Requests /\ Head(rest) = rest[1] /\ 1 \in 1 .. Len(rest)
    BY <1>9, TailAmong
  <2>2. Head(rest).msn <= MaxMsn
    BY <1>1, <1>9, <2>1 DEF Within, Among
  <2>3. Head(rest).msn \in Nat /\ Head(rest).num \in 1 .. Stripes
    BY <2>1 DEF Requests
  <2> HIDE DEF rest
  <2> QED BY <2>2, <2>3, Sizes DEF Resumes
<1> HIDE DEF t, a, b, c, rest
<1>11. t.sacks \in Seq(Requests) /\ Among(t.sacks, s.sacks) /\ t.nextRetrans \in Nat
  BY <1>1, <1>5, <1>6, <1>9, <1>10, AmongItself DEF Lists
<1>12. t.retrans \in Seq(Resumes)
       /\ \A i \in 1 .. Len(t.retrans) : t.retrans[i].msn <= MaxMsn + 1
  <2>1. ASSUME NEW d \in Resumes, d.msn <= MaxMsn + 1, t.retrans = <<d>>
        PROVE  t.retrans \in Seq(Resumes)
               /\ \A i \in 1 .. Len(t.retrans) : t.retrans[i].msn <= MaxMsn + 1
    BY <2>1, OneCursor
  <2>2. CASE t.retrans = <<>>
    BY <2>2
  <2> QED BY <1>6, <1>7, <1>8, <1>10, <2>1, <2>2
<1>13. /\ s.messages \in Seq(Nat) /\ Among(s.messages, s.messages)
       /\ s.original \in Seq(Cursors)
       /\ \A i \in 1 .. Len(s.original) : s.original[i].msn <= MaxMsn
  BY <1>1, AmongItself DEF Lists, Within
<1>14. SenderOK(t)
  BY <1>2, <1>3, <1>11, <1>12, <1>13, Advances
<1> QED
  BY <1>3, <1>14 DEF t

LEMMA SendNextPacketOK ==
  ASSUME NEW s, SenderOK(s), ~UsedUp(s), HasData(s), s.started
  PROVE  SenderOK(SendNextPacket(s)) /\ SendNextPacket(s).started
<1> DEFINE c == Count(s, 1)
<1>1. SenderOK(c) /\ ~UsedUp(c) /\ HasData(c) /\ c.started /\ c.sacks = s.sacks
  BY CountOK DEF HasData
<1> HIDE DEF c
<1>2. CASE SendsOriginal(s)
  <2>1. SenderOK(UpdateOffsets(c, NextOriginal(s)))
        /\ UpdateOffsets(c, NextOriginal(s)).started
    BY <1>1, <1>2, NextOriginalType, UpdateOffsetsOK
  <2> QED BY <1>2, <2>1 DEF SendNextPacket, c
<1>3. CASE ~SendsOriginal(s)
  <2>1. SenderOK(UpdateRetransOffsets(c, NextRetransmission(s)))
        /\ UpdateRetransOffsets(c, NextRetransmission(s)).started
    BY <1>1, <1>3, NextRetransmissionType, UpdateRetransOffsetsOK
  <2> QED BY <1>3, <2>1 DEF SendNextPacket, c
<1> QED
  BY <1>2, <1>3

(* Answers and timeouts. *)
Longer(t, l, e) ==
  /\ Len(l) \in Nat /\ Len(t) = Len(l) + 1 /\ t # <<>>
  /\ \A i \in 1 .. Len(l) : t[i] = l[i]
  /\ t[Len(l) + 1] = e
  /\ \A i \in 1 .. Len(t) : t[i] = e \/ (i \in 1 .. Len(l) /\ t[i] = l[i])

LEMMA AppendLonger ==
  ASSUME NEW S, NEW l \in Seq(S), NEW e \in S, NEW t, t = Append(l, e)
  PROVE  t \in Seq(S) /\ Longer(t, l, e)
<1>1. /\ t \in Seq(S) /\ Len(t) = Len(l) + 1
      /\ \A i \in 1 .. Len(l) : t[i] = l[i]
      /\ t[Len(l) + 1] = e /\ Len(l) \in Nat
  OBVIOUS
<1>2. \A i \in 1 .. Len(l) + 1 : i \in 1 .. Len(l) \/ i = Len(l) + 1
  BY <1>1
<1>3. t # <<>>
  BY <1>1
<1> QED
  BY <1>1, <1>2, <1>3 DEF Longer

LEMMA EraseMessageOK ==
  ASSUME NEW s, SenderOK(s), ~UsedUp(s), NEW msn \in Nat
  PROVE  LET t == EraseMessage(s, msn)
         IN  SenderOK(t) /\ ~UsedUp(t) /\ t.started = s.started
<1> DEFINE t == EraseMessage(s, msn)
<1>1. IsSender(s) /\ Lists(s)
  BY DEF SenderOK
<1>2. IsSender(t)
  BY <1>1 DEF IsSender, EraseMessage, SenderFields
<1>3. /\ t.original = s.original /\ t.retrans = s.retrans
      /\ t.nextRetrans = s.nextRetrans /\ t.erased = msn /\ t.content = s.content
      /\ t.events = s.events /\ t.windowed = s.windowed /\ t.started = s.started
      /\ t.finished = s.finished /\ t.pending = s.pending
      /\ t.messages = RemoveFirst(s.messages, msn)
      /\ t.unfinished = Without(s.unfinished, msn)
      /\ t.sacks = Without(s.sacks, msn)
  BY <1>1, <1>2 DEF IsSender, EraseMessage, SenderFields
<1> HIDE DEF t
<1>4. t.messages \in Seq(Nat) /\ Among(t.messages, s.messages)
  BY <1>1, <1>3, RemoveFirstAmong DEF Lists
<1>5. t.unfinished \in Seq(Entries) /\ Among(t.unfinished, s.unfinished)
  BY <1>1, <1>3, WithoutAmong DEF Lists
<1>6. t.sacks \in Seq(Requests) /\ Among(t.sacks, s.sacks)
  BY <1>1, <1>3, WithoutAmong DEF Lists
<1>7. SenderOK(t) /\ ~UsedUp(t)
  BY <1>2, <1>3, <1>4, <1>5, <1>6, Shrinks
<1> QED
  BY <1>3, <1>7 DEF t

LEMMA AddRetransmissionOK ==
  ASSUME NEW s, SenderOK(s), s.started, NEW back \in Nat, NEW orig \in Int,
         NEW num \in 1 .. Stripes, NEW stripes \in Seq(Int)
  PROVE  LET t == AddRetransmission(s, back, orig, num, stripes)
         IN  SenderOK(t) /\ t.started /\ HasData(t)
<1> DEFINE t == AddRetransmission(s, back, orig, num, stripes)
           new == back + 1
           request == [msn |-> new, num |-> num]
           entry == [msn |-> new, orig |-> orig, num |-> num]
<1>1. IsSender(s) /\ Lists(s) /\ Contents(s) /\ Within(s) /\ Awake(s)
  BY DEF SenderOK
<1>2. IsSender(t)
  BY <1>1, ZenonT(60) DEF IsSender, AddRetransmission, Schedule, SenderFields
<1>3. /\ t.sacks = Append(s.sacks, request)
      /\ t.unfinished = Append(s.unfinished, entry)
      /\ t.content = [m \in DOMAIN s.content \cup {new} |->
                        IF m = new THEN stripes ELSE s.content[m]]
      /\ t.events = IF HasData(s) \/ s.windowed THEN s.events ELSE s.events + 1
  BY <1>1, <1>2 DEF IsSender, AddRetransmission, Schedule, SenderFields
<1>4. /\ t.messages = s.messages /\ t.original = s.original /\ t.retrans = s.retrans
      /\ t.nextRetrans = s.nextRetrans /\ t.erased = s.erased
      /\ t.windowed = s.windowed /\ t.started = s.started
      /\ t.finished = s.finished /\ t.pending = s.pending
  BY <1>1, <1>2 DEF IsSender, AddRetransmission, Schedule, SenderFields
<1>5. /\ s.messages \in Seq(Nat) /\ s.sacks \in Seq(Requests)
      /\ s.unfinished \in Seq(Entries) /\ s.events \in Nat
      /\ s.original \in Seq(Cursors) /\ s.retrans \in Seq(Resumes)
      /\ s.nextRetrans \in Nat /\ s.erased \in Nat
  BY <1>1 DEF Lists
<1>6. new \in Nat /\ request \in Requests /\ entry \in Entries
      /\ request.msn = new /\ entry.msn = new
  BY DEF Requests, Entries
<1> HIDE DEF t, new, request, entry
<1>7. t.sacks \in Seq(Requests) /\ Longer(t.sacks, s.sacks, request)
  BY <1>3, <1>5, <1>6, AppendLonger
<1>8. t.unfinished \in Seq(Entries) /\ Longer(t.unfinished, s.unfinished, entry)
  BY <1>3, <1>5, <1>6, AppendLonger
<1>9. Lists(t)
  BY <1>3, <1>4, <1>5, <1>7, <1>8 DEF Lists
<1>10. Contents(t)
  <2>1. DOMAIN t.content = DOMAIN s.content \cup {new}
        /\ t.content = [m \in DOMAIN t.content |-> t.content[m]]
    BY <1>3
  <2>2. \A m \in DOMAIN t.content : t.content[m] \in Seq(Int)
    BY <1>1, <1>3 DEF Contents
  <2>3. \A i \in 1 .. Len(t.sacks) : t.sacks[i].msn \in DOMAIN t.content
    BY <1>1, <1>6, <1>7, <2>1 DEF Contents, Longer
  <2>4. \A i \in 1 .. Len(t.unfinished) : t.unfinished[i].msn \in DOMAIN t.content
    BY <1>1, <1>6, <1>8, <2>1 DEF Contents, Longer
  <2> QED BY <2>1, <2>2, <2>3, <2>4 DEF Contents
<1>11. Within(t)
  <2>1. CASE UsedUp(s)
    <3>1. UsedUp(t)
      <4>1. CASE s.nextRetrans > MaxMsn + 1
        BY <1>4, <4>1 DEF UsedUp
      <4>2. ASSUME NEW i \in 1 .. Len(s.unfinished), s.unfinished[i].msn > MaxMsn
            PROVE  UsedUp(t)
        <5>1. i \in 1 .. Len(t.unfinished) /\ t.unfinished[i].msn > MaxMsn
          BY <1>8, <4>2 DEF Longer
        <5> QED BY <5>1 DEF UsedUp
      <4> QED BY <2>1, <4>1, <4>2 DEF UsedUp
    <3> QED BY <3>1 DEF Within
  <2>2. CASE ~UsedUp(s) /\ new <= MaxMsn
    <3>1. \A i \in 1 .. Len(t.sacks) : t.sacks[i].msn <= MaxMsn
      BY <1>1, <1>6, <1>7, <2>2 DEF Within, Longer
    <3> QED BY <1>1, <1>4, <2>2, <3>1 DEF Within
  <2>3. CASE ~(new <= MaxMsn)
    <3>1. Len(s.unfinished) + 1 \in 1 .. Len(t.unfinished)
          /\ t.unfinished[Len(s.unfinished) + 1].msn > MaxMsn
      BY <1>6, <1>8, <2>3, Sizes DEF Longer
    <3>2. UsedUp(t)
      BY <3>1 DEF UsedUp
    <3> QED BY <3>2 DEF Within
  <2> QED BY <2>1, <2>2, <2>3
<1>12. HasData(t)
  BY <1>7 DEF HasData, Longer
<1>13. Awake(t)
  BY <1>1, <1>3, <1>4, <1>5, <1>12, SMTT(20) DEF Awake, Due
<1> QED
  BY <1>2, <1>4, <1>9, <1>10, <1>11, <1>12, <1>13 DEF SenderOK, Begun, t

LEMMA BackMsnsType ==
  ASSUME NEW s, SenderOK(s)
  PROVE  BackMsns(s) \subseteq Nat
<1>1. Lists(s)
  BY DEF SenderOK
<1>2. CASE s.unfinished # <<>>
  <2>1. /\ s.unfinished \in Seq(Entries)
        /\ Len(s.unfinished) \in 1 .. Len(s.unfinished)
    BY <1>1, <1>2 DEF Lists
  <2>2. s.unfinished[Len(s.unfinished)] \in Entries
    BY <2>1
  <2>3. s.unfinished[Len(s.unfinished)].msn \in Nat
    BY <2>2 DEF Entries
  <2> QED BY <1>2, <2>3 DEF BackMsns, Last
<1>3. CASE s.unfinished = <<>>
  BY <1>1, <1>3 DEF BackMsns, Lists
<1> QED
  BY <1>2, <1>3

LEMMA ProcessSackOK ==
  ASSUME NEW s, SenderOK(s), ~UsedUp(s), s.started, NEW pk \in Answers,
         NEW t \in ProcessSack(s, pk)
  PROVE  SenderOK(t) /\ t.started
<1> DEFINE reduced == IF s.perPath THEN ReduceUnacked(s, Chunk) ELSE s
           known   == IF HasMsn(s.unfinished, pk.msn)
                      THEN EraseMessage(reduced, pk.msn) ELSE reduced
           stripes == [i \in 1 .. Len(pk.missing) |-> Carries(s, pk.msn, pk.missing[i])]
           after   == IF pk.missing = <<>> THEN {known}
                      ELSE {AddRetransmission(known, back, pk.msn, Len(pk.missing), stripes)
                              : back \in BackMsns(known)}
<1>1. pk.msn \in Nat /\ pk.missing \in Seq(Nat) /\ Len(pk.missing) <= Stripes
  BY DEF Answers, Offsets
<1>2. SenderOK(reduced) /\ ~UsedUp(reduced) /\ reduced.started
  BY ReduceUnackedOK
<1> HIDE DEF reduced
<1>3. SenderOK(known) /\ known.started
  BY <1>1, <1>2, EraseMessageOK
<1> HIDE DEF known
<1>4. stripes \in Seq(Int)
  <2>1. \A i \in 1 .. Len(pk.missing) : Carries(s, pk.msn, pk.missing[i]) \in Int
    <3>1. ASSUME NEW i \in 1 .. Len(pk.missing)
          PROVE  Carries(s, pk.msn, pk.missing[i]) \in Int
      <4>1. pk.missing[i] \in Nat
        BY <1>1
      <4> QED BY <1>1, <4>1, CarriesType
    <3> QED BY <3>1
  <2> QED BY <1>1, <2>1
<1> HIDE DEF stripes
<1>5. \A n \in after : SenderOK(n) /\ n.started
  <2>1. CASE pk.missing = <<>>
    BY <1>3, <2>1
  <2>2. CASE pk.missing # <<>>
    <3>1. Len(pk.missing) \in 1 .. Stripes
      BY <1>1, <2>2, Sizes
    <3>2. \A back \in BackMsns(known) :
            LET n == AddRetransmission(known, back, pk.msn, Len(pk.missing), stripes)
            IN  SenderOK(n) /\ n.started
      <4>1. BackMsns(known) \subseteq Nat /\ pk.msn \in Int
        BY <1>1, <1>3, BackMsnsType
      <4> QED BY <1>3, <1>4, <3>1, <4>1, AddRetransmissionOK
    <3> QED BY <2>2, <3>2
  <2> QED BY <2>1, <2>2
<1>6. t \in {IF n.unfinished = <<>> /\ ~HasData(n) THEN FinishFlow(n) ELSE n : n \in after}
  BY DEF ProcessSack, reduced, known, stripes
<1> HIDE DEF after
<1>7. PICK n \in after : t = n \/ t = FinishFlow(n)
  BY <1>6
<1> QED
  BY <1>5, <1>7, FinishFlowOK

(* restartFlow: the unfinished messages are numbered from 0. *)
LEMMA RestartFlowOK ==
  ASSUME NEW s, SenderOK(s), s.started
  PROVE  SenderOK(RestartFlow(s)) /\ RestartFlow(s).started
<1> DEFINE t == RestartFlow(s)
           n == Len(s.unfinished)
           again(i) == [msn |-> i - 1, orig |-> None, num |-> s.unfinished[i].num]
<1>1. IsSender(s) /\ Lists(s) /\ Contents(s) /\ Awake(s)
  BY DEF SenderOK
<1>2. CASE s.unfinished = <<>>
  BY <1>2, FinishFlowOK DEF RestartFlow
<1>3. CASE s.unfinished # <<>>
  <2> DEFINE us == [i \in 1 .. n |-> again(i)]
             ms == [i \in 1 .. n |-> i - 1]
             cs == [m \in 0 .. n - 1 |-> s.content[s.unfinished[m + 1].msn]]
             os == <<[msn |-> 0, stripe |-> 0, pkt |-> 0]>>
             w  == IF s.perPath THEN StartWindow[TRUE] ELSE s.cwnd
             r  == [s EXCEPT !.unfinished = us, !.messages = ms, !.content = cs,
                             !.original = os, !.retrans = <<>>, !.sacks = <<>>,
                             !.nextRetrans = n, !.unacked = 0, !.cwnd = w]
  <2>a. t = Schedule(r)
    BY <1>3 DEF RestartFlow
  <2> HIDE DEF t, us, ms, cs, os, w, n
  <2>b. IsSender(r)
    BY <1>1 DEF IsSender, SenderFields
  <2>c. /\ r.unfinished = us /\ r.messages = ms /\ r.content = cs /\ r.original = os
        /\ r.retrans = <<>> /\ r.sacks = <<>> /\ r.nextRetrans = n
        /\ r.events = s.events
        /\ r.windowed = s.windowed /\ r.started = s.started /\ r.erased = s.erased
        /\ r.finished = s.finished /\ r.pending = s.pending
    BY <1>1, <2>b DEF IsSender, SenderFields
  <2> HIDE DEF r
  <2>1. IsSender(t)
    BY <2>a, <2>b DEF IsSender, Schedule, SenderFields
  <2>2. /\ t.unfinished = [i \in 1 .. n |-> again(i)]
        /\ t.messages = [i \in 1 .. n |-> i - 1]
        /\ t.content = [m \in 0 .. n - 1 |-> s.content[s.unfinished[m + 1].msn]]
        /\ t.original = <<[msn |-> 0, stripe |-> 0, pkt |-> 0]>>
        /\ t.retrans = <<>> /\ t.sacks = <<>> /\ t.nextRetrans = n
    <3>1. /\ t.unfinished = r.unfinished /\ t.messages = r.messages
          /\ t.content = r.content /\ t.original = r.original
          /\ t.retrans = r.retrans /\ t.sacks = r.sacks
          /\ t.nextRetrans = r.nextRetrans
      BY <2>a, <2>b, <2>1 DEF IsSender, Schedule, SenderFields
    <3> QED BY <2>c, <3>1 DEF us, ms, cs, os
  <2>3. /\ t.events = IF s.windowed THEN s.events ELSE s.events + 1
        /\ t.windowed = s.windowed /\ t.started = s.started /\ t.erased = s.erased
        /\ t.finished = s.finished /\ t.pending = s.pending
    <3>1. /\ t.events = IF r.windowed THEN r.events ELSE r.events + 1
          /\ t.windowed = r.windowed /\ t.started = r.started
          /\ t.erased = r.erased
          /\ t.finished = r.finished /\ t.pending = r.pending
      BY <2>a, <2>b, <2>1 DEF IsSender, Schedule, SenderFields
    <3> QED BY <2>c, <3>1
  <2>4. /\ s.unfinished \in Seq(Entries) /\ n \in Nat /\ n >= 1
        /\ s.events \in Nat /\ s.erased \in Nat
    BY <1>1, <1>3 DEF Lists, n
  <2>5. \A i \in 1 .. n : s.unfinished[i].num \in 1 .. Stripes
    <3>1. \A i \in 1 .. n : s.unfinished[i] \in Entries
      BY <2>4 DEF n
    <3> QED BY <3>1 DEF Entries
  <2>6. \A i \in 1 .. n : again(i) \in Entries /\ again(i).msn = i - 1
    BY <2>4, <2>5 DEF Entries, None
  <2> HIDE DEF again
  <2>7. /\ t.unfinished \in Seq(Entries) /\ Len(t.unfinished) = n
        /\ \A i \in 1 .. n : t.unfinished[i].msn = i - 1
    BY <2>2, <2>4, <2>6
  <2>8. /\ t.messages \in Seq(Nat) /\ Len(t.messages) = n
        /\ \A i \in 1 .. n : t.messages[i] = i - 1
    BY <2>2, <2>4
  <2>9. /\ t.original \in Seq(Cursors) /\ Len(t.original) = 1
        /\ t.original[1].msn = 0
    <3>1. [msn |-> 0, stripe |-> 0, pkt |-> 0] \in Cursors
      BY Sizes DEF Cursors
    <3> QED BY <2>2, <3>1
  <2>10. Lists(t)
    BY <2>2, <2>3, <2>4, <2>7, <2>8, <2>9 DEF Lists
  <2>11. Contents(t)
    <3>1. DOMAIN t.content = 0 .. n - 1
          /\ t.content = [m \in DOMAIN t.content |-> t.content[m]]
      BY <2>2
    <3>2. \A m \in 0 .. n - 1 : t.content[m] \in Seq(Int)
      <4>1. ASSUME NEW m \in 0 .. n - 1
            PROVE  t.content[m] \in Seq(Int)
        <5>1. m + 1 \in 1 .. n
          BY <2>4
        <5>2. s.unfinished[m + 1].msn \in DOMAIN s.content
          BY <1>1, <5>1 DEF Contents, n
        <5> QED BY <1>1, <2>2, <5>2 DEF Contents
      <4> QED BY <4>1
    <3>3. \A i \in 1 .. Len(t.unfinished) : t.unfinished[i].msn \in DOMAIN t.content
      BY <2>4, <2>7, <3>1
    <3>4. \A i \in 1 .. Len(t.sacks) : t.sacks[i].msn \in DOMAIN t.content
      BY <2>2
    <3> QED BY <3>1, <3>2, <3>3, <3>4 DEF Contents
  <2>12. Within(t)
    <3>1. CASE n - 1 > MaxMsn
      <4>1. n \in 1 .. Len(t.unfinished) /\ t.unfinished[n].msn > MaxMsn
        BY <2>4, <2>7, <3>1
      <4>2. UsedUp(t)
        BY <4>1 DEF UsedUp
      <4> QED BY <4>2 DEF Within
    <3>2. CASE ~(n - 1 > MaxMsn)
      <4>1. \A i \in 1 .. Len(t.messages) : t.messages[i] <= MaxMsn
        BY <2>4, <2>8, <3>2, Sizes
      <4>2. \A i \in 1 .. Len(t.original) : t.original[i].msn <= MaxMsn
        BY <2>9, Sizes
      <4>3. /\ \A i \in 1 .. Len(t.retrans) : t.retrans[i].msn <= MaxMsn + 1
            /\ \A i \in 1 .. Len(t.sacks) : t.sacks[i].msn <= MaxMsn
        BY <2>2
      <4> QED BY <4>1, <4>2, <4>3 DEF Within
    <3> QED BY <3>1, <3>2
  <2>13. Awake(t)
    BY <1>1, <2>3, <2>4 DEF Awake, Due
  <2> QED BY <2>1, <2>3, <2>10, <2>11, <2>12, <2>13 DEF SenderOK, Begun, t
<1> QED
  BY <1>2, <1>3

(* SACKTimeOut: the first unfinished message is queued again. *)
LEMMA SackTimeoutOK ==
  ASSUME NEW s, SenderOK(s), ~UsedUp(s), s.started, NEW t \in SackTimeout(s)
  PROVE  SenderOK(t) /\ t.started
<1>1. IsSender(s) /\ Lists(s) /\ Contents(s)
  BY DEF SenderOK
<1>2. CASE s.unfinished = <<>>
  BY <1>2 DEF SackTimeout
<1>3. CASE s.unfinished # <<>>
  <2> DEFINE front  == Head(s.unfinished)
             inList == Contains(s.messages, front.msn)
             rest   == [s EXCEPT !.unfinished = Tail(@), !.erased = front.msn,
                                 !.messages = RemoveFirst(@, front.msn)]
             num(m)     == IF m # 0 THEN s.sacks[m].num
                           ELSE IF inList THEN Stripes ELSE front.num
             label(m)   == IF m # 0 \/ inList THEN front.msn ELSE Unknown
             stripes(m) == s.content[IF m # 0 THEN s.sacks[m].msn ELSE front.msn]
             taken(m)   == IF m = 0 THEN rest
                           ELSE [rest EXCEPT !.sacks = RemoveAt(@, m)]
             added(m, b) == AddRetransmission(taken(m), b, label(m), num(m), stripes(m))
  <2>1. \E m \in TimeoutMatches(s, front), b \in BackMsns(rest) :
          t = ReduceUnacked(added(m, b), num(m) * Chunk)
    <3>1. PICK m \in TimeoutMatches(s, Head(s.unfinished)), b \in BackMsns(DropFirst(s)) :
                 t = TimeoutOutcome(s, m, b)
      BY <1>3 DEF SackTimeout
    <3>2. rest = DropFirst(s)
      BY DEF DropFirst
    <3>3. TimeoutOutcome(s, m, b) = ReduceUnacked(added(m, b), num(m) * Chunk)
      BY DEF TimeoutOutcome, DropFirst
    <3> HIDE DEF added, num, rest
    <3> QED BY <3>1, <3>2, <3>3
  <2>2. /\ s.unfinished \in Seq(Entries) /\ s.sacks \in Seq(Requests)
        /\ s.messages \in Seq(Nat)
    BY <1>1 DEF Lists
  <2>3. /\ Tail(s.unfinished) \in Seq(Entries) /\ Among(Tail(s.unfinished), s.unfinished)
        /\ front \in Entries /\ front = s.unfinished[1]
        /\ 1 \in 1 .. Len(s.unfinished)
    BY <1>3, <2>2, TailAmong
  <2>4. front.msn \in Nat /\ front.num \in 1 .. Stripes
        /\ front.msn \in DOMAIN s.content
    BY <1>1, <2>3 DEF Entries, Contents
  <2> HIDE DEF front
  <2>5. IsSender(rest)
    BY <1>1 DEF IsSender, SenderFields
  <2>6. /\ rest.original = s.original /\ rest.retrans = s.retrans
        /\ rest.nextRetrans = s.nextRetrans /\ rest.erased = front.msn
        /\ rest.content = s.content /\ rest.sacks = s.sacks
        /\ rest.events = s.events /\ rest.windowed = s.windowed
        /\ rest.started = s.started
        /\ rest.finished = s.finished /\ rest.pending = s.pending
        /\ rest.messages = RemoveFirst(s.messages, front.msn)
        /\ rest.unfinished = Tail(s.unfinished)
    BY <1>1, <2>5 DEF IsSender, SenderFields
  <2> HIDE DEF rest
  <2>7. rest.messages \in Seq(Nat) /\ Among(rest.messages, s.messages)
    BY <2>2, <2>6, RemoveFirstAmong
  <2>8. s.sacks \in Seq(Requests) /\ Among(s.sacks, s.sacks)
    BY <2>2, AmongItself
  <2>9. SenderOK(rest) /\ ~UsedUp(rest)
    BY <2>3, <2>4, <2>5, <2>6, <2>7, <2>8, Shrinks DEF front
  <2>10. ASSUME NEW m \in 0 .. Len(s.sacks)
         PROVE  SenderOK(taken(m)) /\ taken(m).started
    <3>1. CASE m = 0
      BY <2>6, <2>9, <3>1
    <3>2. CASE m # 0
      <4> DEFINE u == [rest EXCEPT !.sacks = RemoveAt(@, m)]
      <4>1. IsSender(u)
        BY <2>5 DEF IsSender, SenderFields
      <4>2. /\ u.original = rest.original /\ u.retrans = rest.retrans
            /\ u.nextRetrans = rest.nextRetrans /\ u.erased = rest.erased
            /\ u.content = rest.content /\ u.events = rest.events
            /\ u.windowed = rest.windowed /\ u.started = rest.started
            /\ u.finished = rest.finished /\ u.pending = rest.pending
            /\ u.messages = rest.messages /\ u.unfinished = rest.unfinished
            /\ u.sacks = RemoveAt(rest.sacks, m)
        BY <2>5, <4>1 DEF IsSender, SenderFields
      <4> HIDE DEF u
      <4>3. /\ rest.messages \in Seq(Nat) /\ Among(rest.messages, rest.messages)
            /\ rest.unfinished \in Seq(Entries)
            /\ Among(rest.unfinished, rest.unfinished) /\ rest.erased \in Nat
        BY <2>3, <2>4, <2>6, <2>7, AmongItself
      <4>4. m \in 1 .. Len(rest.sacks) /\ rest.sacks \in Seq(Requests)
        BY <2>2, <2>6, <3>2
      <4>5. u.sacks \in Seq(Requests) /\ Among(u.sacks, rest.sacks)
        BY <4>2, <4>4, RemoveAtAmong
      <4>6. SenderOK(u)
        BY <2>9, <4>1, <4>2, <4>3, <4>5, Shrinks
      <4> QED BY <2>6, <3>2, <4>2, <4>6 DEF u
    <3> QED BY <3>1, <3>2
  <2>11. ASSUME NEW m \in 0 .. Len(s.sacks)
         PROVE  num(m) \in 1 .. Stripes /\ label(m) \in Int /\ stripes(m) \in Seq(Int)
    <3>1. m # 0 => /\ s.sacks[m].num \in 1 .. Stripes
                   /\ s.sacks[m].msn \in DOMAIN s.content
      <4>1. m # 0 => m \in 1 .. Len(s.sacks) /\ s.sacks[m] \in Requests
        BY <2>2
      <4> QED BY <1>1, <4>1 DEF Requests, Contents
    <3>2. num(m) \in 1 .. Stripes
      BY <2>4, <3>1, Sizes
    <3>3. label(m) \in Int
      BY <2>4 DEF Unknown
    <3>4. stripes(m) \in Seq(Int)
      BY <1>1, <2>4, <3>1 DEF Contents
    <3> QED BY <3>2, <3>3, <3>4
  <2>12. TimeoutMatches(s, front) \subseteq 0 .. Len(s.sacks)
    <3> DEFINE I == {i \in 1 .. Len(s.sacks) : s.sacks[i].msn = front.orig}
               i0 == SelectInSeq(s.sacks, LAMBDA e : e.msn = front.orig)
    <3>1. i0 = IF I # {} THEN Min(I) ELSE 0
      BY DEF SelectInSeq
    <3>2. I \in SUBSET Nat
      OBVIOUS
    <3>3. Len(s.sacks) \in Nat
      BY <2>2
    <3>4. i0 \in 0 .. Len(s.sacks)
      <4>1. I # {} => Min(I) \in I
        BY <3>2, MinIn
      <4> QED BY <3>1, <3>3, <4>1
    <3> HIDE DEF I, i0
    <3>5. \/ TimeoutMatches(s, front) = {0}
          \/ TimeoutMatches(s, front) = 0 .. Len(s.sacks)
          \/ TimeoutMatches(s, front) = {i0}
      BY DEF TimeoutMatches, i0
    <3> QED BY <3>3, <3>4, <3>5
  <2>13. PICK m \in 0 .. Len(s.sacks), b \in BackMsns(rest) :
           t = ReduceUnacked(added(m, b), num(m) * Chunk)
    BY <2>1, <2>12
  <2>14. b \in Nat
    BY <2>9, BackMsnsType
  <2>15. /\ SenderOK(taken(m)) /\ taken(m).started
         /\ num(m) \in 1 .. Stripes /\ label(m) \in Int /\ stripes(m) \in Seq(Int)
    BY <2>10, <2>11
  <2> HIDE DEF num, label, stripes, taken
  <2>16. SenderOK(added(m, b)) /\ added(m, b).started
    BY <2>14, <2>15, AddRetransmissionOK
  <2> HIDE DEF added
  <2> QED BY <2>13, <2>16, ReduceUnackedOK
<1> QED
  BY <1>2, <1>3

-----------------------------------------------------------------------------
(* The receiver: its bitmaps and expected stripes. *)
LEMMA SinkMin == ASSUME NEW S PROVE Sink!Min(S) = Min(S)
BY DEF Sink!Min, Min

LEMMA SinkMax == ASSUME NEW S PROVE Sink!Max(S) = Max(S)
BY DEF Sink!Max, Max

LEMMA SinkPaths == Sink!AllPaths = Paths /\ Sink!Width = Chunk
BY DEF Sink!AllPaths, Sink!Width, Paths, Chunk

LEMMA GlobalMinOK ==
  ASSUME NEW k, Positions(k)
  PROVE  /\ Sink!GlobalMin(k) \in Nat
         /\ \E p \in Paths : Sink!GlobalMin(k) = k.epsn[p]
         /\ \A p \in Paths : Sink!GlobalMin(k) <= k.epsn[p]
<1> DEFINE S == {k.epsn[p] : p \in Paths}
<1>1. k.epsn \in [Paths -> Nat]
  BY DEF Positions
<1>2. S \in SUBSET Nat /\ S # {}
  BY <1>1, Sizes
<1>3. Min(S) \in S /\ \A q \in S : Min(S) <= q
  BY <1>2, MinIn
<1>4. Sink!GlobalMin(k) = Min(S)
  BY SinkMin, SinkPaths DEF Sink!GlobalMin
<1> HIDE DEF S
<1>5. Sink!GlobalMin(k) \in S /\ \A q \in S : Sink!GlobalMin(k) <= q
  BY <1>3, <1>4
<1> QED
  BY <1>1, <1>2, <1>5 DEF S

LEMMA LimitOK ==
  ASSUME NEW k, Positions(k)
  PROVE  /\ Sink!Limit(k) \in Nat
         /\ \A x \in k.bits : x[1] < Sink!Limit(k)
         /\ \A p \in Paths : k.epsn[p] < Sink!Limit(k)
<1> DEFINE S == {x[1] : x \in k.bits} \cup {k.epsn[p] : p \in Paths}
<1>1. k.epsn \in [Paths -> Nat] /\ k.bits \subseteq Nat \X Paths
  BY DEF Positions
<1>2. PICK b \in Nat : Reach(k, b)
  BY DEF Positions
<1>3. S \in SUBSET Nat /\ S # {}
  BY <1>1, Sizes
<1>4. \A x \in S : x <= b
  BY <1>2 DEF Reach
<1>5. Max(S) \in S /\ \A q \in S : Max(S) >= q
  BY <1>3, <1>4, MaxIn
<1>6. Sink!Limit(k) = Max(S) + 1
  BY SinkMax, SinkPaths DEF Sink!Limit
<1>7. \A x \in k.bits : x[1] \in S
  OBVIOUS
<1>8. \A p \in Paths : k.epsn[p] \in S
  OBVIOUS
<1> HIDE DEF S
<1>9. Max(S) \in Nat /\ \A q \in S : q \in Nat
  BY <1>3, <1>5
<1>10. \A q \in S : q < Sink!Limit(k)
  BY <1>5, <1>6, <1>9
<1> QED
  BY <1>6, <1>7, <1>8, <1>9, <1>10

LEMMA FirstMissingOK ==
  ASSUME NEW k, Positions(k), NEW paths \in SUBSET Paths, paths # {},
         NEW from \in Nat, from <= Sink!Limit(k)
  PROVE  /\ Sink!FirstMissing(k, paths, from) \in Nat
         /\ Sink!FirstMissing(k, paths, from) >= from
         /\ Sink!FirstMissing(k, paths, from) <= Sink!Limit(k)
<1> DEFINE L == Sink!Limit(k)
           S == {x \in from .. L : \E p \in paths : <<x, p>> \notin k.bits}
<1>1. L \in Nat /\ \A x \in k.bits : x[1] < L
  BY LimitOK
<1>2. Sink!FirstMissing(k, paths, from) = Min(S)
  BY SinkMin DEF Sink!FirstMissing
<1> HIDE DEF L
<1>3. PICK p \in paths : TRUE
  OBVIOUS
<1>4. <<L, p>> \notin k.bits
  <2>1. <<L, p>>[1] = L /\ ~(L < L)
    BY <1>1
  <2> QED BY <1>1, <2>1
<1>5. L \in S
  BY <1>1, <1>4 DEF L
<1>6. S \in SUBSET Nat /\ \A x \in S : x >= from /\ x <= L
  BY <1>1
<1> HIDE DEF S
<1>7. Min(S) \in S
  BY <1>5, <1>6, MinIn
<1> QED
  BY <1>2, <1>6, <1>7 DEF L

(* What moves the expected stripes and what records packets. *)
LEMMA AdvanceOK ==
  ASSUME NEW k, SinkOK(k), NEW e \in [Paths -> Nat], NEW c \in Nat,
         \A p \in Paths : e[p] <= c
  PROVE  LET t == Sink!Advance(k, e)
         IN  SinkOK(t) /\ t.epsn = e
<1> DEFINE bits == {x \in k.bits : x[1] >= e[x[2]]}
           t == Sink!Advance(k, e)
<1>1. IsSink(k) /\ Boundaries(k) /\ Positions(k)
  BY DEF SinkOK
<1>2. IsSink(t)
  BY <1>1 DEF IsSink, Sink!Advance, SinkFields
<1>3. /\ t.epsn = e /\ t.bits = bits
      /\ t.base = k.base /\ t.mbl = k.mbl /\ t.missing = k.missing
      /\ t.acked = k.acked
  BY <1>1, <1>2 DEF IsSink, Sink!Advance, SinkFields
<1> HIDE DEF t
<1>4. PICK b \in Nat : Reach(k, b)
  BY <1>1 DEF Positions
<1>5. Reach(t, b + c)
  <2>1. \A x \in t.bits : x[1] \in Nat /\ x[1] <= b
    BY <1>1, <1>3, <1>4 DEF Positions, Reach
  <2> QED BY <1>3, <2>1 DEF Reach
<1>6. Positions(t)
  BY <1>1, <1>3, <1>5 DEF Positions
<1>7. Boundaries(t)
  BY <1>1, <1>3 DEF Boundaries
<1> QED
  BY <1>2, <1>3, <1>6, <1>7 DEF SinkOK, t

LEMMA MarkedOK ==
  ASSUME NEW k, SinkOK(k), NEW S \in SUBSET (Nat \X Paths), NEW c \in Nat,
         \A x \in S : x[1] <= c
  PROVE  LET t == [k EXCEPT !.bits = @ \cup S]
         IN  SinkOK(t) /\ t.epsn = k.epsn
<1> DEFINE t == [k EXCEPT !.bits = @ \cup S]
<1>1. IsSink(k) /\ Boundaries(k) /\ Positions(k)
  BY DEF SinkOK
<1>2. IsSink(t)
  BY <1>1 DEF IsSink, SinkFields
<1>3. /\ t.epsn = k.epsn /\ t.bits = k.bits \cup S
      /\ t.base = k.base /\ t.mbl = k.mbl /\ t.missing = k.missing
      /\ t.acked = k.acked
  BY <1>1, <1>2 DEF IsSink, SinkFields
<1> HIDE DEF t
<1>4. PICK b \in Nat : Reach(k, b)
  BY <1>1 DEF Positions
<1>5. Reach(t, b + c)
  <2>1. \A x \in t.bits : x[1] \in Nat /\ (x[1] <= b \/ x[1] <= c)
    BY <1>1, <1>3, <1>4 DEF Positions, Reach
  <2>2. \A p \in Paths : k.epsn[p] \in Nat /\ k.epsn[p] <= b
    BY <1>1, <1>4 DEF Positions, Reach
  <2> QED BY <1>3, <2>1, <2>2 DEF Reach
<1>6. Positions(t)
  BY <1>1, <1>3, <1>5 DEF Positions
<1>7. Boundaries(t)
  BY <1>1, <1>3 DEF Boundaries
<1> QED
  BY <1>2, <1>3, <1>6, <1>7 DEF SinkOK, t

(* A handler that moves neither the expected stripes nor the boundaries. *)
LEMMA SinkStays ==
  ASSUME NEW k, SinkOK(k), NEW t, IsSink(t),
         t.epsn = k.epsn, t.bits = k.bits, t.base = k.base, t.mbl = k.mbl,
         t.missing \subseteq Nat, t.acked \in Int
  PROVE  SinkOK(t)
<1>1. Boundaries(k) /\ Positions(k)
  BY DEF SinkOK
<1>2. Boundaries(t)
  BY <1>1 DEF Boundaries
<1>3. Positions(t)
  BY <1>1 DEF Positions, Reach
<1> QED
  BY <1>2, <1>3 DEF SinkOK

LEMMA AckedOK ==
  ASSUME NEW k, SinkOK(k), NEW n \in Int
  PROVE  SinkOK(Sink!Acked(k, n)) /\ Sink!Acked(k, n).epsn = k.epsn
<1> DEFINE t == Sink!Acked(k, n)
<1>1. IsSink(k) /\ k.acked \in Int /\ k.missing \subseteq Nat
  BY DEF SinkOK, Positions
<1>2. IsSink(t)
  BY <1>1 DEF IsSink, Sink!Acked, SinkFields
<1>3. /\ t.epsn = k.epsn /\ t.bits = k.bits
      /\ t.base = k.base /\ t.mbl = k.mbl /\ t.missing = k.missing
      /\ t.acked = k.acked \/ t.acked = k.acked + n
  BY <1>1, <1>2 DEF IsSink, Sink!Acked, SinkFields
<1> HIDE DEF t
<1>4. SinkOK(t)
  BY <1>1, <1>2, <1>3, SinkStays
<1> QED
  BY <1>3, <1>4 DEF t

LEMMA PacketType ==
  ASSUME NEW pk \in Packets
  PROVE  /\ pk.msn \in Nat /\ pk.msn <= MaxMsn + 1
         /\ pk.num \in Nat /\ pk.num >= 1 /\ pk.num <= Stripes
         /\ pk.stripe \in Nat /\ pk.path \in Paths
<1>1. /\ pk.msn \in 0 .. MaxMsn + 1 /\ pk.num \in 1 .. Stripes
      /\ pk.stripe \in Nat /\ pk.path \in Paths
  BY DEF Packets
<1> QED
  BY <1>1, Sizes

LEMMA VirtualBitsOK ==
  ASSUME NEW k, NEW pk \in Packets
  PROVE  /\ Sink!VirtualBits(k, pk) \in SUBSET (Nat \X Paths)
         /\ (pk.msn + 1) * Stripes \in Nat
         /\ \A x \in Sink!VirtualBits(k, pk) : x[1] <= (pk.msn + 1) * Stripes
<1>1. pk.msn \in Nat /\ pk.num \in Nat
  BY PacketType
<1>2. pk.msn * Stripes \in Nat /\ (pk.msn + 1) * Stripes \in Nat
  <2>1. pk.msn * Stripes \in Nat
    BY <1>1, Ordered
  <2>2. pk.msn \in Int /\ Stripes \in Nat
    BY <1>1, Sizes
  <2>3. (pk.msn + 1) * Stripes = pk.msn * Stripes + Stripes
    BY <2>2, Ordered
  <2> QED BY <2>1, <2>2, <2>3
<1> QED
  BY <1>1, <1>2, SinkPaths DEF Sink!VirtualBits

LEMMA StripeOfType ==
  ASSUME NEW pk \in Packets
  PROVE  Sink!StripeOf(pk) \in Nat /\ pk.path \in Paths
<1>1. pk.msn \in Nat /\ pk.stripe \in Nat /\ pk.path \in Paths
  BY PacketType
<1>2. pk.msn * Stripes \in Nat
  BY <1>1, Ordered
<1> QED
  BY <1>1, <1>2 DEF Sink!StripeOf

(* check_pkt with a bitmap for each path *)
LEMMA CheckPacketPerPathOK ==
  ASSUME NEW k, SinkOK(k), NEW pk \in Packets
  PROVE  SinkOK(Sink!CheckPacketPerPath(k, pk))
<1> DEFINE V == Sink!VirtualBits(k, pk)
           S == V \cup {<<Sink!StripeOf(pk), pk.path>>}
           marked == [k EXCEPT !.bits = @ \cup S]
           from == k.epsn[pk.path]
           e == Sink!FirstMissing(marked, {pk.path}, from)
           epsn == [k.epsn EXCEPT ![pk.path] = e]
           moved == Sink!Advance(marked, epsn)
           n == (Sink!GlobalMin(moved) - Sink!GlobalMin(k)) * Chunk
<1>1. /\ V \in SUBSET (Nat \X Paths) /\ (pk.msn + 1) * Stripes \in Nat
      /\ \A x \in V : x[1] <= (pk.msn + 1) * Stripes
  BY VirtualBitsOK
<1>2. Sink!StripeOf(pk) \in Nat /\ pk.path \in Paths
  BY StripeOfType
<1>3. CASE ~Sink!Accepts(k, pk)
  <2>1. Sink!CheckPacketPerPath(k, pk) = [k EXCEPT !.bits = @ \cup V]
    BY <1>3 DEF Sink!CheckPacketPerPath
  <2> HIDE DEF V
  <2> QED BY <1>1, <2>1, MarkedOK, ZenonT(60)
<1>4. CASE Sink!Accepts(k, pk)
  <2> DEFINE c == (pk.msn + 1) * Stripes + Sink!StripeOf(pk)
  <2>1. marked = [k EXCEPT !.bits = @ \cup V \cup {<<Sink!StripeOf(pk), pk.path>>}]
    BY Zenon
  <2>2. Sink!CheckPacketPerPath(k, pk) = Sink!Acked(moved, n)
    BY <1>4, <2>1, SinkPaths DEF Sink!CheckPacketPerPath, Sink!Expected
  <2>3. S \in SUBSET (Nat \X Paths) /\ c \in Nat /\ \A x \in S : x[1] <= c
    BY <1>1, <1>2
  <2> HIDE DEF S, c, V
  <2>4. SinkOK(marked) /\ marked.epsn = k.epsn
    BY <2>3, MarkedOK
  <2> HIDE DEF marked
  <2>5. Positions(marked) /\ k.epsn \in [Paths -> Nat]
    BY <2>4 DEF SinkOK, Positions
  <2>6. /\ from \in Nat /\ from <= Sink!Limit(marked) /\ Sink!Limit(marked) \in Nat
    <3>1. /\ Sink!Limit(marked) \in Nat
          /\ \A p \in Paths : marked.epsn[p] < Sink!Limit(marked)
      BY <2>5, LimitOK
    <3> QED BY <1>2, <2>4, <2>5, <3>1
  <2> HIDE DEF from
  <2>7. e \in Nat
    BY <1>2, <2>5, <2>6, FirstMissingOK
  <2> HIDE DEF e
  <2>8. epsn \in [Paths -> Nat]
    BY <1>2, <2>5, <2>7
  <2>9. PICK b \in Nat : \A p \in Paths : k.epsn[p] <= b
    BY DEF SinkOK, Positions, Reach
  <2>10. \A p \in Paths : epsn[p] <= b + e
    BY <1>2, <2>5, <2>7, <2>9
  <2> HIDE DEF epsn
  <2>11. SinkOK(moved)
    BY <2>4, <2>7, <2>8, <2>10, AdvanceOK
  <2> HIDE DEF moved
  <2>12. n \in Int
    <3>1. Sink!GlobalMin(moved) \in Nat
      BY <2>11, GlobalMinOK DEF SinkOK
    <3>2. Sink!GlobalMin(k) \in Nat
      BY GlobalMinOK DEF SinkOK
    <3> QED BY <3>1, <3>2, Sizes
  <2> HIDE DEF n
  <2> QED BY <2>2, <2>11, <2>12, AckedOK
<1> QED
  BY <1>3, <1>4

(* check_pkt with one bitmap *)
LEMMA CheckPacketBlockOK ==
  ASSUME NEW k, SinkOK(k), NEW pk \in Packets
  PROVE  SinkOK(Sink!CheckPacketBlock(k, pk))
<1> DEFINE V == Sink!VirtualBits(k, pk)
           own == IF Sink!Accepts(k, pk) THEN {<<Sink!StripeOf(pk), pk.path>>} ELSE {}
           S == V \cup own
           c == (pk.msn + 1) * Stripes + Sink!StripeOf(pk)
           marked == [k EXCEPT !.bits = @ \cup S]
           from == Sink!GlobalMin(k)
           e == Sink!FirstMissing(marked, Paths, from)
           epsn == [p \in Paths |-> e]
           moved == Sink!Advance(marked, epsn)
<1>1. /\ V \in SUBSET (Nat \X Paths) /\ (pk.msn + 1) * Stripes \in Nat
      /\ \A x \in V : x[1] <= (pk.msn + 1) * Stripes
  BY VirtualBitsOK
<1>2. Sink!StripeOf(pk) \in Nat /\ pk.path \in Paths
  BY StripeOfType
<1>3. marked = [k EXCEPT !.bits = @ \cup V \cup own]
  BY Zenon
<1>4. Sink!CheckPacketBlock(k, pk) \in {marked, moved}
  BY <1>3, SinkPaths DEF Sink!CheckPacketBlock
<1>5. S \in SUBSET (Nat \X Paths) /\ c \in Nat /\ \A x \in S : x[1] <= c
  BY <1>1, <1>2
<1> HIDE DEF S, c, V, own
<1>6. SinkOK(marked) /\ marked.epsn = k.epsn
  BY <1>5, MarkedOK
<1> HIDE DEF marked
<1>7. Positions(marked) /\ Positions(k)
  BY <1>6 DEF SinkOK
<1>8. from \in Nat /\ from <= Sink!Limit(marked)
  <2>1. /\ Sink!Limit(marked) \in Nat
        /\ \A p \in Paths : marked.epsn[p] < Sink!Limit(marked)
    BY <1>7, LimitOK
  <2>2. Sink!GlobalMin(k) \in Nat /\ \E p \in Paths : Sink!GlobalMin(k) = k.epsn[p]
    BY <1>7, GlobalMinOK
  <2> QED BY <1>6, <2>1, <2>2
<1> HIDE DEF from
<1>9. e \in Nat
  BY <1>7, <1>8, FirstMissingOK, Sizes
<1> HIDE DEF e
<1>10. epsn \in [Paths -> Nat] /\ \A p \in Paths : epsn[p] <= e
  BY <1>9
<1> HIDE DEF epsn
<1>11. SinkOK(moved)
  BY <1>6, <1>9, <1>10, AdvanceOK
<1> HIDE DEF moved
<1> QED
  BY <1>4, <1>6, <1>11

(* The three ways to give a stripe up. *)
LEMMA StepOverOK ==
  ASSUME NEW k, SinkOK(k)
  PROVE  SinkOK(Sink!StepOver(k))
<1> DEFINE g == Sink!GlobalMin(k)
           epsn == [p \in Paths |-> IF k.epsn[p] = g THEN k.epsn[p] + 1 ELSE k.epsn[p]]
           moved == Sink!Advance(k, epsn)
           n == IF k.perPath THEN Chunk ELSE 0
<1>1. Sink!StepOver(k) = Sink!Acked(moved, n)
  BY SinkPaths DEF Sink!StepOver
<1>2. k.epsn \in [Paths -> Nat]
  BY DEF SinkOK, Positions
<1>3. PICK b \in Nat : \A p \in Paths : k.epsn[p] <= b
  BY DEF SinkOK, Positions, Reach
<1> HIDE DEF g
<1>4. epsn \in [Paths -> Nat] /\ \A p \in Paths : epsn[p] <= b + 1
  BY <1>2, <1>3
<1> HIDE DEF epsn
<1>5. SinkOK(moved)
  BY <1>4, AdvanceOK
<1> HIDE DEF moved
<1>6. n \in Int
  BY Sizes
<1> HIDE DEF n
<1> QED
  BY <1>1, <1>5, <1>6, AckedOK

LEMMA TrivialTargetType ==
  ASSUME NEW k, SinkOK(k)
  PROVE  Sink!TrivialTarget(k) \in Nat
<1> DEFINE D == 0 .. K - 1
           S == {k.epsn[p] : p \in D}
<1>1. D \in SUBSET Paths /\ D # {}
  <2>1. K \in Nat /\ M \in Nat /\ K >= 1
    BY Sizes
  <2>2. 0 \in D /\ \A p \in D : p \in 0 .. (K + M) - 1
    BY <2>1
  <2> QED BY <2>2 DEF Paths, Chunk
<1>2. k.epsn \in [Paths -> Nat] /\ Positions(k)
  BY DEF SinkOK, Positions
<1>3. CASE k.perPath
  <2>1. S \in SUBSET Nat /\ S # {}
    BY <1>1, <1>2
  <2>2. Sink!TrivialTarget(k) = Min(S)
    BY <1>3, SinkMin DEF Sink!TrivialTarget
  <2> HIDE DEF S
  <2> QED BY <2>1, <2>2, MinIn
<1>4. CASE ~k.perPath
  <2>1. Sink!TrivialTarget(k) = Sink!FirstMissing(k, D, Sink!GlobalMin(k))
    BY <1>4 DEF Sink!TrivialTarget
  <2>2. Sink!GlobalMin(k) \in Nat /\ Sink!GlobalMin(k) <= Sink!Limit(k)
    <3>1. /\ Sink!Limit(k) \in Nat
          /\ \A p \in Paths : k.epsn[p] < Sink!Limit(k)
      BY <1>2, LimitOK
    <3>2. Sink!GlobalMin(k) \in Nat /\ \E p \in Paths : Sink!GlobalMin(k) = k.epsn[p]
      BY <1>2, GlobalMinOK
    <3> QED BY <3>1, <3>2
  <2> HIDE DEF D
  <2> QED BY <1>1, <1>2, <2>1, <2>2, FirstMissingOK
<1> QED
  BY <1>3, <1>4

LEMMA TrivialSkipOK ==
  ASSUME NEW k, SinkOK(k)
  PROVE  SinkOK(Sink!TrivialSkip(k))
<1> DEFINE a == Sink!TrivialTarget(k)
           epsn == [p \in Paths |-> Max({k.epsn[p], a})]
           moved == Sink!Advance(k, epsn)
           n == IF k.perPath THEN (a - Sink!GlobalMin(k)) * Chunk ELSE 0
<1>1. Sink!TrivialSkip(k) = Sink!Acked(moved, n)
  BY SinkPaths, SinkMax DEF Sink!TrivialSkip
<1>2. k.epsn \in [Paths -> Nat] /\ Positions(k)
  BY DEF SinkOK, Positions
<1>3. PICK b \in Nat : \A p \in Paths : k.epsn[p] <= b
  BY DEF SinkOK, Positions, Reach
<1>4. a \in Nat
  BY TrivialTargetType
<1> HIDE DEF a
<1>5. \A p \in Paths : Max({k.epsn[p], a}) \in {k.epsn[p], a} /\ k.epsn[p] \in Nat
  BY <1>2, <1>4, MaxOfTwo
<1>6. epsn \in [Paths -> Nat] /\ \A p \in Paths : epsn[p] <= b + a
  BY <1>3, <1>4, <1>5
<1> HIDE DEF epsn
<1>7. SinkOK(moved)
  BY <1>3, <1>4, <1>6, AdvanceOK
<1> HIDE DEF moved
<1>8. n \in Int
  <2>1. Sink!GlobalMin(k) \in Nat
    BY <1>2, GlobalMinOK
  <2> QED BY <1>4, <2>1, Sizes
<1> HIDE DEF n
<1> QED
  BY <1>1, <1>7, <1>8, AckedOK

LEMMA SkipOK ==
  ASSUME NEW k, SinkOK(k)
  PROVE  SinkOK(Sink!Skip(k))
<1> DEFINE g == Sink!GlobalMin(k)
           noted == [k EXCEPT !.missing = @ \cup {g}]
<1>1. /\ IsSink(k) /\ k.missing \subseteq Nat /\ k.acked \in Int /\ g \in Nat
  BY GlobalMinOK DEF SinkOK, Positions
<1> HIDE DEF g
<1>2. SinkOK(noted)
  <2>1. IsSink(noted)
    BY <1>1 DEF IsSink, SinkFields
  <2>2. /\ noted.epsn = k.epsn /\ noted.bits = k.bits /\ noted.base = k.base
        /\ noted.mbl = k.mbl /\ noted.missing = k.missing \cup {g}
        /\ noted.acked = k.acked
    BY <1>1, <2>1 DEF IsSink, SinkFields
  <2> HIDE DEF noted
  <2> QED BY <1>1, <2>1, <2>2, SinkStays
<1>3. Sink!LossySkip(k) = Sink!StepOver(noted)
  BY DEF Sink!LossySkip, g
<1> HIDE DEF noted
<1>4. Sink!Skip(k) \in {Sink!TrivialSkip(k), Sink!StepOver(k), Sink!LossySkip(k), k}
  BY DEF Sink!Skip
<1> QED
  BY <1>2, <1>3, <1>4, TrivialSkipOK, StepOverOK

-----------------------------------------------------------------------------
(* The receiver: the message boundary list. *)

(* update_mbl keeps the boundaries ascending: those before the new one are *)
(* cut where its message begins.                                           *)
LEMMA UpdateBoundariesOK ==
  ASSUME NEW k, SinkOK(k), NEW pk \in Packets
  PROVE  SinkOK(Sink!UpdateBoundaries(k, pk)) /\ Sink!UpdateBoundaries(k, pk).epsn = k.epsn
<1> DEFINE t     == Sink!UpdateBoundaries(k, pk)
           rel   == pk.msn - k.base
           n     == Len(k.mbl)
           first == pk.msn * Stripes
           last  == first + pk.num - 1
           lost  == rel >= MaxBoundaries \/ (n = 0 /\ rel + 1 = MaxBoundaries)
           grown == IF rel < n \/ rel >= MaxBoundaries THEN k.mbl
                    ELSE [i \in 1 .. rel + 1 |-> IF i <= n THEN k.mbl[i] ELSE Big]
           cut   == [i \in DOMAIN grown |->
                       IF i = rel + 1 THEN last
                       ELSE IF i <= rel THEN Min({grown[i], first - 1})
                       ELSE grown[i]]
<1>1. IsSink(k) /\ Boundaries(k) /\ Positions(k)
  BY DEF SinkOK
<1>2. /\ k.base \in Nat /\ k.mbl \in Seq(Nat) /\ n \in Nat
      /\ \A i \in 1 .. n : k.mbl[i] \in Nat
      /\ \A i \in 1 .. n :
           k.mbl[i] = Big \/ (k.mbl[i] <= Big /\ k.mbl[i] >= (k.base + i - 1) * Stripes)
      /\ \A i, j \in 1 .. n : i < j => k.mbl[i] <= k.mbl[j]
  BY <1>1 DEF Boundaries
<1>3. /\ pk.msn \in Nat /\ pk.msn <= MaxMsn + 1
      /\ pk.num \in Nat /\ pk.num >= 1 /\ pk.num <= Stripes
  BY PacketType
<1>4. /\ Stripes \in Nat /\ Stripes >= 1 /\ MaxBoundaries \in Nat /\ Big \in Nat
      /\ MaxMsn \in Nat /\ (MaxMsn + 2) * Stripes <= Big
  BY Sizes, SinkAssumption
<1>5. /\ first \in Nat /\ last \in Nat /\ last >= first /\ last < first + Stripes
      /\ last <= Big
  <2>1. first \in Nat
    BY <1>3, Ordered, SMTT(20)
  <2>2. first + Stripes <= (MaxMsn + 2) * Stripes
    <3>1. pk.msn \in Int /\ MaxMsn + 2 \in Int /\ pk.msn < MaxMsn + 2
      BY <1>3, <1>4
    <3> QED BY <3>1, Ordered
  <2>3. (MaxMsn + 2) * Stripes \in Int
    <3>1. MaxMsn + 2 \in Int
      BY <1>4
    <3> QED BY <3>1, Ordered
  <2> HIDE DEF first
  <2> QED BY <1>3, <1>4, <2>1, <2>2, <2>3
<1>6. rel \in Int /\ k.base + rel = pk.msn
  BY <1>2, <1>3
<1>7. /\ rel < 0 => t = k
      /\ rel >= 0 /\ lost => t = [k EXCEPT !.mbl = grown]
      /\ rel >= 0 /\ ~lost => t = [k EXCEPT !.mbl = cut]
  <2> DEFINE cutS == [i \in DOMAIN grown |->
                        IF i = rel + 1 THEN last
                        ELSE IF i <= rel THEN Sink!Min({grown[i], first - 1})
                        ELSE grown[i]]
  <2>1. t = IF rel < 0 THEN k
            ELSE IF lost THEN [k EXCEPT !.mbl = grown]
            ELSE [k EXCEPT !.mbl = cutS]
    BY DEF Sink!UpdateBoundaries
  <2>2. cutS = cut
    <3> HIDE DEF grown, rel, first, last
    <3> QED BY SinkMin
  <2> HIDE DEF t, cut, cutS, grown, lost, rel
  <2> QED BY <1>6, <2>1, <2>2
<1> HIDE DEF t, first, last, lost
(* The list with the entries it is extended by, which are not known yet *)
<1>8. /\ grown \in Seq(Nat) /\ DOMAIN grown = 1 .. Len(grown)
      /\ \A i \in 1 .. Len(grown) : \/ i \in 1 .. n /\ grown[i] = k.mbl[i]
                                    \/ i > n /\ grown[i] = Big
  <2> HIDE DEF rel, n
  <2>1. CASE rel < n \/ rel >= MaxBoundaries
    BY <1>2, <2>1 DEF n
  <2>2. CASE ~(rel < n \/ rel >= MaxBoundaries)
    <3> DEFINE g == [i \in 1 .. rel + 1 |-> IF i <= n THEN k.mbl[i] ELSE Big]
    <3>1. grown = g
      BY <2>2
    <3>2. rel + 1 \in Nat
      BY <1>2, <1>6, <2>2
    <3>3. \A i \in 1 .. rel + 1 : (IF i <= n THEN k.mbl[i] ELSE Big) \in Nat
      BY <1>2, <1>4
    <3>4. g \in Seq(Nat) /\ Len(g) = rel + 1 /\ DOMAIN g = 1 .. rel + 1
      BY <3>2, <3>3
    <3>5. \A i \in 1 .. rel + 1 : \/ i \in 1 .. n /\ g[i] = k.mbl[i]
                                  \/ i > n /\ g[i] = Big
      BY <1>2, <3>2
    <3> HIDE DEF g, grown
    <3> QED BY <3>1, <3>4, <3>5
  <2> QED BY <2>1, <2>2
<1> HIDE DEF grown
<1>9. /\ \A i \in 1 .. Len(grown) : grown[i] \in Nat /\ grown[i] <= Big
      /\ \A i \in 1 .. Len(grown) :
           grown[i] = Big \/ grown[i] >= (k.base + i - 1) * Stripes
      /\ \A i, j \in 1 .. Len(grown) : i < j => grown[i] <= grown[j]
  <2>1. \A i \in 1 .. Len(grown) : grown[i] \in Nat /\ grown[i] <= Big
    <3>1. \A i \in 1 .. n : k.mbl[i] \in Nat /\ k.mbl[i] <= Big
      <4>1. ASSUME NEW i \in 1 .. n
            PROVE  k.mbl[i] \in Nat /\ k.mbl[i] <= Big
        <5>1. k.mbl[i] \in Nat
          BY <1>2
        <5>2. k.mbl[i] = Big \/ k.mbl[i] <= Big
          BY <1>2
        <5> QED BY <1>4, <5>1, <5>2
      <4> QED BY <4>1
    <3> QED BY <1>4, <1>8, <3>1
  <2>2. \A i \in 1 .. Len(grown) :
          grown[i] = Big \/ grown[i] >= (k.base + i - 1) * Stripes
    BY <1>2, <1>8
  <2>3. ASSUME NEW i \in 1 .. Len(grown), NEW j \in 1 .. Len(grown), i < j
        PROVE  grown[i] <= grown[j]
    <3>1. CASE j > n
      <4>1. grown[j] = Big
        BY <1>2, <1>8, <3>1
      <4> QED BY <2>1, <4>1
    <3>2. CASE ~(j > n)
      <4>1. /\ i \in 1 .. n /\ j \in 1 .. n
            /\ grown[i] = k.mbl[i] /\ grown[j] = k.mbl[j]
        BY <1>2, <1>8, <2>3, <3>2, SMTT(20)
      <4> QED BY <1>2, <2>3, <4>1
    <3> QED BY <3>1, <3>2
  <2> QED BY <2>1, <2>2, <2>3
<1>10. ASSUME NEW l \in Seq(Nat),
              \A i \in 1 .. Len(l) : l[i] <= Big,
              \A i \in 1 .. Len(l) : l[i] = Big \/ l[i] >= (k.base + i - 1) * Stripes,
              \A i, j \in 1 .. Len(l) : i < j => l[i] <= l[j],
              t = [k EXCEPT !.mbl = l]
       PROVE  SinkOK(t) /\ t.epsn = k.epsn
  <2>1. IsSink(t)
    BY <1>1, <1>10 DEF IsSink, SinkFields
  <2>2. /\ t.epsn = k.epsn /\ t.bits = k.bits /\ t.base = k.base
        /\ t.mbl = l /\ t.missing = k.missing /\ t.acked = k.acked
    BY <1>1, <1>10, <2>1 DEF IsSink, SinkFields
  <2>3. Boundaries(t)
    BY <1>2, <1>10, <2>2 DEF Boundaries
  <2>4. Positions(t)
    BY <1>1, <2>2 DEF Positions, Reach
  <2> QED BY <2>1, <2>2, <2>3, <2>4 DEF SinkOK
<1>11. CASE rel < 0
  BY <1>7, <1>11 DEF t
<1>12. CASE rel >= 0 /\ lost
  BY <1>7, <1>8, <1>9, <1>10, <1>12 DEF t
<1>13. CASE rel >= 0 /\ ~lost
  <2>1. ASSUME NEW i \in 1 .. Len(grown)
        PROVE  /\ i = rel + 1 => cut[i] = last
               /\ i <= rel => /\ cut[i] \in Nat /\ cut[i] \in {grown[i], first - 1}
                              /\ cut[i] <= grown[i] /\ cut[i] <= first - 1
                              /\ first - 1 >= (k.base + i - 1) * Stripes
               /\ i > rel + 1 => /\ cut[i] = grown[i]
                                 /\ cut[i] = Big \/ first + Stripes <= cut[i]
    <3>1. i \in DOMAIN grown /\ i \in Nat /\ i >= 1
      BY <1>8
    <3>2. cut[i] = IF i = rel + 1 THEN last
                   ELSE IF i <= rel THEN Min({grown[i], first - 1})
                   ELSE grown[i]
      BY <3>1
    <3> HIDE DEF cut
    <3>3. CASE i = rel + 1
      BY <1>6, <3>2, <3>3
    <3>4. CASE i <= rel
      <4>1. (k.base + i - 1) * Stripes + Stripes <= first
        <5>1. k.base + i - 1 \in Int /\ pk.msn \in Int /\ k.base + i - 1 < pk.msn
          BY <1>2, <1>3, <1>6, <3>1, <3>4
        <5> QED BY <5>1, Ordered DEF first
      <4>2. (k.base + i - 1) * Stripes \in Nat
        <5>1. k.base + i - 1 \in Nat
          BY <1>2, <3>1
        <5> QED BY <5>1, Ordered
      <4>3. first - 1 \in Nat /\ first - 1 >= (k.base + i - 1) * Stripes
        BY <1>4, <1>5, <4>1, <4>2
      <4>4. /\ Min({grown[i], first - 1}) \in {grown[i], first - 1}
            /\ Min({grown[i], first - 1}) <= grown[i]
            /\ Min({grown[i], first - 1}) <= first - 1
        BY <1>9, <4>3, MinOfTwo
      <4>5. cut[i] = Min({grown[i], first - 1})
        BY <1>6, <3>1, <3>2, <3>4
      <4>6. cut[i] \in Nat
        BY <1>9, <4>3, <4>4, <4>5
      <4> QED BY <1>6, <3>1, <3>4, <4>3, <4>4, <4>5, <4>6
    <3>5. CASE i > rel + 1
      <4>1. first + Stripes <= (k.base + i - 1) * Stripes
        <5>1. k.base + i - 1 \in Int /\ pk.msn \in Int /\ pk.msn < k.base + i - 1
          BY <1>2, <1>3, <1>6, <3>1, <3>5
        <5> QED BY <5>1, Ordered DEF first
      <4>2. (k.base + i - 1) * Stripes \in Nat
        <5>1. k.base + i - 1 \in Nat
          BY <1>2, <3>1
        <5> QED BY <5>1, Ordered
      <4>3. cut[i] = grown[i]
        BY <1>6, <3>1, <3>2, <3>5
      <4>4. cut[i] = Big \/ first + Stripes <= cut[i]
        BY <1>4, <1>5, <1>9, <4>1, <4>2, <4>3
      <4> QED BY <1>6, <3>1, <3>5, <4>3, <4>4
    <3> QED BY <1>6, <3>1, <3>3, <3>4, <3>5
  <2>2. /\ cut \in Seq(Nat) /\ Len(cut) = Len(grown)
    <3>1. \A i \in 1 .. Len(grown) : cut[i] \in Nat
      <4>1. ASSUME NEW i \in 1 .. Len(grown)
            PROVE  cut[i] \in Nat
        <5> HIDE DEF cut
        <5>1. i \in Int /\ (i = rel + 1 \/ i <= rel \/ i > rel + 1)
          BY <1>6
        <5> QED BY <1>5, <1>9, <2>1, <5>1
      <4> QED BY <4>1
    <3>2. Len(grown) \in Nat /\ DOMAIN cut = 1 .. Len(grown)
      BY <1>8
    <3>3. cut = [i \in 1 .. Len(grown) |-> cut[i]]
      BY <3>2
    <3> HIDE DEF cut
    <3> QED BY <3>1, <3>2, <3>3
  <2> HIDE DEF cut
  <2>3. \A i \in 1 .. Len(cut) : cut[i] \in Nat /\ cut[i] <= Big
    <3>1. ASSUME NEW i \in 1 .. Len(grown)
          PROVE  cut[i] \in Nat /\ cut[i] <= Big
      <4>1. i \in Int /\ (i = rel + 1 \/ i <= rel \/ i > rel + 1)
        BY <1>6
      <4>2. grown[i] \in Nat /\ grown[i] <= Big /\ Big \in Nat
        BY <1>4, <1>9
      <4> QED BY <1>5, <2>1, <4>1, <4>2
    <3> QED BY <2>2, <3>1
  <2>4. \A i \in 1 .. Len(cut) : cut[i] = Big \/ cut[i] >= (k.base + i - 1) * Stripes
    <3>1. ASSUME NEW i \in 1 .. Len(grown)
          PROVE  cut[i] = Big \/ cut[i] >= (k.base + i - 1) * Stripes
      <4>1. CASE i = rel + 1
        <5>1. k.base + i - 1 = pk.msn
          BY <1>2, <1>6, <4>1
        <5> QED BY <1>5, <2>1, <4>1, <5>1 DEF first
      <4>2. CASE i <= rel
        BY <1>9, <2>1, <4>2
      <4>3. CASE i > rel + 1
        BY <1>9, <2>1, <4>3
      <4> QED BY <1>6, <4>1, <4>2, <4>3
    <3> QED BY <2>2, <3>1
  <2>5. \A i, j \in 1 .. Len(cut) : i < j => cut[i] <= cut[j]
    <3>1. ASSUME NEW i \in 1 .. Len(grown), NEW j \in 1 .. Len(grown), i < j
          PROVE  cut[i] <= cut[j]
      <4>1. grown[i] \in Nat /\ grown[j] \in Nat /\ grown[i] <= grown[j]
            /\ i \in Int /\ j \in Int
        BY <1>9, <3>1
      <4>2. CASE i <= rel /\ j <= rel
        <5>1. /\ cut[i] \in Nat /\ cut[i] <= grown[i] /\ cut[i] <= first - 1
              /\ cut[j] = grown[j] \/ cut[j] = first - 1
          BY <2>1, <4>2
        <5> QED BY <1>5, <4>1, <5>1
      <4>3. CASE i <= rel /\ j = rel + 1
        BY <1>5, <2>1, <4>1, <4>3
      <4>4. CASE i <= rel /\ j > rel + 1
        BY <1>4, <1>5, <2>1, <4>1, <4>4
      <4>5. CASE i = rel + 1 /\ j > rel + 1
        BY <1>4, <1>5, <2>1, <4>1, <4>5
      <4>6. CASE i > rel + 1 /\ j > rel + 1
        BY <2>1, <4>1, <4>6
      <4> QED BY <1>6, <3>1, <4>1, <4>2, <4>3, <4>4, <4>5, <4>6
    <3> QED BY <2>2, <3>1
  <2> QED BY <1>7, <1>10, <1>13, <2>2, <2>3, <2>4, <2>5 DEF t
<1> QED
  <2>1. rel < 0 \/ rel >= 0
    BY <1>6
  <2> QED BY <1>11, <1>12, <1>13, <2>1

LEMMA SinkCardinality == ASSUME NEW S PROVE Sink!Cardinality(S) = Cardinality(S)
BY DEF Sink!Cardinality, Cardinality, Sink!IsFiniteSet, IsFiniteSet

(* The ascending list of a finite set of numbers *)
LEMMA AscendingType ==
  ASSUME NEW S \in SUBSET Nat, NEW c \in Nat, \A x \in S : x <= c
  PROVE  Sink!Ascending(S) \in Seq(Nat) /\ Len(Sink!Ascending(S)) = Cardinality(S)
<1> DEFINE upto(x) == {y \in S : y <= x}
           n == Cardinality(S)
           f == [x \in S |-> Cardinality(upto(x))]
           at(i) == CHOOSE x \in S : Sink!Cardinality(upto(x)) = i
<1>1. IsFiniteSet(S) /\ n \in Nat
  BY FS_BoundedSetOfNaturals, FS_CardinalityType
<1>2. ASSUME NEW x \in S
      PROVE  Cardinality(upto(x)) \in 1 .. n
  <2>1. upto(x) \in SUBSET S /\ x \in upto(x)
    OBVIOUS
  <2> HIDE DEF upto
  <2>2. IsFiniteSet(upto(x)) /\ Cardinality(upto(x)) <= n
    BY <1>1, <2>1, FS_Subset
  <2>3. Cardinality(upto(x)) \in Nat /\ Cardinality(upto(x)) # 0
    BY <2>1, <2>2, FS_CardinalityType, FS_EmptySet
  <2> QED BY <1>1, <2>2, <2>3
<1>3. ASSUME NEW x \in S, NEW z \in S, x < z
      PROVE  Cardinality(upto(x)) # Cardinality(upto(z))
  <2>1. upto(z) \in SUBSET S /\ upto(x) \in SUBSET upto(z) /\ z \in upto(z)
        /\ z \notin upto(x)
    <3>1. x \in Nat /\ z \in Nat /\ \A y \in S : y \in Nat
      OBVIOUS
    <3>2. \A y \in S : y <= x => y <= z
      BY <1>3, <3>1
    <3>3. z <= z /\ ~(z <= x)
      BY <1>3, <3>1
    <3> QED BY <3>2, <3>3
  <2> HIDE DEF upto
  <2>2. IsFiniteSet(upto(z))
    BY <1>1, <2>1, FS_Subset
  <2> QED BY <2>1, <2>2, FS_Subset
<1>4. f \in [S -> 1 .. n]
  BY <1>2
<1>5. \A x, z \in S : f[x] = f[z] => x = z
  <2>1. ASSUME NEW x \in S, NEW z \in S, f[x] = f[z]
        PROVE  x = z
    <3>1. Cardinality(upto(x)) = Cardinality(upto(z))
      BY <2>1
    <3>2. x \in Nat /\ z \in Nat
      OBVIOUS
    <3> HIDE DEF upto, f
    <3> QED BY <1>3, <3>1, <3>2
  <2> QED BY <2>1
<1>6. f \in Surjection(S, 1 .. n)
  <2>1. IsFiniteSet(1 .. n) /\ Cardinality(1 .. n) = n
    BY <1>1, FS_Interval
  <2>2. f \in Injection(S, 1 .. n)
    BY <1>4, <1>5 DEF Injection, IsInjective
  <2> QED BY <1>1, <2>1, <2>2, FS_Injection
<1>7. \A i \in 1 .. n : \E x \in S : Sink!Cardinality(upto(x)) = i
  <2>1. \A i \in 1 .. n : \E x \in S : f[x] = i
    BY <1>6 DEF Surjection
  <2>2. \A x \in S : Sink!Cardinality(upto(x)) = f[x]
    <3> HIDE DEF upto
    <3> QED BY SinkCardinality
  <2> HIDE DEF upto, f
  <2> QED BY <2>1, <2>2
<1>8. \A i \in 1 .. n : at(i) \in Nat
  BY <1>7
<1>9. Sink!Ascending(S) = [i \in 1 .. n |-> at(i)]
  <2>1. Sink!Cardinality(S) = n
    BY SinkCardinality
  <2>2. Sink!Ascending(S) = [i \in 1 .. Sink!Cardinality(S) |-> at(i)]
    BY DEF Sink!Ascending
  <2> HIDE DEF at, n
  <2> QED BY <2>1, <2>2
<1> HIDE DEF at, n
<1> QED
  BY <1>1, <1>8, <1>9 DEF n

(* Quotient and remainder of a natural *)
LEMMA StripeOfMessage ==
  ASSUME NEW x \in Nat, NEW msn \in Nat, x \div Stripes = msn
  PROVE  x - msn * Stripes \in 0 .. Stripes - 1
<1>1. Stripes \in Nat /\ Stripes >= 1
  BY Sizes
<1>2. x % Stripes = x - Stripes * (x \div Stripes)
  BY <1>1, Z3
<1>3. x % Stripes \in 0 .. Stripes - 1
  BY <1>1
<1>4. Stripes * msn = msn * Stripes
  BY <1>1
<1> QED
  BY <1>2, <1>3, <1>4

LEMMA SackForOK ==
  ASSUME NEW k, SinkOK(k), NEW msn \in Nat
  PROVE  Sink!SackFor(k, msn) \in Answers
<1> DEFINE gone == {x - msn * Stripes : x \in {y \in k.missing : y \div Stripes = msn}}
           list == Sink!Ascending(gone)
<1>1. k.missing \subseteq Nat /\ Stripes \in Nat /\ Stripes >= 1
  BY Sizes DEF SinkOK, Positions
<1>2. \A x \in gone : x \in 0 .. Stripes - 1
  BY <1>1, StripeOfMessage
<1> HIDE DEF gone
<1>3. gone \in SUBSET Nat /\ \A x \in gone : x <= Stripes - 1
  BY <1>1, <1>2
<1>4. Cardinality(gone) <= Stripes
  <2>1. Stripes - 1 \in Nat
    BY <1>1
  <2>2. Cardinality(gone) <= (Stripes - 1) + 1
    BY <1>3, <2>1, FS_BoundedSetOfNaturals
  <2> QED BY <1>1, <2>2
<1>5. list \in Seq(Nat) /\ Len(list) = Cardinality(gone)
  <2>1. Stripes - 1 \in Nat
    BY <1>1
  <2> QED BY <1>3, <2>1, AscendingType
<1> HIDE DEF list
<1>6. list \in Offsets
  BY <1>4, <1>5 DEF Offsets
<1>7. Sink!SackFor(k, msn) =
        [type |-> "SACK", msn |-> msn, missing |-> list, bytes |-> 0]
  BY DEF Sink!SackFor, list, gone
<1> QED
  BY <1>6, <1>7 DEF Answers

(* The entries that have ended are the first ones of the list. *)
LEMMA EndedFirst ==
  ASSUME NEW l \in Seq(Nat), \A i, j \in 1 .. Len(l) : i < j => l[i] <= l[j],
         NEW g \in Nat
  PROVE  LET E == {i \in 1 .. Len(l) : l[i] < g}
         IN  /\ Cardinality(E) \in Nat /\ Cardinality(E) <= Len(l)
             /\ \A i \in 1 .. Len(l) : l[i] < g <=> i <= Cardinality(E)
<1> DEFINE E == {i \in 1 .. Len(l) : l[i] < g}
<1> SUFFICES /\ Cardinality(E) \in Nat /\ Cardinality(E) <= Len(l)
             /\ \A i \in 1 .. Len(l) : l[i] < g <=> i <= Cardinality(E)
  OBVIOUS
<1>1. Len(l) \in Nat /\ \A i \in 1 .. Len(l) : l[i] \in Nat
  OBVIOUS
<1>2. CASE E = {}
  <2>1. Cardinality(E) = 0
    BY <1>2, FS_EmptySet
  <2>2. \A i \in 1 .. Len(l) : ~(l[i] < g)
    BY <1>2
  <2> HIDE DEF E
  <2>3. \A i \in 1 .. Len(l) : ~(i <= 0)
    OBVIOUS
  <2> QED BY <1>1, <2>1, <2>2, <2>3
<1>3. CASE E # {}
  <2> DEFINE m == Max(E)
  <2>1. E \in SUBSET Nat /\ \A x \in E : x <= Len(l)
    BY <1>1
  <2>2. m \in E /\ \A q \in E : m >= q
    <3> HIDE DEF E
    <3> QED BY <1>1, <1>3, <2>1, MaxIn
  <2> HIDE DEF m
  <2>3. m \in 1 .. Len(l) /\ l[m] < g
    BY <2>2
  <2>4. \A i \in 1 .. Len(l) : l[i] < g <=> i <= m
    <3>1. ASSUME NEW i \in 1 .. Len(l), l[i] < g
          PROVE  i <= m
      <4>1. i \in E
        BY <3>1
      <4>2. m >= i /\ m \in Int /\ i \in Int
        BY <2>2, <2>3, <4>1
      <4> QED BY <4>2
    <3>2. ASSUME NEW i \in 1 .. Len(l), i <= m
          PROVE  l[i] < g
      <4>1. i = m \/ i < m
        BY <2>3, <3>2
      <4>2. l[i] <= l[m]
        BY <1>1, <2>3, <4>1
      <4> QED BY <1>1, <2>3, <4>2
    <3> QED BY <3>1, <3>2
  <2>5. E = 1 .. m
    <3>1. \A i : i \in E <=> i \in 1 .. Len(l) /\ i <= m
      BY <2>4
    <3>2. \A i : i \in 1 .. m <=> i \in 1 .. Len(l) /\ i <= m
      BY <1>1, <2>3
    <3> HIDE DEF E
    <3> QED BY <3>1, <3>2
  <2>6. Cardinality(E) = m
    <3> HIDE DEF E
    <3>1. m \in Int /\ 1 \in Int /\ ~(1 > m) /\ m - 1 + 1 = m
      BY <2>3
    <3> QED BY <2>5, <3>1, FS_Interval
  <2> HIDE DEF E
  <2> QED BY <1>1, <2>3, <2>4, <2>6
<1> QED
  BY <1>2, <1>3

(* complete_mbl: as many entries leave the list at its head as have ended, *)
(* and these are the ones that have.                                       *)
LEMMA CompleteBoundariesOK ==
  ASSUME NEW k, SinkOK(k)
  PROVE  LET r == Sink!CompleteBoundaries(k)
         IN  SinkOK(r.sink) /\ r.acks \in Seq(Answers)
<1> DEFINE g == Sink!GlobalMin(k)
           l == k.mbl
           E == {i \in DOMAIN l : l[i] < g}
           n == IF Len(l) = MaxBoundaries THEN 0 ELSE Sink!Cardinality(E)
           rest == IF n = 0 THEN l
                   ELSE [i \in 1 .. Len(l) - n |-> IF l[i + n] < g THEN Big ELSE l[i + n]]
           gone == {x \in k.missing : x \div Stripes >= k.base + n}
           change == k.change \/ n > 0
           armed == k.armed \/ IF k.windowed THEN n > 0 ELSE l # <<>>
           t == [k EXCEPT !.mbl = rest, !.base = k.base + n, !.missing = gone,
                          !.change = change, !.armed = armed]
           acks0 == [i \in 1 .. n |-> Sink!SackFor(k, k.base + i - 1)]
           r == Sink!CompleteBoundaries(k)
<1>1. IsSink(k) /\ Boundaries(k) /\ Positions(k)
  BY DEF SinkOK
<1>2. r.sink = t /\ r.acks = acks0
  BY DEF Sink!CompleteBoundaries
<1>3. /\ k.base \in Nat /\ l \in Seq(Nat) /\ Len(l) \in Nat
      /\ \A i \in 1 .. Len(l) : l[i] \in Nat
      /\ \A i \in 1 .. Len(l) :
           l[i] = Big \/ (l[i] <= Big /\ l[i] >= (k.base + i - 1) * Stripes)
      /\ \A i, j \in 1 .. Len(l) : i < j => l[i] <= l[j]
  BY <1>1 DEF Boundaries
<1>4. g \in Nat
  BY <1>1, GlobalMinOK
<1> HIDE DEF l, g, r
<1>5. /\ n \in Nat /\ n <= Len(l)
      /\ n # 0 => \A i \in 1 .. Len(l) : l[i] < g <=> i <= n
  <2>1. E = {i \in 1 .. Len(l) : l[i] < g}
    BY <1>3
  <2>2. /\ Cardinality(E) \in Nat /\ Cardinality(E) <= Len(l)
        /\ \A i \in 1 .. Len(l) : l[i] < g <=> i <= Cardinality(E)
    BY <1>3, <1>4, <2>1, EndedFirst
  <2> HIDE DEF E
  <2>3. Sink!Cardinality(E) = Cardinality(E)
    BY SinkCardinality
  <2> QED BY <1>3, <2>2, <2>3
<1> HIDE DEF n
<1>6. acks0 \in Seq(Answers)
  <2>1. \A i \in 1 .. n : Sink!SackFor(k, k.base + i - 1) \in Answers
    <3>1. ASSUME NEW i \in 1 .. n
          PROVE  Sink!SackFor(k, k.base + i - 1) \in Answers
      <4>1. k.base + i - 1 \in Nat
        BY <1>3, <1>5
      <4> QED BY <4>1, SackForOK
    <3> QED BY <3>1
  <2> QED BY <1>5, <2>1
<1>7. /\ rest \in Seq(Nat) /\ Len(rest) = Len(l) - n
      /\ \A i \in 1 .. Len(rest) : i + n \in 1 .. Len(l) /\ rest[i] = l[i + n]
  <2>1. CASE n = 0
    BY <1>3, <2>1
  <2>2. CASE n # 0
    <3> DEFINE q == [i \in 1 .. Len(l) - n |-> IF l[i + n] < g THEN Big ELSE l[i + n]]
    <3>1. Len(l) - n \in Nat
      BY <1>3, <1>5
    <3>2. \A i \in 1 .. Len(l) - n : i + n \in 1 .. Len(l) /\ ~(i + n <= n)
      BY <1>3, <1>5
    <3>3. \A i \in 1 .. Len(l) - n : /\ ~(l[i + n] < g) /\ l[i + n] \in Nat
      BY <1>3, <1>5, <2>2, <3>2
    <3>4. q = [i \in 1 .. Len(l) - n |-> l[i + n]]
      BY <3>3
    <3>5. q \in Seq(Nat) /\ Len(q) = Len(l) - n
          /\ \A i \in 1 .. Len(l) - n : q[i] = l[i + n]
      BY <3>1, <3>3, <3>4
    <3> HIDE DEF q
    <3>6. rest = q
      BY <2>2 DEF q
    <3> HIDE DEF rest
    <3> QED BY <3>2, <3>5, <3>6
  <2> QED BY <2>1, <2>2
<1> HIDE DEF rest
<1>8. gone \subseteq Nat
  BY <1>1 DEF Positions
<1> HIDE DEF gone, change, armed
<1>9. IsSink(t)
  BY <1>1 DEF IsSink, SinkFields
<1>10. /\ t.epsn = k.epsn /\ t.bits = k.bits /\ t.base = k.base + n
       /\ t.mbl = rest /\ t.missing = gone /\ t.acked = k.acked
  BY <1>1, <1>9 DEF IsSink, SinkFields
<1> HIDE DEF t, acks0
<1>11. Boundaries(t)
  <2>1. t.base \in Nat /\ t.mbl \in Seq(Nat)
    BY <1>3, <1>5, <1>7, <1>10
  <2>2. ASSUME NEW i \in 1 .. Len(t.mbl)
        PROVE  \/ t.mbl[i] = Big
               \/ t.mbl[i] <= Big /\ t.mbl[i] >= (t.base + i - 1) * Stripes
    <3>1. i + n \in 1 .. Len(l) /\ t.mbl[i] = l[i + n]
      BY <1>7, <1>10
    <3>2. k.base + (i + n) - 1 = t.base + i - 1
      BY <1>3, <1>5, <1>10
    <3>3. \/ l[i + n] = Big
          \/ l[i + n] <= Big /\ l[i + n] >= (k.base + (i + n) - 1) * Stripes
      BY <1>3, <3>1
    <3> QED BY <3>1, <3>2, <3>3
  <2>3. ASSUME NEW i \in 1 .. Len(t.mbl), NEW j \in 1 .. Len(t.mbl), i < j
        PROVE  t.mbl[i] <= t.mbl[j]
    <3>1. /\ i + n \in 1 .. Len(l) /\ t.mbl[i] = l[i + n]
          /\ j + n \in 1 .. Len(l) /\ t.mbl[j] = l[j + n]
      BY <1>7, <1>10
    <3>2. i + n < j + n
      BY <1>5, <2>3
    <3> QED BY <1>3, <3>1, <3>2
  <2> QED BY <2>1, <2>2, <2>3 DEF Boundaries
<1>12. Positions(t)
  BY <1>1, <1>8, <1>10 DEF Positions, Reach
<1> QED
  BY <1>2, <1>6, <1>9, <1>11, <1>12 DEF SinkOK, r

(* receivePacket *)
LEMMA ReceivePacketOK ==
  ASSUME NEW k, SinkOK(k), NEW pk \in Packets
  PROVE  LET r == Sink!ReceivePacket(k, pk)
         IN  SinkOK(r.sink) /\ r.acks \in Seq(Answers)
<1> DEFINE top   == Sink!Max({k.top, Sink!StripeOf(pk)})
           armed == k.armed \/ (k.windowed /\ ~k.perPath)
           acked == IF k.windowed /\ ~k.perPath THEN k.acked + 1 ELSE k.acked
           seen  == [k EXCEPT !.active = TRUE, !.top = top, !.canSend = k.windowed,
                              !.armed = armed, !.acked = acked]
           known == Sink!UpdateBoundaries(seen, pk)
           check == IF k.perPath THEN Sink!CheckPacketPerPath(known, pk)
                    ELSE Sink!CheckPacketBlock(known, pk)
           after == Sink!Skip(check)
           r     == Sink!ReceivePacket(k, pk)
<1>1. IsSink(k) /\ k.acked \in Int /\ k.missing \subseteq Nat
  BY DEF SinkOK, Positions
<1>2. r \in {[sink |-> after, acks |-> <<>>], Sink!CompleteBoundaries(after)}
  BY DEF Sink!ReceivePacket
<1>3. acked \in Int
  BY <1>1
<1> HIDE DEF top, armed, acked, r
<1>4. SinkOK(seen)
  <2>1. IsSink(seen)
    BY <1>1 DEF IsSink, SinkFields
  <2>2. /\ seen.epsn = k.epsn /\ seen.bits = k.bits /\ seen.base = k.base
        /\ seen.mbl = k.mbl /\ seen.missing = k.missing /\ seen.acked = acked
    BY <1>1, <2>1 DEF IsSink, SinkFields
  <2> HIDE DEF seen
  <2> QED BY <1>1, <1>3, <2>1, <2>2, SinkStays
<1> HIDE DEF seen
<1>5. SinkOK(known)
  BY <1>4, UpdateBoundariesOK
<1> HIDE DEF known
<1>6. SinkOK(check)
  BY <1>5, CheckPacketPerPathOK, CheckPacketBlockOK
<1> HIDE DEF check
<1>7. SinkOK(after)
  BY <1>6, SkipOK
<1> HIDE DEF after
<1>8. <<>> \in Seq(Answers)
  OBVIOUS
<1>9. CASE r = [sink |-> after, acks |-> <<>>]
  BY <1>7, <1>8, <1>9 DEF r
<1>10. CASE r = Sink!CompleteBoundaries(after)
  BY <1>7, <1>10, CompleteBoundariesOK DEF r
<1> QED
  BY <1>2, <1>9, <1>10

-----------------------------------------------------------------------------
(* The receiver: its timers. *)
LEMMA RestartHookOK ==
  ASSUME NEW k, SinkOK(k)
  PROVE  SinkOK(Sink!RestartHook(k))
<1> DEFINE t == Sink!RestartHook(k)
<1>1. IsSink(k) /\ k.acked \in Int /\ k.missing \subseteq Nat
  BY DEF SinkOK, Positions
<1>2. IsSink(t)
  BY <1>1 DEF IsSink, SinkFields, Sink!RestartHook
<1>3. /\ t.epsn = k.epsn /\ t.bits = k.bits /\ t.base = k.base
      /\ t.mbl = k.mbl /\ t.missing = k.missing /\ t.acked = k.acked
  BY <1>1, <1>2 DEF IsSink, SinkFields, Sink!RestartHook
<1> HIDE DEF t
<1> QED
  BY <1>1, <1>2, <1>3, SinkStays DEF t

LEMMA MetricHookOK ==
  ASSUME NEW k, SinkOK(k)
  PROVE  SinkOK(Sink!MetricHook(k))
<1> DEFINE t == Sink!MetricHook(k)
<1>1. IsSink(k) /\ k.acked \in Int /\ k.missing \subseteq Nat
  BY DEF SinkOK, Positions
<1>2. IsSink(t)
  BY <1>1 DEF IsSink, SinkFields, Sink!MetricHook
<1>3. /\ t.epsn = k.epsn /\ t.bits = k.bits /\ t.base = k.base
      /\ t.mbl = k.mbl /\ t.missing = k.missing /\ t.acked = k.acked
  BY <1>1, <1>2 DEF IsSink, SinkFields, Sink!MetricHook
<1> HIDE DEF t
<1> QED
  BY <1>1, <1>2, <1>3, SinkStays DEF t

LEMMA NackType == Sink!NackPacket \in Answers
<1>1. <<>> \in Offsets
  BY Sizes DEF Offsets
<1> QED
  BY <1>1 DEF Sink!NackPacket, Answers

(* restartFlow of the receiver starts over with an empty list. *)
LEMMA SinkRestartOK ==
  ASSUME NEW k, SinkOK(k)
  PROVE  LET r == Sink!SinkRestart(k)
         IN  SinkOK(r.sink) /\ r.acks \in Seq(Answers)
<1> DEFINE zeros  == [p \in Paths |-> 0]
           change == IF k.perPath THEN FALSE ELSE k.change
           live   == IF k.windowed THEN TRUE ELSE k.active
           metric == IF k.perPath THEN k.metric ELSE FALSE
           t == [k EXCEPT !.epsn = zeros, !.bits = {}, !.top = 0, !.base = 0,
                          !.mbl = <<>>, !.missing = {}, !.change = change,
                          !.active = live, !.canSend = k.windowed, !.metric = metric]
           nack == Sink!NackPacket
           r == Sink!SinkRestart(k)
<1>1. IsSink(k) /\ k.acked \in Int
  BY DEF SinkOK, Positions
<1>2. r.sink = t /\ r.acks \in {<<nack, nack>>, <<nack>>}
  BY SinkPaths DEF Sink!SinkRestart
<1>3. zeros \in [Paths -> Nat] /\ \A p \in Paths : zeros[p] = 0
  OBVIOUS
<1> HIDE DEF zeros, change, live, metric, r
<1>4. IsSink(t)
  BY <1>1 DEF IsSink, SinkFields
<1>5. /\ t.epsn = zeros /\ t.bits = {} /\ t.base = 0
      /\ t.mbl = <<>> /\ t.missing = {} /\ t.acked = k.acked
  BY <1>1, <1>4 DEF IsSink, SinkFields
<1> HIDE DEF t
<1>6. Boundaries(t)
  <2>1. t.base \in Nat /\ t.mbl \in Seq(Nat) /\ Len(t.mbl) = 0
    BY <1>5
  <2> QED BY <2>1 DEF Boundaries
<1>7. Positions(t)
  <2>1. Reach(t, 0)
    BY <1>3, <1>5 DEF Reach
  <2> QED BY <1>1, <1>3, <1>5, <2>1 DEF Positions
<1>8. nack \in Answers
  BY NackType
<1> HIDE DEF nack
<1>9. <<nack, nack>> \in Seq(Answers) /\ <<nack>> \in Seq(Answers)
  BY <1>8
<1> QED
  BY <1>2, <1>4, <1>6, <1>7, <1>9 DEF SinkOK, r

(* doNextEvent of the receiver *)
LEMMA SinkEventOK ==
  ASSUME NEW k, SinkOK(k)
  PROVE  LET r == Sink!SinkEvent(k)
         IN  SinkOK(r.sink) /\ r.acks \in Seq(Answers)
<1> DEFINE quiet == [k EXCEPT !.pending = FALSE]
           b == IF k.pending THEN Sink!SinkRestart(quiet)
                ELSE [sink |-> k, acks |-> <<>>]
           calm == [b.sink EXCEPT !.metric = FALSE]
           sent == [b.sink EXCEPT !.metric = FALSE, !.canSend = FALSE, !.acked = 0]
           ack == [type |-> "METRIC", msn |-> 0, missing |-> <<>>,
                   bytes |-> b.sink.acked]
           r == Sink!SinkEvent(k)
<1>1. SinkOK(quiet)
  <2>1. IsSink(k) /\ k.acked \in Int /\ k.missing \subseteq Nat
    BY DEF SinkOK, Positions
  <2>2. IsSink(quiet)
    BY <2>1 DEF IsSink, SinkFields
  <2>3. /\ quiet.epsn = k.epsn /\ quiet.bits = k.bits /\ quiet.base = k.base
        /\ quiet.mbl = k.mbl /\ quiet.missing = k.missing /\ quiet.acked = k.acked
    BY <2>1, <2>2 DEF IsSink, SinkFields
  <2> HIDE DEF quiet
  <2> QED BY <2>1, <2>2, <2>3, SinkStays
<1>2. SinkOK(b.sink) /\ b.acks \in Seq(Answers)
  <2> HIDE DEF quiet
  <2>1. <<>> \in Seq(Answers)
    OBVIOUS
  <2>2. CASE k.pending
    BY <1>1, <2>2, SinkRestartOK
  <2>3. CASE ~k.pending
    BY <2>1, <2>3
  <2> QED BY <2>2, <2>3
<1>3. /\ r.sink \in {b.sink, calm, sent}
      /\ r.acks \in {b.acks, Append(b.acks, ack)}
  BY DEF Sink!SinkEvent
<1> HIDE DEF b, r
<1>4. IsSink(b.sink) /\ b.sink.acked \in Int /\ b.sink.missing \subseteq Nat
  BY <1>2 DEF SinkOK, Positions
<1>5. SinkOK(calm)
  <2>1. IsSink(calm)
    BY <1>4 DEF IsSink, SinkFields
  <2>2. /\ calm.epsn = b.sink.epsn /\ calm.bits = b.sink.bits
        /\ calm.base = b.sink.base /\ calm.mbl = b.sink.mbl
        /\ calm.missing = b.sink.missing /\ calm.acked = b.sink.acked
    BY <1>4, <2>1 DEF IsSink, SinkFields
  <2> HIDE DEF calm
  <2> QED BY <1>2, <1>4, <2>1, <2>2, SinkStays
<1>6. SinkOK(sent)
  <2>1. IsSink(sent)
    BY <1>4 DEF IsSink, SinkFields
  <2>2. /\ sent.epsn = b.sink.epsn /\ sent.bits = b.sink.bits
        /\ sent.base = b.sink.base /\ sent.mbl = b.sink.mbl
        /\ sent.missing = b.sink.missing /\ sent.acked = 0
    BY <1>4, <2>1 DEF IsSink, SinkFields
  <2> HIDE DEF sent
  <2> QED BY <1>2, <1>4, <2>1, <2>2, SinkStays
<1>7. ack \in Answers
  <2>1. <<>> \in Offsets
    BY Sizes DEF Offsets
  <2> QED BY <1>4, <2>1 DEF Answers
<1> HIDE DEF ack, calm, sent
<1>8. Append(b.acks, ack) \in Seq(Answers)
  BY <1>2, <1>7
<1> QED
  BY <1>2, <1>3, <1>5, <1>6, <1>8 DEF r

-----------------------------------------------------------------------------
(* The invariant *)

(* It holds before the first event. *)
LEMMA InitSenderOK ==
  ASSUME NEW a \in BOOLEAN, NEW w \in BOOLEAN
  PROVE  SenderOK(InitSender(a, w))
<1> DEFINE s == InitSender(a, w)
<1>1. IsSender(s)
  BY DEF IsSender, InitSender, SenderFields
<1>2. /\ s.messages = <<>> /\ s.original = <<>> /\ s.sacks = <<>> /\ s.retrans = <<>>
      /\ s.unfinished = <<>> /\ s.nextRetrans = 0 /\ s.erased = 0 /\ s.events = 1
      /\ s.content = <<>> /\ ~s.started /\ ~s.finished /\ ~s.pending
      /\ s.windowed = w
  BY DEF InitSender
<1> HIDE DEF s
<1>3. Lists(s)
  BY <1>2 DEF Lists
<1>4. Contents(s)
  BY <1>2 DEF Contents
<1>5. Within(s)
  BY <1>2 DEF Within
<1>6. Awake(s)
  BY <1>2 DEF Awake, Due, HasData
<1> QED
  BY <1>1, <1>2, <1>3, <1>4, <1>5, <1>6 DEF SenderOK, Begun, s

LEMMA InitSinkOK ==
  ASSUME NEW a \in BOOLEAN, NEW w \in BOOLEAN
  PROVE  LET k == Sink!InitSink(a, w)
         IN  SinkOK(k) /\ ~k.armed /\ ~k.pending /\ ~k.metric /\ k.acked = 0
<1> DEFINE k == Sink!InitSink(a, w)
<1>1. IsSink(k)
  BY DEF IsSink, Sink!InitSink, SinkFields
<1>2. /\ k.epsn = [p \in Paths |-> 0] /\ k.bits = {} /\ k.base = 0 /\ k.mbl = <<>>
      /\ k.missing = {} /\ k.acked = 0 /\ ~k.armed /\ ~k.pending /\ ~k.metric
  BY SinkPaths DEF Sink!InitSink
<1> HIDE DEF k
<1>3. Boundaries(k)
  BY <1>2 DEF Boundaries
<1>4. Positions(k)
  <2>1. Reach(k, 0)
    BY <1>2 DEF Reach
  <2> QED BY <1>2, <2>1 DEF Positions
<1> QED
  BY <1>1, <1>2, <1>3, <1>4 DEF SinkOK, k

LEMMA InitInv == Init => IInv
<1> SUFFICES ASSUME Init PROVE IInv
  OBVIOUS
<1>1. PICK v \in Variants : /\ sender = InitSender(v[1], v[2])
                            /\ sink = Sink!InitSink(v[1], v[2])
  BY DEF Init
<1>2. v[1] \in BOOLEAN /\ v[2] \in BOOLEAN
  BY SinkAssumption
<1>3. data = [p \in Paths |-> <<>>] /\ acks = <<>>
  BY DEF Init
<1>4. SenderOK(sender)
  BY <1>1, <1>2, InitSenderOK
<1>5. SinkOK(sink) /\ ~sink.armed /\ ~sink.pending /\ ~sink.metric /\ sink.acked = 0
  BY <1>1, <1>2, InitSinkOK
<1>6. data \in [Paths -> Seq(Packets)] /\ acks \in Seq(Answers)
  BY <1>3
<1>7. Silent
  BY <1>3, <1>5 DEF Silent
<1> QED
  BY <1>4, <1>5, <1>6, <1>7 DEF IInv

(* A step of the sender, which has not used up the bounds. *)
LEMMA NotUsedUp ==
  ASSUME IInv, ~Stopped
  PROVE  ~UsedUp(sender)
<1>1. sender.unfinished \in Seq(Entries)
  BY DEF IInv, SenderOK, Lists
<1>2. DOMAIN sender.unfinished = 1 .. Len(sender.unfinished)
  BY <1>1
<1> QED
  BY <1>2 DEF Stopped, Exhausted, UsedUp

LEMMA SendEventInv ==
  ASSUME IInv, SendEvent
  PROVE  IInv'
<1> DEFINE s == StartFlow(sender)
           t == [s EXCEPT !.failed = "abort"]
           p == NextPacket(s)
<1>1. ~UsedUp(sender) /\ SenderOK(sender)
  BY NotUsedUp DEF IInv, SendEvent, Running
<1>2. SenderOK(s) /\ ~UsedUp(s) /\ s.started
  BY <1>1, StartFlowOK
<1>3. /\ HasData(s)
      /\ \/ sender' = t /\ UNCHANGED data
         \/ /\ sender' = SendNextPacket(s)
            /\ data' = [data EXCEPT ![p.path] = Append(@, p)]
      /\ UNCHANGED <<sink, acks>>
  BY DEF SendEvent
<1> HIDE DEF s
<1>4. SenderOK(t) /\ t.started
  <2>1. IsSender(s)
    BY <1>2 DEF SenderOK
  <2>2. IsSender(t)
    BY <2>1 DEF IsSender, SenderFields
  <2>3. /\ t.messages = s.messages /\ t.sacks = s.sacks /\ t.unfinished = s.unfinished
        /\ t.original = s.original /\ t.retrans = s.retrans
        /\ t.nextRetrans = s.nextRetrans /\ t.erased = s.erased
        /\ t.content = s.content /\ t.events = s.events /\ t.windowed = s.windowed
        /\ t.started = s.started /\ t.finished = s.finished /\ t.pending = s.pending
    BY <2>1, <2>2 DEF IsSender, SenderFields
  <2> HIDE DEF t
  <2> QED BY <1>2, <2>2, <2>3, Untouched
<1>5. SenderOK(SendNextPacket(s)) /\ SendNextPacket(s).started
  BY <1>2, <1>3, SendNextPacketOK
<1>6. p \in Packets /\ p.path \in Paths
  <2>1. p \in Packets
    BY <1>2, <1>3, NextPacketType
  <2> HIDE DEF p
  <2> QED BY <2>1, PacketType
<1> HIDE DEF t, p
<1>7. SenderOK(sender') /\ sender'.started
  BY <1>3, <1>4, <1>5
<1>8. data' \in [Paths -> Seq(Packets)]
  <2>1. data \in [Paths -> Seq(Packets)]
    BY DEF IInv
  <2>2. CASE data' = data
    BY <2>1, <2>2
  <2>3. CASE data' = [data EXCEPT ![p.path] = Append(@, p)]
    <3>1. Append(data[p.path], p) \in Seq(Packets)
      BY <1>6, <2>1
    <3> QED BY <2>1, <2>3, <3>1
  <2> QED BY <1>3, <2>2, <2>3
<1> QED
  BY <1>3, <1>7, <1>8 DEF IInv, SinkOK, IsSink, Boundaries, Positions, Reach

(* A step of the sender that does not send, once the flow has started, or a *)
(* step of the receiver or of the network.                                  *)
LEMMA Steps ==
  ASSUME IInv, SenderOK(sender'), sender'.started, SinkOK(sink'),
         data' \in [Paths -> Seq(Packets)], acks' \in Seq(Answers)
  PROVE  IInv'
BY DEF IInv

LEMMA ChainEndsInv ==
  ASSUME IInv, ChainEnds
  PROVE  IInv'
<1> DEFINE t == [sender EXCEPT !.events = @ - 1]
<1>1. SenderOK(sender) /\ IsSender(sender) /\ Lists(sender) /\ Awake(sender)
  BY DEF IInv, SenderOK
<1>2. /\ sender' = t /\ sender.started /\ sender.events > 0 /\ ~sender.windowed
      /\ ~HasData(sender) /\ ~sender.pending
      /\ UNCHANGED <<sink, data, acks>>
  BY DEF ChainEnds
<1>3. IsSender(t)
  BY <1>1 DEF IsSender, SenderFields
<1>4. /\ t.messages = sender.messages /\ t.sacks = sender.sacks
      /\ t.unfinished = sender.unfinished /\ t.original = sender.original
      /\ t.retrans = sender.retrans /\ t.nextRetrans = sender.nextRetrans
      /\ t.erased = sender.erased /\ t.content = sender.content
      /\ t.events = sender.events - 1 /\ t.windowed = sender.windowed
      /\ t.started = sender.started /\ t.finished = sender.finished
      /\ t.pending = sender.pending
  BY <1>1, <1>3 DEF IsSender, SenderFields
<1> HIDE DEF t
<1>5. t.events \in Nat
  BY <1>1, <1>2, <1>4 DEF Lists
<1>6. Awake(t) /\ Begun(t)
  BY <1>2, <1>4, <1>5 DEF Awake, Due, HasData, Begun
<1>7. SenderOK(t)
  BY <1>1, <1>3, <1>4, <1>5, <1>6, Neutral
<1> QED
  BY <1>2, <1>4, <1>7, Steps DEF IInv

LEMMA SenderTimerInv ==
  ASSUME IInv, SenderTimer
  PROVE  IInv'
<1> DEFINE n == IF sender.windowed THEN sender.events ELSE sender.events + 1
           d == [sender EXCEPT !.pending = TRUE]
           t == [d EXCEPT !.events = n]
<1>1. SenderOK(sender) /\ IsSender(sender) /\ Lists(sender) /\ Awake(sender)
  BY DEF IInv, SenderOK
<1>2. /\ sender' = t /\ sender.started /\ ~sender.pending
      /\ UNCHANGED <<sink, data, acks>>
  BY <1>1 DEF SenderTimer, IsSender, SenderFields
<1>3. n \in Nat /\ (IF sender.windowed THEN n = sender.events ELSE n = sender.events + 1)
  BY <1>1 DEF Lists
<1> HIDE DEF n
<1>4. IsSender(t)
  BY <1>1 DEF IsSender, SenderFields
<1>5. /\ t.messages = sender.messages /\ t.sacks = sender.sacks
      /\ t.unfinished = sender.unfinished /\ t.original = sender.original
      /\ t.retrans = sender.retrans /\ t.nextRetrans = sender.nextRetrans
      /\ t.erased = sender.erased /\ t.content = sender.content
      /\ t.events = n /\ t.windowed = sender.windowed
      /\ t.started = sender.started /\ t.finished = sender.finished
      /\ t.pending = TRUE
  BY <1>1, <1>4 DEF IsSender, SenderFields
<1> HIDE DEF t
<1>6. Awake(t) /\ Begun(t)
  BY <1>1, <1>2, <1>3, <1>5 DEF Awake, Due, HasData, Begun, Lists
<1>7. SenderOK(t)
  BY <1>1, <1>3, <1>4, <1>5, <1>6, Neutral
<1> QED
  BY <1>2, <1>5, <1>7, Steps DEF IInv

LEMMA TimeoutEventInv ==
  ASSUME IInv, TimeoutEvent
  PROVE  IInv'
<1> DEFINE n == IF sender.windowed THEN sender.events ELSE sender.events - 1
           d == [sender EXCEPT !.pending = FALSE]
           t == [d EXCEPT !.events = n]
<1>1. SenderOK(sender) /\ IsSender(sender) /\ Lists(sender) /\ Awake(sender)
      /\ Begun(sender)
  BY DEF IInv, SenderOK
<1>2. /\ sender' \in SackTimeout(t) /\ sender.pending /\ ~sender.finished /\ ~Stopped
      /\ UNCHANGED <<sink, data, acks>>
  BY <1>1 DEF TimeoutEvent, Running, IsSender, SenderFields
<1>3. sender.started
  BY <1>1, <1>2 DEF Begun
<1>4. n \in Nat /\ (IF sender.windowed THEN n = sender.events ELSE n = sender.events - 1)
  BY <1>1, <1>2, <1>3 DEF Lists, Awake, Due
<1> HIDE DEF n
<1>5. IsSender(t)
  BY <1>1 DEF IsSender, SenderFields
<1>6. /\ t.messages = sender.messages /\ t.sacks = sender.sacks
      /\ t.unfinished = sender.unfinished /\ t.original = sender.original
      /\ t.retrans = sender.retrans /\ t.nextRetrans = sender.nextRetrans
      /\ t.erased = sender.erased /\ t.content = sender.content
      /\ t.events = n /\ t.windowed = sender.windowed
      /\ t.started = sender.started /\ t.finished = sender.finished
      /\ t.pending = FALSE
  BY <1>1, <1>5 DEF IsSender, SenderFields
<1> HIDE DEF t
<1>7. Awake(t) /\ Begun(t)
  BY <1>1, <1>2, <1>3, <1>4, <1>6, SMTT(20) DEF Awake, Due, HasData, Begun, Lists
<1>8. SenderOK(t) /\ ~UsedUp(t)
  BY <1>1, <1>2, <1>4, <1>5, <1>6, <1>7, Neutral, NotUsedUp
<1>9. SenderOK(sender') /\ sender'.started
  BY <1>2, <1>3, <1>6, <1>8, SackTimeoutOK
<1> QED
  BY <1>2, <1>9, Steps DEF IInv

(* Something is on its way only once the flow has started. *)
LEMMA Started ==
  ASSUME IInv, ~Silent
  PROVE  sender.started
BY DEF IInv

LEMMA TailType ==
  ASSUME NEW S, NEW l \in Seq(S), l # <<>>
  PROVE  Tail(l) \in Seq(S) /\ Head(l) \in S
OBVIOUS

LEMMA ReceiveAckInv ==
  ASSUME IInv, ReceiveAck
  PROVE  IInv'
<1> DEFINE pk == Head(acks)
<1>1. SenderOK(sender) /\ acks \in Seq(Answers)
  BY DEF IInv
<1>2. /\ acks # <<>> /\ acks' = Tail(acks) /\ ~Stopped
      /\ UNCHANGED <<sink, data>>
  BY DEF ReceiveAck
<1>3. pk \in Answers /\ acks' \in Seq(Answers)
  BY <1>1, <1>2, TailType
<1>4. sender.started
  BY <1>2, Started DEF Silent
<1>5. ~UsedUp(sender)
  BY <1>2, NotUsedUp
<1>6. /\ pk.type = "SACK" => sender' \in ProcessSack(sender, pk)
      /\ pk.type = "NACK" => sender' \in {RestartFlow(sender)}
      /\ pk.type = "METRIC" => sender' \in ProcessMetricAck(sender, mimd, pk.bytes)
  BY DEF ReceiveAck
<1>7. pk.type \in {"SACK", "NACK", "METRIC"}
  BY <1>3 DEF Answers
<1> HIDE DEF pk
<1>8. SenderOK(sender') /\ sender'.started
  <2>1. CASE pk.type = "SACK"
    BY <1>1, <1>3, <1>4, <1>5, <1>6, <2>1, ProcessSackOK
  <2>2. CASE pk.type = "NACK"
    BY <1>1, <1>4, <1>6, <2>2, RestartFlowOK
  <2>3. CASE pk.type = "METRIC"
    BY <1>1, <1>4, <1>6, <2>3, ProcessMetricAckOK
  <2> QED BY <1>7, <2>1, <2>2, <2>3
<1> QED
  BY <1>2, <1>3, <1>8, Steps DEF IInv

LEMMA ReceiveDataInv ==
  ASSUME IInv, NEW p \in Paths, ReceiveData(p)
  PROVE  IInv'
<1> DEFINE pk == Head(data[p])
           r  == Sink!ReceivePacket(sink, pk)
<1>1. /\ SinkOK(sink) /\ data \in [Paths -> Seq(Packets)] /\ acks \in Seq(Answers)
      /\ SenderOK(sender)
  BY DEF IInv
<1>2. /\ data[p] # <<>> /\ data' = [data EXCEPT ![p] = Tail(@)]
      /\ sink' = r.sink /\ acks' = acks \o r.acks /\ UNCHANGED sender
  BY DEF ReceiveData
<1>3. pk \in Packets /\ Tail(data[p]) \in Seq(Packets)
  BY <1>1, <1>2, TailType
<1>4. data' \in [Paths -> Seq(Packets)]
  BY <1>1, <1>2, <1>3
<1>5. SinkOK(r.sink) /\ r.acks \in Seq(Answers)
  BY <1>1, <1>3, ReceivePacketOK
<1> HIDE DEF r
<1>6. acks \o r.acks \in Seq(Answers)
  BY <1>1, <1>5
<1>7. sender.started
  BY <1>2, Started DEF Silent
<1> QED
  BY <1>1, <1>2, <1>4, <1>5, <1>6, <1>7, Steps

LEMMA SinkEventInv ==
  ASSUME IInv, SinkEvent
  PROVE  IInv'
<1> DEFINE r == Sink!SinkEvent(sink)
<1>1. /\ SinkOK(sink) /\ data \in [Paths -> Seq(Packets)] /\ acks \in Seq(Answers)
      /\ SenderOK(sender)
  BY DEF IInv
<1>2. /\ sink.pending \/ sink.metric
      /\ sink' = r.sink /\ acks' = acks \o r.acks /\ UNCHANGED <<sender, data>>
  BY DEF SinkEvent
<1>3. SinkOK(r.sink) /\ r.acks \in Seq(Answers)
  BY <1>1, SinkEventOK
<1> HIDE DEF r
<1>4. acks \o r.acks \in Seq(Answers)
  BY <1>1, <1>3
<1>5. sender.started
  BY <1>2, Started DEF Silent
<1> QED
  BY <1>1, <1>2, <1>3, <1>4, <1>5, Steps

(* The timers of the receiver *)
LEMMA SinkTimersInv ==
  ASSUME IInv, SinkTimer \/ MetricTimer
  PROVE  IInv'
<1>1. /\ SinkOK(sink) /\ data \in [Paths -> Seq(Packets)] /\ acks \in Seq(Answers)
      /\ SenderOK(sender)
  BY DEF IInv
<1>2. /\ sink.armed \/ sink.acked > 0
      /\ sink' = Sink!RestartHook(sink) \/ sink' = Sink!MetricHook(sink)
      /\ UNCHANGED <<sender, data, acks>>
  BY DEF SinkTimer, MetricTimer
<1>3. SinkOK(sink')
  BY <1>1, <1>2, RestartHookOK, MetricHookOK
<1>4. sender.started
  BY <1>2, Started DEF Silent
<1> QED
  BY <1>1, <1>2, <1>3, <1>4, Steps

(* Faults *)
LEMMA FaultsInv ==
  ASSUME IInv, LoseAck \/ (\E p \in Paths : LoseData(p))
  PROVE  IInv'
<1>1. /\ SinkOK(sink) /\ data \in [Paths -> Seq(Packets)] /\ acks \in Seq(Answers)
      /\ SenderOK(sender)
  BY DEF IInv
<1>2. CASE LoseAck
  <2>1. acks # <<>> /\ acks' = Tail(acks) /\ UNCHANGED <<sender, sink, data>>
    BY <1>2 DEF LoseAck
  <2>2. acks' \in Seq(Answers)
    BY <1>1, <2>1, TailType
  <2>3. sender.started
    BY <2>1, Started DEF Silent
  <2> QED BY <1>1, <2>1, <2>2, <2>3, Steps
<1>3. ASSUME NEW p \in Paths, LoseData(p)
      PROVE  IInv'
  <2>1. /\ data[p] # <<>> /\ data' = [data EXCEPT ![p] = Tail(@)]
        /\ UNCHANGED <<sender, sink, acks>>
    BY <1>3 DEF LoseData
  <2>2. Tail(data[p]) \in Seq(Packets)
    BY <1>1, <2>1, TailType
  <2>3. data' \in [Paths -> Seq(Packets)]
    BY <1>1, <2>1, <2>2
  <2>4. sender.started
    BY <2>1, Started DEF Silent
  <2> QED BY <1>1, <2>1, <2>3, <2>4, Steps
<1> QED
  BY <1>2, <1>3

LEMMA NextInv == IInv /\ [Next]_vars => IInv'
<1> SUFFICES ASSUME IInv, [Next]_vars PROVE IInv'
  OBVIOUS
<1>1. CASE SendEvent
  BY <1>1, SendEventInv
<1>2. CASE ChainEnds
  BY <1>2, ChainEndsInv
<1>3. CASE TimeoutEvent
  BY <1>3, TimeoutEventInv
<1>4. CASE SenderTimer
  BY <1>4, SenderTimerInv
<1>5. CASE ReceiveAck
  BY <1>5, ReceiveAckInv
<1>6. ASSUME NEW p \in Paths, ReceiveData(p)
      PROVE  IInv'
  BY <1>6, ReceiveDataInv
<1>7. CASE LoseAck \/ \E p \in Paths : LoseData(p)
  BY <1>7, FaultsInv
<1>8. CASE SinkTimer \/ MetricTimer
  BY <1>8, SinkTimersInv
<1>9. CASE SinkEvent
  BY <1>9, SinkEventInv
<1>10. CASE ScannerStops \/ Over \/ UNCHANGED vars
  <2>1. UNCHANGED <<sender, sink, data, acks>>
    BY <1>10 DEF ScannerStops, Over, vars
  <2> QED BY <2>1 DEF IInv, Silent
<1> QED
  BY <1>1, <1>2, <1>3, <1>4, <1>5, <1>6, <1>7, <1>8, <1>9, <1>10 DEF Next

(* The invariant holds in every state the flow can reach: whatever SACKs,    *)
(* NACKs and timeouts do to the numbers of the messages, every number on the *)
(* lists of the sender has its stripes, a packet on its way has a number     *)
(* within the bounds, and an answer reports no more stripes than a message   *)
(* has (processECSACK, SACKTimeOut, restartFlow, complete_mbl).              *)
THEOREM FlowInvariant == Spec => []IInv
BY InitInv, NextInv, PTL DEF Spec

(* Without congestion control the senders live from one scheduled event to    *)
(* the next (doNextEvent of kecbr and 1ecbr); whatever SACKs, NACKs, timeouts *)
(* and losses do, an event is scheduled while there is something to send.     *)
THEOREM SenderNeverAsleep == Spec => []SenderAwake
<1>1. IInv => SenderAwake
  <2> SUFFICES ASSUME IInv, Running, sender.started, HasData(sender)
               PROVE  sender.events > 0
    BY DEF SenderAwake
  <2>1. sender.events \in Nat /\ Awake(sender) /\ ~sender.finished
    BY DEF IInv, SenderOK, Lists, Running
  <2> QED BY <2>1 DEF Awake, Due
<1> QED
  BY <1>1, FlowInvariant, PTL

(* In whatever order and over whatever paths the packets of the messages  *)
(* arrive, the boundaries that the receiver learns from them ascend       *)
(* (update_mbl, complete_mbl, restartFlow): complete_mbl may take as many *)
(* entries off the head of the list as it found ended.                    *)
THEOREM BoundariesStaySorted == Spec => []BoundariesAscend
<1>1. IInv => BoundariesAscend
  <2> SUFFICES ASSUME IInv PROVE BoundariesAscend
    OBVIOUS
  <2>1. Boundaries(sink)
    BY DEF IInv, SinkOK
  <2>2. DOMAIN sink.mbl = 1 .. Len(sink.mbl)
    BY <2>1 DEF Boundaries
  <2> QED BY <2>1, <2>2 DEF Boundaries, BoundariesAscend
<1> QED
  BY <1>1, FlowInvariant, PTL
=============================================================================
