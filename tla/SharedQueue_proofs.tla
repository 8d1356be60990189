-------------------------- MODULE SharedQueue_proofs --------------------------
(***************************************************************************)
(* Proofs about SharedQueue, for any number of ports and classes, any      *)
(* weights that cover a packet and any shares up to 1.                     *)
(* The invariant has three parts: every byte is counted once, in its class *)
(* and in the buffer; a port with packets has one packet paid for; and     *)
(* what a waiting class has seen chosen before it was paid with tokens     *)
(* saved before it could have been chosen itself.                          *)
(***************************************************************************)
EXTENDS SharedQueue, TLAPS, WellFoundedInduction, SequenceTheorems,
        FiniteSetTheorems

Packets == 1..MaxSize

(* b is the sum of the packets s: r holds the sums of the suffixes of s. *)
SumsTo(s, b) ==
  \E r \in [1..(Len(s) + 1) -> Nat] :
    /\ r[1] = b /\ r[Len(s) + 1] = 0
    /\ \A i \in 1..Len(s) : r[i] = s[i] + r[i + 1]

Counted == \A p \in Ports : \A c \in Qos : SumsTo(queued[p][c], bytes[p][c])

(* f lists the classes of all the ports. *)
Enumerates(n, f) ==
  /\ n \in Nat
  /\ f \in [1..n -> Ports \X Qos]
  /\ \A i, j \in 1..n : f[i] = f[j] => i = j
  /\ \A p \in Ports : \A c \in Qos : \E i \in 1..n : f[i] = <<p, c>>

BytesAt(b, e) == b[e[1]][e[2]]

(* The buffer holds u bytes, the classes in the order of f the bytes b: r    *)
(* holds the partial sums.                                                    *)
Accounts(n, f, b, u) ==
  \E r \in [0..n -> Int] :
    /\ r[0] = 0 /\ r[n] = u
    /\ \A i \in 1..n : r[i] = r[i - 1] + BytesAt(b, f[i])
    /\ \A i, j \in 0..n : i <= j => r[i] <= r[j]

(* A port with packets has one completion pending, of the class that paid. *)
Paid ==
  \A p \in Ports :
    IF \E c \in Qos : queued[p][c] # <<>>
    THEN events[p] = 1 /\ next_qos[p] = last_qos[p] /\ queued[p][next_qos[p]] # <<>>
    ELSE events[p] = 0

(* What class c has seen of class d was paid with tokens saved, or c has the *)
(* tokens for its packet and comes before d but for one packet.              *)
Saved(t, w, c, d) == w[c][d] + t[d] <= Cap * Weights[d]
Ready(q, t, last, w, c, d) ==
  /\ q[c] # <<>> /\ t[c] >= Head(q[c])
  /\ \/ w[c][d] <= Cap * Weights[d]
     \/ w[c][d] <= Limit(d) /\ Turn(last, c) < Turn(last, d)

PortType(q, t, last, w) ==
  /\ q \in [Qos -> Seq(Packets)] /\ t \in [Qos -> Nat] /\ last \in Qos
  /\ w \in [Qos -> [Qos -> Nat]]

Fair(q, t, last, w) ==
  /\ \A c \in Qos : t[c] <= Cap * Weights[c] /\ w[c][c] = 0
  /\ \A c \in Qos : q[c] = <<>> \/ c = last => w[c] = Nothing
  /\ \A c, d \in Qos : c # d => Saved(t, w, c, d) \/ Ready(q, t, last, w, c, d)

FairPorts == \A p \in Ports : Fair(queued[p], tokens[p], last_qos[p], waited[p])

IInv(n, f) ==
  /\ TypeOK /\ failure = "none"
  /\ Counted /\ Accounts(n, f, bytes, used)
  /\ Paid /\ FairPorts /\ NoMonopoly

-----------------------------------------------------------------------------
(* Arithmetic. *)

LEMMA TurnIsLess ==
  ASSUME NEW a \in Qos, NEW c \in Qos
  PROVE  /\ Turn(a, c) \in Nat /\ Turn(a, c) <= Turn(a, a)
         /\ c # a => Turn(a, c) < Turn(a, a)
BY SharedQueueAssumption DEF Qos, Turn

LEMMA TurnIsInjective ==
  ASSUME NEW a \in Qos, NEW c \in Qos, NEW d \in Qos, Turn(a, c) = Turn(a, d)
  PROVE  c = d
BY SharedQueueAssumption DEF Qos, Turn

(* Classes that come after e keep their order when the scan starts at e. *)
LEMMA TurnShifts ==
  ASSUME NEW a \in Qos, NEW e \in Qos, NEW c \in Qos, NEW d \in Qos,
         Turn(a, e) < Turn(a, c), Turn(a, c) < Turn(a, d)
  PROVE  Turn(e, c) < Turn(e, d)
BY SharedQueueAssumption DEF Qos, Turn

LEMMA ClassBounds ==
  ASSUME NEW c \in Qos
  PROVE  /\ Cap * Weights[c] \in Nat /\ Weights[c] \in Nat /\ Weights[c] >= MaxSize
         /\ Weights[c] <= Cap * Weights[c] /\ Limit(c) = Cap * Weights[c] + MaxSize
         /\ Cap * Weights[c] <= Limit(c) /\ Limit(c) \in Nat /\ MaxSize \in Nat
<1>1. Weights[c] \in Nat /\ Cap \in Nat /\ Cap >= 1 /\ MaxSize \in Nat
      /\ Weights[c] >= MaxSize
  BY SharedQueueAssumption
<1>2. \A k, w \in Nat : k >= 1 => k * w \in Nat /\ w <= k * w
  <2> TAKE k, w \in Nat
  <2> HAVE k >= 1
  <2>1. k * w = w + (k - 1) * w /\ (k - 1) * w >= 0
    OBVIOUS
  <2>2. QED
    BY <2>1
<1>3. QED
  BY <1>1, <1>2 DEF Limit

(* FirstOf returns the class of S that is tried first. *)
LEMMA FirstOfIn ==
  ASSUME NEW S \in SUBSET Qos, S # {}, NEW last \in Qos
  PROVE  /\ FirstOf(S, last) \in S
         /\ \A d \in S : Turn(last, FirstOf(S, last)) <= Turn(last, d)
<1> DEFINE R == OpToRel(<, Nat)
           T == {Turn(last, c) : c \in S}
<1>1. T \in SUBSET Nat /\ T # {}
  BY TurnIsLess
<1>2. PICK x \in T : \A y \in T : ~ (<<y, x>> \in R)
  BY <1>1, WFMin, NatLessThanWellFounded, Zenon
<1>3. \A u, v \in Nat : u < v => <<u, v>> \in R
  BY DEF OpToRel
<1>4. \A c \in S : Turn(last, c) \in T
  OBVIOUS
<1>5. PICK c \in S : x = Turn(last, c)
  BY <1>2
<1> HIDE DEF R, T
<1>6. \A d \in S : ~ (Turn(last, d) < Turn(last, c))
  BY <1>1, <1>2, <1>3, <1>4, <1>5
<1>7. \A d \in S : Turn(last, c) <= Turn(last, d)
  BY <1>6, TurnIsLess
<1>8. QED
  BY <1>7 DEF FirstOf

-----------------------------------------------------------------------------
(* Bytes of a class. *)

LEMMA BytesTell ==
  ASSUME NEW s \in Seq(Packets), NEW b, SumsTo(s, b)
  PROVE  /\ b \in Nat /\ (b = 0 <=> s = <<>>)
         /\ s # <<>> => Head(s) \in Packets /\ Head(s) <= b
<1>1. Len(s) \in Nat /\ (s # <<>> => Len(s) >= 1 /\ s[1] \in Packets /\ Head(s) = s[1])
      /\ (s = <<>> => Len(s) = 0)
  <2>1. s # <<>> => Len(s) \in Nat \ {0} /\ s[1] \in Packets /\ Head(s) = s[1]
    BY EmptySeq, LenProperties, HeadTailProperties
  <2>2. QED
    BY <2>1, EmptySeq, LenProperties
<1>2. PICK r \in [1..(Len(s) + 1) -> Nat] :
        /\ r[1] = b /\ r[Len(s) + 1] = 0
        /\ \A i \in 1..Len(s) : r[i] = s[i] + r[i + 1]
  BY DEF SumsTo
<1>3. CASE s = <<>>
  <2>1. Len(s) = 0 /\ r[1] = 0 /\ r[1] = b
    BY <1>1, <1>2, <1>3
  <2>2. QED
    BY <1>3, <2>1
<1>4. CASE s # <<>>
  <2>1. r[1] = s[1] + r[2] /\ r[2] \in Nat /\ r[1] = b
    BY <1>1, <1>2, <1>4
  <2>2. QED
    BY <1>1, <1>4, <2>1 DEF Packets
<1>5. QED
  BY <1>3, <1>4

LEMMA AppendCounts ==
  ASSUME NEW s \in Seq(Packets), NEW b, SumsTo(s, b), NEW size \in Packets
  PROVE  SumsTo(Append(s, size), b + size)
<1> DEFINE n == Len(s)
<1>1. n \in Nat /\ size \in Nat
  BY LenProperties DEF Packets
<1>2. PICK r \in [1..(n + 1) -> Nat] :
        r[1] = b /\ r[n + 1] = 0 /\ \A i \in 1..n : r[i] = s[i] + r[i + 1]
  BY DEF SumsTo
<1> DEFINE a == Append(s, size)
           g == [i \in 1..(n + 2) |-> IF i = n + 2 THEN 0 ELSE r[i] + size]
<1>3. /\ Len(a) = n + 1 /\ a[n + 1] = size
      /\ \A i \in 1..n : a[i] = s[i]
      /\ \A i \in 1..n : s[i] \in Nat
  <2>1. \A i \in 1..n : s[i] \in Packets
    BY LenProperties
  <2>2. /\ Len(a) = n + 1 /\ a[n + 1] = size /\ \A i \in 1..n : a[i] = s[i]
    BY AppendProperties
  <2>3. QED
    BY <2>1, <2>2 DEF Packets
<1> HIDE DEF n, a
<1>4. g \in [1..(n + 2) -> Nat]
  BY <1>1, <1>2
<1>5. g[1] = b + size /\ g[n + 2] = 0
  BY <1>1, <1>2
<1>6. ASSUME NEW i \in 1..(n + 1) PROVE g[i] = a[i] + g[i + 1]
  <2>1. CASE i = n + 1
    BY <1>1, <1>2, <1>3, <2>1
  <2>2. CASE i # n + 1
    <3>1. i \in 1..n /\ i + 1 \in 1..(n + 1) /\ i + 1 # n + 2 /\ i # n + 2
      BY <1>1, <2>2
    <3>2. g[i] = r[i] + size /\ g[i + 1] = r[i + 1] + size
      BY <1>1, <3>1
    <3>3. r[i] = s[i] + r[i + 1] /\ a[i] = s[i] /\ r[i + 1] \in Nat /\ s[i] \in Nat
      BY <1>2, <1>3, <3>1
    <3>4. QED
      BY <1>1, <3>2, <3>3, SMTT(30)
  <2>3. QED
    BY <2>1, <2>2
<1>7. QED
  <2>1. Len(a) + 1 = n + 2
    BY <1>1, <1>3
  <2> HIDE DEF g
  <2>2. SumsTo(a, b + size)
    BY <1>3, <1>4, <1>5, <1>6, <2>1 DEF SumsTo
  <2>3. QED
    BY <2>2 DEF a

LEMMA TailCounts ==
  ASSUME NEW s \in Seq(Packets), NEW b, SumsTo(s, b), s # <<>>
  PROVE  SumsTo(Tail(s), b - Head(s))
<1> DEFINE n == Len(s)
           a == Tail(s)
<1>1. /\ n \in Nat \ {0} /\ Len(a) = n - 1 /\ \A i \in 1..(n - 1) : a[i] = s[i + 1]
      /\ Head(s) = s[1] /\ s[1] \in Nat
  <2>1. n \in Nat \ {0}
    BY EmptySeq
  <2>2. s[1] \in Packets
    BY <2>1, LenProperties
  <2>3. Len(a) = n - 1 /\ \A i \in 1..(n - 1) : a[i] = s[i + 1]
    BY <2>1, HeadTailProperties
  <2>4. Head(s) = s[1]
    OBVIOUS
  <2>5. QED
    BY <2>1, <2>2, <2>3, <2>4 DEF Packets
<1>2. PICK r \in [1..(n + 1) -> Nat] :
        r[1] = b /\ r[n + 1] = 0 /\ \A i \in 1..n : r[i] = s[i] + r[i + 1]
  BY DEF SumsTo
<1> DEFINE g == [i \in 1..n |-> r[i + 1]]
<1> HIDE DEF n, a
<1>3. g \in [1..n -> Nat] /\ g[n] = 0
  BY <1>1, <1>2
<1>4. g[1] = b - Head(s)
  BY <1>1, <1>2
<1>5. ASSUME NEW i \in 1..(n - 1) PROVE g[i] = a[i] + g[i + 1]
  BY <1>1, <1>2
<1> HIDE DEF g
<1>6. SumsTo(a, b - Head(s))
  <2>1. Len(a) + 1 = n
    BY <1>1
  <2>2. Len(a) = n - 1
    BY <1>1
  <2>3. \A i \in 1..Len(a) : g[i] = a[i] + g[i + 1]
    BY <1>5, <2>2
  <2>4. g \in [1..(Len(a) + 1) -> Nat] /\ g[Len(a) + 1] = 0
    BY <1>3, <2>1
  <2>5. QED
    BY <1>4, <2>3, <2>4 DEF SumsTo
<1>7. QED
  BY <1>6 DEF a

-----------------------------------------------------------------------------
(* Bytes of the buffer. *)

(* No class holds more than the buffer. *)
LEMMA ClassWithinBuffer ==
  ASSUME NEW n, NEW f, Enumerates(n, f), NEW b \in [Ports -> [Qos -> Nat]], NEW u,
         Accounts(n, f, b, u), NEW p \in Ports, NEW c \in Qos
  PROVE  u \in Int /\ b[p][c] <= u
<1>1. PICK r \in [0..n -> Int] :
        /\ r[0] = 0 /\ r[n] = u
        /\ \A i \in 1..n : r[i] = r[i - 1] + BytesAt(b, f[i])
        /\ \A i, j \in 0..n : i <= j => r[i] <= r[j]
  BY DEF Accounts
<1>2. PICK k \in 1..n : f[k] = <<p, c>>
  BY DEF Enumerates
<1>3. n \in Nat /\ k \in 0..n /\ k - 1 \in 0..n /\ 0 \in 0..n /\ n \in 0..n
  BY DEF Enumerates
<1>4. BytesAt(b, f[k]) = b[p][c] /\ b[p][c] \in Nat
  BY <1>2 DEF BytesAt
<1>5. r[k] = r[k - 1] + b[p][c] /\ r[0] <= r[k - 1] /\ r[k] <= r[n]
  BY <1>1, <1>3, <1>4
<1>6. QED
  BY <1>1, <1>3, <1>4, <1>5

(* The bytes e are b but for x bytes of class c of port p. *)
Differs(b, e, p, c, x) ==
  \A q \in Ports : \A d \in Qos :
    e[q][d] = IF q = p /\ d = c THEN b[q][d] + x ELSE b[q][d]

(* The buffer follows a class that takes or gives back x bytes. *)
LEMMA BufferFollows ==
  ASSUME NEW n, NEW f, Enumerates(n, f), NEW b \in [Ports -> [Qos -> Nat]], NEW u,
         Accounts(n, f, b, u), NEW p \in Ports, NEW c \in Qos, NEW x \in Int,
         NEW e \in [Ports -> [Qos -> Nat]],
         Differs(b, e, p, c, x)
  PROVE  Accounts(n, f, e, u + x)
<1>1. PICK r \in [0..n -> Int] :
        /\ r[0] = 0 /\ r[n] = u
        /\ \A i \in 1..n : r[i] = r[i - 1] + BytesAt(b, f[i])
        /\ \A i, j \in 0..n : i <= j => r[i] <= r[j]
  BY DEF Accounts
<1>2. PICK k \in 1..n : f[k] = <<p, c>>
  BY DEF Enumerates
<1> DEFINE g == [i \in 0..n |-> IF i >= k THEN r[i] + x ELSE r[i]]
<1>3. /\ n \in Nat /\ k \in 0..n /\ k - 1 \in 0..n /\ 0 \in 0..n /\ n \in 0..n
      /\ \A i \in 1..n : f[i] = <<f[i][1], f[i][2]>> /\ f[i][1] \in Ports /\ f[i][2] \in Qos
      /\ \A i \in 1..n : i # k => f[i] # <<p, c>>
  <2>1. \A i \in 1..n : f[i] \in Ports \X Qos
    BY DEF Enumerates
  <2>2. \A i \in 1..n : f[i] = <<f[i][1], f[i][2]>> /\ f[i][1] \in Ports /\ f[i][2] \in Qos
    BY <2>1
  <2>3. n \in Nat /\ \A i \in 1..n : i # k => f[i] # <<p, c>>
    BY <1>2 DEF Enumerates
  <2>4. k \in 0..n /\ k - 1 \in 0..n /\ 0 \in 0..n /\ n \in 0..n
    BY <2>3
  <2>5. QED
    BY <2>2, <2>3, <2>4, Zenon
<1>4. ASSUME NEW i \in 1..n
      PROVE  /\ BytesAt(e, f[i]) = IF i = k THEN BytesAt(b, f[i]) + x ELSE BytesAt(b, f[i])
             /\ BytesAt(e, f[i]) \in Nat /\ BytesAt(b, f[i]) \in Nat
  <2>1. CASE i = k
    <3>1. f[i][1] = p /\ f[i][2] = c
      BY <1>2, <2>1
    <3>2. QED
      BY <2>1, <3>1 DEF BytesAt, Differs
  <2>2. CASE i # k
    <3>1. f[i][1] \in Ports /\ f[i][2] \in Qos /\ ~ (f[i][1] = p /\ f[i][2] = c)
      BY <1>2, <1>3, <2>2
    <3>2. QED
      BY <2>2, <3>1 DEF BytesAt, Differs
  <2>3. QED
    BY <2>1, <2>2
<1>5. g \in [0..n -> Int] /\ g[0] = 0 /\ g[n] = u + x
  BY <1>1, <1>3
<1>6. ASSUME NEW i \in 1..n PROVE g[i] = g[i - 1] + BytesAt(e, f[i])
  <2>1. i \in 0..n /\ i - 1 \in 0..n
    BY <1>3
  <2>2. r[i] = r[i - 1] + BytesAt(b, f[i]) /\ r[i] \in Int /\ r[i - 1] \in Int
    BY <1>1, <2>1
  <2>3. /\ g[i] = IF i >= k THEN r[i] + x ELSE r[i]
        /\ g[i - 1] = IF i - 1 >= k THEN r[i - 1] + x ELSE r[i - 1]
    BY <2>1
  <2> HIDE DEF g
  <2>4. CASE i = k
    BY <1>4, <2>2, <2>3, <2>4
  <2>5. CASE i # k
    <3>1. i >= k <=> i - 1 >= k
      BY <1>3, <2>5
    <3>2. QED
      BY <1>4, <2>2, <2>3, <2>5, <3>1
  <2>6. QED
    BY <2>4, <2>5
<1>7. ASSUME NEW i \in 0..n, NEW j \in 0..n, i <= j PROVE g[i] <= g[j]
  <2>1. r[i] <= r[j] /\ r[i] \in Int /\ r[j] \in Int /\ r[k] \in Int /\ r[k - 1] \in Int
    BY <1>1, <1>3, <1>7
  <2>2. CASE i >= k \/ j < k
    BY <1>3, <1>7, <2>1, <2>2
  <2>3. CASE i < k /\ j >= k
    <3>1. r[i] <= r[k - 1] /\ r[k] <= r[j]
      BY <1>1, <1>3, <2>3
    <3>2. r[k] = r[k - 1] + BytesAt(b, f[k]) /\ BytesAt(b, f[k]) + x >= 0
      <4>1. BytesAt(e, f[k]) = BytesAt(b, f[k]) + x /\ BytesAt(e, f[k]) \in Nat
        BY <1>4
      <4>2. QED
        BY <1>1, <4>1
    <3>3. g[i] = r[i] /\ g[j] = r[j] + x
      BY <2>3
    <3>4. BytesAt(b, f[k]) \in Nat
      BY <1>4
    <3> HIDE DEF g
    <3>5. QED
      BY <2>1, <3>1, <3>2, <3>3, <3>4
  <2>4. QED
    BY <1>3, <2>2, <2>3
<1> HIDE DEF g
<1>8. QED
  BY <1>5, <1>6, <1>7 DEF Accounts

-----------------------------------------------------------------------------
(* The scheduler. *)

(* Tokens are refreshed when no class has enough: whoever waits now has them. *)
LEMMA RefreshIsFair ==
  ASSUME NEW q, NEW t, NEW last, NEW w, PortType(q, t, last, w), Fair(q, t, last, w),
         \A c \in Qos : q[c] # <<>> => t[c] < Head(q[c])
  PROVE  /\ Refreshed(t) \in [Qos -> Nat]
         /\ \A c \in Qos : q[c] # <<>> => Head(q[c]) \in Packets /\ Refreshed(t)[c] >= Head(q[c])
         /\ Fair(q, Refreshed(t), last, w)
<1> DEFINE z == Refreshed(t)
<1>1. \A c \in Qos : q[c] # <<>> => Head(q[c]) \in Packets
  BY HeadTailProperties DEF PortType
<1>2. ASSUME NEW c \in Qos
      PROVE  z[c] \in Nat /\ z[c] >= Weights[c] /\ z[c] <= Cap * Weights[c]
  <2>1. t[c] \in Nat
    BY DEF PortType
  <2>2. QED
    BY <2>1, ClassBounds DEF Refreshed
<1>3. z \in [Qos -> Nat]
  BY <1>2 DEF Refreshed
<1> HIDE DEF z
<1>4. \A c \in Qos : q[c] # <<>> => z[c] >= Head(q[c])
  <2> TAKE c \in Qos
  <2> HAVE q[c] # <<>>
  <2>1. Head(q[c]) \in Int /\ Head(q[c]) <= MaxSize
    BY <1>1, ClassBounds DEF Packets
  <2>2. QED
    BY <1>2, <2>1, ClassBounds
<1>5. ASSUME NEW c \in Qos, NEW d \in Qos, c # d
      PROVE  Saved(z, w, c, d) \/ Ready(q, z, last, w, c, d)
  <2>1. w[c][d] \in Nat /\ t[d] \in Nat /\ Cap * Weights[d] \in Nat
    BY ClassBounds DEF PortType
  <2>2. CASE q[c] = <<>>
    <3>1. w[c][d] = 0
      BY <2>2 DEF Fair, Nothing
    <3>2. QED
      BY <1>2, <3>1 DEF Saved
  <2>3. CASE q[c] # <<>>
    <3>1. Saved(t, w, c, d)
      <4>1. ~ Ready(q, t, last, w, c, d)
        <5>1. Head(q[c]) \in Int /\ t[c] \in Int /\ t[c] < Head(q[c])
          BY <1>1, <2>3, SMTT(30) DEF Packets, PortType
        <5>2. QED
          BY <5>1 DEF Ready
      <4>2. QED
        BY <1>5, <4>1 DEF Fair
    <3>2. w[c][d] <= Cap * Weights[d]
      BY <2>1, <3>1 DEF Saved
    <3>3. QED
      BY <1>4, <2>3, <3>2 DEF Ready
  <2>4. QED
    BY <2>2, <2>3
<1>6. Fair(q, z, last, w)
  BY <1>2, <1>5 DEF Fair
<1>7. QED
  BY <1>1, <1>3, <1>4, <1>6 DEF z

LEMMA WaitIsBounded ==
  ASSUME NEW q, NEW t, NEW last, NEW w, PortType(q, t, last, w), Fair(q, t, last, w),
         NEW c \in Qos, NEW d \in Qos
  PROVE  w[c][d] <= Limit(d)
<1>1. w[c][d] \in Nat /\ t[d] \in Nat
  BY DEF PortType
<1>2. CASE c = d
  BY <1>2, ClassBounds DEF Fair
<1>3. CASE c # d
  <2>1. Saved(t, w, c, d) \/ Ready(q, t, last, w, c, d)
    BY <1>3 DEF Fair
  <2>2. QED
    BY <1>1, <2>1, ClassBounds DEF Saved, Ready
<1>4. QED
  BY <1>2, <1>3

(* The class e that is tried first is served: it pays, and is put behind all *)
(* the others that have the tokens.                                           *)
LEMMA ServeIsFair ==
  ASSUME NEW q, NEW t, NEW last, NEW w, PortType(q, t, last, w), Fair(q, t, last, w),
         NEW e \in Qos, q[e] # <<>>, t[e] >= Head(q[e]),
         \A c \in Qos : q[c] # <<>> /\ t[c] >= Head(q[c]) => Turn(last, e) <= Turn(last, c),
         NEW z, z = [t EXCEPT ![e] = @ - Head(q[e])],
         NEW v, v = WaitedAfter(w, q, e)
  PROVE  PortType(q, z, e, v) /\ Fair(q, z, e, v)
<1> DEFINE h == Head(q[e])
<1>1. h \in Nat /\ h <= MaxSize /\ h <= t[e] /\ t[e] \in Nat /\ last \in Qos
  <2>1. h \in Packets
    BY HeadTailProperties DEF PortType
  <2>2. QED
    BY <2>1, ClassBounds DEF Packets, PortType
<1> HIDE DEF h
<1>2. /\ z \in [Qos -> Nat] /\ z[e] = t[e] - h
      /\ \A c \in Qos : c # e => z[c] = t[c]
      /\ \A c \in Qos : z[c] <= t[c] /\ z[c] \in Nat /\ t[c] \in Nat
  <2>1. t \in [Qos -> Nat] /\ z = [t EXCEPT ![e] = t[e] - h]
    BY DEF PortType, h
  <2>2. t[e] - h \in Nat /\ t[e] - h <= t[e]
    BY <1>1
  <2>3. QED
    BY <2>1, <2>2
<1>3. \A c \in Qos : c = e \/ q[c] = <<>> => v[c] = Nothing
  BY DEF WaitedAfter
<1>4. ASSUME NEW c \in Qos, c # e, q[c] # <<>>
      PROVE  v[c] = [w[c] EXCEPT ![e] = @ + h]
  <2>1. ~ (w[c][e] > Limit(e))
    <3>1. w[c][e] <= Limit(e) /\ w[c][e] \in Nat /\ Limit(e) \in Nat
      BY WaitIsBounded, ClassBounds DEF PortType
    <3>2. QED
      BY <3>1
  <2>2. QED
    BY <1>4, <2>1 DEF WaitedAfter, h
<1>5. v \in [Qos -> [Qos -> Nat]]
  <2>1. \A c \in Qos : v[c] \in [Qos -> Nat]
    <3> TAKE c \in Qos
    <3>1. CASE c = e \/ q[c] = <<>>
      BY <1>3, <3>1 DEF Nothing
    <3>2. CASE ~ (c = e \/ q[c] = <<>>)
      <4>1. w[c] \in [Qos -> Nat] /\ w[c][e] \in Nat
        BY DEF PortType
      <4>2. QED
        <5>1. v[c] = [w[c] EXCEPT ![e] = w[c][e] + h]
          BY <1>4, <3>2
        <5>2. w[c][e] + h \in Nat
          BY <1>1, <4>1
        <5>3. QED
          BY <4>1, <5>1, <5>2
    <3>3. QED
      BY <3>1, <3>2
  <2>2. v = [c \in Qos |-> v[c]]
    BY DEF WaitedAfter
  <2>3. QED
    BY <2>1, <2>2
<1>6. \A c \in Qos : z[c] <= Cap * Weights[c] /\ v[c][c] = 0
  <2> TAKE c \in Qos
  <2>1. z[c] <= Cap * Weights[c]
    BY <1>2, ClassBounds DEF Fair
  <2>2. v[c][c] = 0
    <3>1. CASE c = e \/ q[c] = <<>>
      BY <1>3, <3>1 DEF Nothing
    <3>2. CASE ~ (c = e \/ q[c] = <<>>)
      <4>1. w[c] \in [Qos -> Nat] /\ w[c][c] = 0
        BY DEF PortType, Fair
      <4>2. QED
        BY <1>4, <3>2, <4>1
    <3>3. QED
      BY <3>1, <3>2
  <2>3. QED
    BY <2>1, <2>2
<1>7. ASSUME NEW c \in Qos, NEW d \in Qos, c # d
      PROVE  Saved(z, v, c, d) \/ Ready(q, z, e, v, c, d)
  <2>1. w[c][d] \in Nat /\ w[c] \in [Qos -> Nat] /\ t[d] \in Nat /\ z[d] \in Nat
        /\ Cap * Weights[d] \in Nat /\ Limit(d) = Cap * Weights[d] + MaxSize /\ MaxSize \in Nat
    BY <1>2, ClassBounds, ZenonT(30) DEF PortType
  <2>2. CASE c = e \/ q[c] = <<>>
    <3>1. v[c][d] = 0
      BY <1>3, <2>2 DEF Nothing
    <3>2. QED
      BY <1>6, <2>1, <3>1 DEF Saved
  <2>3. CASE c # e /\ q[c] # <<>>
    <3>1. v[c][d] = (IF d = e THEN w[c][d] + h ELSE w[c][d]) /\ z[c] = t[c]
      BY <1>2, <1>4, <2>1, <2>3, ZenonT(30)
    <3>2. CASE Saved(t, w, c, d)
      <4>1. CASE d = e
        BY <1>1, <1>2, <2>1, <3>1, <3>2, <4>1 DEF Saved
      <4>2. CASE d # e
        BY <1>2, <2>1, <3>1, <3>2, <4>2 DEF Saved
      <4>3. QED
        BY <4>1, <4>2
    <3>3. CASE Ready(q, t, last, w, c, d)
      <4>1. t[c] >= Head(q[c]) /\ Turn(last, e) <= Turn(last, c)
        BY <2>3, <3>3 DEF Ready
      <4>2. Turn(last, e) < Turn(last, c)
        BY <1>1, <2>3, <4>1, TurnIsInjective, TurnIsLess, SMTT(30)
      <4>3. CASE d = e
        <5>1. w[c][d] <= Cap * Weights[d]
          <6>1. ~ (Turn(last, c) < Turn(last, d))
            BY <1>1, <4>2, <4>3, TurnIsLess
          <6>2. QED
            BY <3>3, <6>1 DEF Ready
        <5>2. v[c][d] <= Limit(d)
          BY <1>1, <2>1, <3>1, <4>3, <5>1
        <5>3. Turn(e, c) < Turn(e, d)
          BY <2>3, <4>3, TurnIsLess
        <5>4. QED
          BY <2>3, <3>1, <4>1, <5>2, <5>3 DEF Ready
      <4>4. CASE d # e
        <5>1. CASE w[c][d] <= Cap * Weights[d]
          BY <2>3, <3>1, <4>1, <4>4, <5>1 DEF Ready
        <5>2. CASE w[c][d] <= Limit(d) /\ Turn(last, c) < Turn(last, d)
          <6>1. Turn(e, c) < Turn(e, d)
            BY <1>1, <4>2, <5>2, TurnShifts
          <6>2. QED
            BY <2>3, <3>1, <4>1, <4>4, <5>2, <6>1 DEF Ready
        <5>3. QED
          BY <3>3, <5>1, <5>2 DEF Ready
      <4>5. QED
        BY <4>3, <4>4
    <3>4. QED
      BY <1>7, <3>2, <3>3 DEF Fair
  <2>4. QED
    BY <2>2, <2>3
<1>8. PortType(q, z, e, v)
  BY <1>2, <1>5 DEF PortType
<1>9. QED
  BY <1>3, <1>6, <1>7, <1>8 DEF Fair

(* A packet that comes last into its class changes nothing for the others. *)
LEMMA ArrivalIsFair ==
  ASSUME NEW q, NEW t, NEW last, NEW w, PortType(q, t, last, w), Fair(q, t, last, w),
         NEW c \in Qos, NEW size \in Packets,
         NEW r, r = [q EXCEPT ![c] = Append(@, size)]
  PROVE  /\ r \in [Qos -> Seq(Packets)]
         /\ PortType(r, t, last, w) /\ Fair(r, t, last, w)
<1>1. /\ r \in [Qos -> Seq(Packets)]
      /\ \A d \in Qos : q[d] # <<>> => r[d] # <<>> /\ Head(r[d]) = Head(q[d])
  <2>1. q \in [Qos -> Seq(Packets)] /\ Append(q[c], size) \in Seq(Packets)
        /\ Append(q[c], size) # <<>>
    BY AppendProperties DEF PortType
  <2>2. q[c] # <<>> => Head(Append(q[c], size)) = Head(q[c])
    <3> HAVE q[c] # <<>>
    <3>1. Len(q[c]) \in Nat \ {0}
      BY <2>1, EmptySeq
    <3>2. Append(q[c], size)[1] = q[c][1]
      BY <2>1, <3>1, AppendProperties
    <3>3. QED
      BY <3>2
  <2>3. QED
    BY <2>1, <2>2
<1>2. PortType(r, t, last, w)
  BY <1>1 DEF PortType
<1>3. \A d \in Qos : r[d] = <<>> => q[d] = <<>>
  BY <1>1
<1>4. \A a, b \in Qos : Ready(q, t, last, w, a, b) => Ready(r, t, last, w, a, b)
  BY <1>1 DEF Ready
<1>5. QED
  BY <1>1, <1>2, <1>3, <1>4 DEF Fair

(* The packet that leaves is of the class served last, which waits for none. *)
LEMMA DepartureIsFair ==
  ASSUME NEW q, NEW t, NEW last, NEW w, PortType(q, t, last, w), Fair(q, t, last, w),
         q[last] # <<>>,
         NEW r, r = [q EXCEPT ![last] = Tail(@)]
  PROVE  /\ r \in [Qos -> Seq(Packets)]
         /\ PortType(r, t, last, w) /\ Fair(r, t, last, w)
<1>1. last \in Qos /\ q \in [Qos -> Seq(Packets)] /\ Tail(q[last]) \in Seq(Packets)
  BY HeadTailProperties DEF PortType
<1>2. r \in [Qos -> Seq(Packets)] /\ \A d \in Qos : d # last => r[d] = q[d]
  BY <1>1
<1>3. PortType(r, t, last, w)
  BY <1>2 DEF PortType
<1>4. \A d \in Qos : r[d] = <<>> \/ d = last => w[d] = Nothing
  BY <1>2 DEF Fair
<1>5. ASSUME NEW a \in Qos, NEW b \in Qos, a # b
      PROVE  Saved(t, w, a, b) \/ Ready(r, t, last, w, a, b)
  <2>1. CASE a = last
    <3>1. w[a][b] = 0 /\ t[b] \in Nat /\ t[b] <= Cap * Weights[b]
      BY <1>4, <2>1 DEF Nothing, PortType, Fair
    <3>2. QED
      BY <3>1, ClassBounds DEF Saved
  <2>2. CASE a # last
    BY <1>2, <1>5, <2>2 DEF Fair, Ready
  <2>3. QED
    BY <2>1, <2>2
<1>6. QED
  BY <1>2, <1>3, <1>4, <1>5 DEF Fair

-----------------------------------------------------------------------------
(* The service of a port. *)

LEMMA SomebodyWaits ==
  ASSUME NEW q \in [Qos -> Seq(Packets)], NEW b, \A c \in Qos : SumsTo(q[c], b[c])
  PROVE  /\ Empty(b) <=> \A c \in Qos : q[c] = <<>>
         /\ \A c \in Qos : b[c] > 0 <=> q[c] # <<>>
<1>1. \A c \in Qos : b[c] \in Nat /\ (b[c] = 0 <=> q[c] = <<>>)
  BY BytesTell
<1>2. QED
  BY <1>1 DEF Empty

(* The scheduler always finds a class, and serves it fairly. *)
LEMMA ServiceBegins ==
  ASSUME TypeOK, failure = "none", NEW p \in Ports, NEW q \in [Qos -> Seq(Packets)],
         NEW b, \A c \in Qos : SumsTo(q[c], b[c]), ~ Empty(b), NEW n \in Nat,
         Fair(q, tokens[p], last_qos[p], waited[p]), BeginService(p, q, b, n)
  PROVE  /\ failure' = "none" /\ events' = [events EXCEPT ![p] = n + 1]
         /\ tokens' \in [Ports -> [Qos -> Nat]] /\ last_qos' \in [Ports -> Qos]
         /\ next_qos' \in [Ports -> Qos] /\ waited' \in [Ports -> [Qos -> [Qos -> Nat]]]
         /\ \A o \in Ports : o # p =>
              /\ tokens'[o] = tokens[o] /\ last_qos'[o] = last_qos[o]
              /\ next_qos'[o] = next_qos[o] /\ waited'[o] = waited[o]
         /\ next_qos'[p] = last_qos'[p] /\ q[next_qos'[p]] # <<>>
         /\ Fair(q, tokens'[p], last_qos'[p], waited'[p])
<1>1. PICK t, last, w : t = tokens[p] /\ last = last_qos[p] /\ w = waited[p]
  OBVIOUS
<1>2. PortType(q, t, last, w) /\ Fair(q, t, last, w) /\ last \in Qos
  BY <1>1 DEF TypeOK, PortType
<1>3. PICK y : y = TokensFor(q, b, t)
  OBVIOUS
<1>4. \A c \in Qos : b[c] > 0 <=> q[c] # <<>>
  BY SomebodyWaits
<1>5. PICK c \in Qos : q[c] # <<>>
  BY SomebodyWaits
<1>6. PICK S : S = Eligible(q, b, y)
  OBVIOUS
<1>7. S \subseteq Qos /\ S = {d \in Qos : q[d] # <<>> /\ y[d] >= Head(q[d])}
  BY <1>4, <1>6 DEF Eligible
<1>8. /\ y \in [Qos -> Nat] /\ Fair(q, y, last, w) /\ S # {}
  <2>1. CASE Eligible(q, b, t) = {}
    <3>1. \A d \in Qos : q[d] # <<>> => t[d] < Head(q[d])
      <4> TAKE d \in Qos
      <4> HAVE q[d] # <<>>
      <4>1. t[d] \in Nat /\ Head(q[d]) \in Nat
        <5>1. Head(q[d]) \in Packets
          BY HeadTailProperties
        <5>2. QED
          BY <1>2, <5>1, SMTT(30) DEF PortType, Packets
      <4>2. ~ (t[d] >= Head(q[d]))
        BY <1>4, <2>1 DEF Eligible
      <4>3. QED
        BY <4>1, <4>2
    <3>2. y = Refreshed(t)
      BY <1>3, <2>1 DEF TokensFor
    <3>3. /\ y \in [Qos -> Nat] /\ Fair(q, y, last, w)
          /\ \A d \in Qos : q[d] # <<>> => y[d] >= Head(q[d])
      BY <1>2, <3>1, <3>2, RefreshIsFair
    <3>4. QED
      BY <1>5, <1>7, <3>3
  <2>2. CASE Eligible(q, b, t) # {}
    <3>1. y = t
      BY <1>3, <2>2 DEF TokensFor
    <3>2. QED
      BY <1>2, <1>6, <2>2, <3>1 DEF PortType
  <2>3. QED
    BY <2>1, <2>2
<1>9. PICK e : e = FirstOf(S, last)
  OBVIOUS
<1>10. e \in S /\ \A d \in S : Turn(last, e) <= Turn(last, d)
  BY <1>2, <1>7, <1>8, <1>9, FirstOfIn
<1>11. e \in Qos /\ q[e] # <<>> /\ y[e] >= Head(q[e])
       /\ \A d \in Qos : q[d] # <<>> /\ y[d] >= Head(q[d]) => Turn(last, e) <= Turn(last, d)
  BY <1>7, <1>10
<1>12. PICK z, v : z = [y EXCEPT ![e] = @ - Head(q[e])] /\ v = WaitedAfter(w, q, e)
  OBVIOUS
<1>13. /\ tokens' = [tokens EXCEPT ![p] = z] /\ last_qos' = [last_qos EXCEPT ![p] = e]
       /\ next_qos' = [next_qos EXCEPT ![p] = e] /\ events' = [events EXCEPT ![p] = n + 1]
       /\ waited' = [waited EXCEPT ![p] = v] /\ failure' = failure
  BY <1>1, <1>3, <1>6, <1>8, <1>9, <1>12 DEF BeginService
<1>14. PortType(q, z, e, v) /\ Fair(q, z, e, v)
  <2>1. PortType(q, y, last, w)
    BY <1>2, <1>8 DEF PortType
  <2>2. QED
    BY <1>8, <1>11, <1>12, <2>1, ServeIsFair
<1>15. z \in [Qos -> Nat] /\ v \in [Qos -> [Qos -> Nat]]
  BY <1>14 DEF PortType
<1>16. tokens \in [Ports -> [Qos -> Nat]] /\ waited \in [Ports -> [Qos -> [Qos -> Nat]]]
       /\ last_qos \in [Ports -> Qos] /\ next_qos \in [Ports -> Qos]
  BY DEF TypeOK
<1>17. tokens'[p] = z /\ last_qos'[p] = e /\ next_qos'[p] = e /\ waited'[p] = v
  BY <1>13, <1>16
<1>18. Fair(q, tokens'[p], last_qos'[p], waited'[p])
  BY <1>14, <1>17
<1>19. tokens' \in [Ports -> [Qos -> Nat]] /\ waited' \in [Ports -> [Qos -> [Qos -> Nat]]]
  BY <1>13, <1>15, <1>16
<1>20. last_qos' \in [Ports -> Qos] /\ next_qos' \in [Ports -> Qos]
  BY <1>11, <1>13, <1>16
<1>21. QED
  BY <1>11, <1>13, <1>16, <1>17, <1>18, <1>19, <1>20, ZenonT(30)

(* A packet that is admitted fits into the buffer and into its share. *)
LEMMA AdmittedFits ==
  ASSUME TypeOK, NEW p \in Ports, NEW c \in Qos, NEW size \in Packets,
         bytes[p][c] \in Nat, bytes[p][c] <= used, CanStore(p, c, size)
  PROVE  /\ used + size <= Buffer
         /\ (AlphaNum[c] + AlphaDen) * (bytes[p][c] + size) <= AlphaNum[c] * (Buffer + MaxSize)
<1>1. PICK a, d, x, u : a = AlphaNum[c] /\ d = AlphaDen /\ x = bytes[p][c] /\ u = used
  OBVIOUS
<1>2. /\ a \in Nat \ {0} /\ d \in Nat \ {0} /\ a <= d /\ x \in Nat /\ u \in Int /\ x <= u
      /\ size \in Nat \ {0} /\ size <= MaxSize /\ Buffer \in Nat /\ MaxSize \in Nat
      /\ d * (x + size) <= a * (Buffer - u)
  <2>1. a \in Nat \ {0} /\ d \in Nat \ {0} /\ a <= d /\ Buffer \in Nat /\ MaxSize \in Nat
    BY <1>1, SharedQueueAssumption
  <2>2. x \in Nat /\ u \in Int /\ x <= u
    BY <1>1 DEF TypeOK
  <2>3. size \in Nat \ {0} /\ size <= MaxSize
    BY <2>1 DEF Packets
  <2>4. d * (x + size) <= a * (Buffer - u)
    BY <1>1 DEF CanStore
  <2>5. QED
    BY <2>1, <2>2, <2>3, <2>4
<1>3. x + size <= Buffer - u
  <2>1. PICK k, m : k = x + size /\ m = Buffer - u
    OBVIOUS
  <2>2. k \in Nat \ {0} /\ m \in Int /\ d * k <= a * m
    BY <1>2, <2>1
  <2>3. SUFFICES ASSUME m < k PROVE FALSE
    BY <2>1, <2>2
  <2>4. CASE m < 0
    <3>1. d * k > 0 /\ a * m < 0
      BY <1>2, <2>2, <2>4
    <3>2. QED
      BY <1>2, <2>2, <3>1
  <2>5. CASE m >= 0
    <3>1. a * m <= d * m /\ d * m < d * k
      BY <1>2, <2>2, <2>3, <2>5
    <3>2. a * m \in Int /\ d * m \in Int /\ d * k \in Int
      BY <1>2, <2>2
    <3>3. QED
      BY <2>2, <3>1, <3>2
  <2>6. QED
    BY <2>2, <2>4, <2>5
<1>4. (a + d) * (x + size) <= a * (Buffer + MaxSize)
  <2>1. (a + d) * (x + size) = d * (x + size) + a * (x + size)
    BY <1>2
  <2>2. a * (Buffer - u) + a * (x + size) = a * (Buffer - u + x + size)
    BY <1>2
  <2>3. Buffer - u + x + size <= Buffer + MaxSize
    BY <1>2
  <2>4. \A i, j \in Int : i <= j => a * i <= a * j
    BY <1>2
  <2>5. a * (Buffer - u + x + size) <= a * (Buffer + MaxSize)
    BY <1>2, <2>3, <2>4
  <2>6. QED
    BY <1>2, <2>1, <2>2, <2>5
<1>5. QED
  BY <1>1, <1>2, <1>3, <1>4

-----------------------------------------------------------------------------
(* The steps. *)

(* What the invariant says of the ports and of one of them. *)
LEMMA AllPorts ==
  ASSUME NEW n, NEW f, IInv(n, f)
  PROVE  /\ queued \in [Ports -> [Qos -> Seq(Packets)]]
         /\ bytes \in [Ports -> [Qos -> Nat]] /\ used \in Int
<1>1. \A o \in Ports : \A d \in Qos : bytes[o][d] \in Nat
  BY BytesTell DEF IInv, TypeOK, Counted, Packets
<1>2. bytes \in [Ports -> [Qos -> Nat]]
  BY <1>1 DEF IInv, TypeOK
<1>3. queued \in [Ports -> [Qos -> Seq(Packets)]] /\ used \in Int
  BY DEF IInv, TypeOK, Packets
<1>4. QED
  BY <1>2, <1>3

LEMMA OnePort ==
  ASSUME NEW n, NEW f, Enumerates(n, f), IInv(n, f), NEW p \in Ports
  PROVE  /\ queued[p] \in [Qos -> Seq(Packets)] /\ bytes[p] \in [Qos -> Nat]
         /\ \A d \in Qos : SumsTo(queued[p][d], bytes[p][d]) /\ bytes[p][d] <= used
         /\ PortType(queued[p], tokens[p], last_qos[p], waited[p])
         /\ Fair(queued[p], tokens[p], last_qos[p], waited[p])
         /\ next_qos[p] \in Qos /\ events[p] \in Nat
<1>1. \A d \in Qos : bytes[p][d] <= used
  BY AllPorts, ClassWithinBuffer DEF IInv
<1>2. QED
  BY <1>1, AllPorts DEF IInv, TypeOK, Counted, FairPorts, PortType, Packets

(* A step of port p changes the bytes of class c by x and leaves it with the *)
(* packets q and the bytes b.                                                 *)
Moves(p, q, b, c, x) ==
  /\ q \in [Qos -> Seq(Packets)] /\ b = [bytes[p] EXCEPT ![c] = @ + x]
  /\ queued' = [queued EXCEPT ![p] = q] /\ bytes' = [bytes EXCEPT ![p] = b]
  /\ used' = used + x /\ failure' = "none"

ServiceTyped ==
  /\ events' \in [Ports -> Nat] /\ tokens' \in [Ports -> [Qos -> Nat]]
  /\ last_qos' \in [Ports -> Qos] /\ next_qos' \in [Ports -> Qos]
  /\ waited' \in [Ports -> [Qos -> [Qos -> Nat]]]

OthersStay(p) ==
  \A o \in Ports : o # p =>
    /\ tokens'[o] = tokens[o] /\ last_qos'[o] = last_qos[o] /\ events'[o] = events[o]
    /\ next_qos'[o] = next_qos[o] /\ waited'[o] = waited[o]

(* Each part of the invariant, for the packets q and the bytes b of one port. *)
CountedHere(q, b) == \A d \in Qos : SumsTo(q[d], b[d])
ShareHere(b) ==
  \A d \in Qos : (AlphaNum[d] + AlphaDen) * b[d] <= AlphaNum[d] * (Buffer + MaxSize)
PaidHere(q, ev, next, last) ==
  IF \E d \in Qos : q[d] # <<>> THEN ev = 1 /\ next = last /\ q[next] # <<>> ELSE ev = 0

LEMMA MovesTypes ==
  ASSUME NEW n, NEW f, IInv(n, f), NEW p \in Ports, NEW q, NEW b, NEW c \in Qos,
         NEW x \in Int, Moves(p, q, b, c, x), CountedHere(q, b)
  PROVE  /\ b \in [Qos -> Nat]
         /\ queued' \in [Ports -> [Qos -> Seq(Packets)]]
         /\ bytes' \in [Ports -> [Qos -> Nat]] /\ used' \in Int
         /\ queued'[p] = q /\ bytes'[p] = b
         /\ \A o \in Ports : o # p => queued'[o] = queued[o] /\ bytes'[o] = bytes[o]
<1>1. \A d \in Qos : b[d] \in Nat
  BY BytesTell DEF CountedHere, Moves
<1>2. b \in [Qos -> Nat]
  BY <1>1, AllPorts DEF Moves
<1>3. /\ queued \in [Ports -> [Qos -> Seq(Packets)]] /\ bytes \in [Ports -> [Qos -> Nat]]
      /\ used \in Int
  BY AllPorts
<1>4. queued' = [queued EXCEPT ![p] = q] /\ bytes' = [bytes EXCEPT ![p] = b]
      /\ q \in [Qos -> Seq(Packets)] /\ used' = used + x
  BY DEF Moves
<1>5. queued' \in [Ports -> [Qos -> Seq(Packets)]] /\ bytes' \in [Ports -> [Qos -> Nat]]
  BY <1>2, <1>3, <1>4
<1>6. QED
  BY <1>2, <1>3, <1>4, <1>5

(* The invariant holds after a step of one port if it holds for this port. *)
LEMMA PortStep ==
  ASSUME NEW n, NEW f, Enumerates(n, f), IInv(n, f), NEW p \in Ports, NEW q, NEW b,
         NEW c \in Qos, NEW x \in Int, Moves(p, q, b, c, x), ServiceTyped, OthersStay(p),
         CountedHere(q, b), ShareHere(b), PaidHere(q, events'[p], next_qos'[p], last_qos'[p]),
         Fair(q, tokens'[p], last_qos'[p], waited'[p])
  PROVE  IInv(n, f)'
<1>1. TypeOK'
  <2>1. bytes' \in [Ports -> [Qos -> Int]] /\ used' \in Int
        /\ queued' \in [Ports -> [Qos -> Seq(1..MaxSize)]]
    BY MovesTypes DEF Packets
  <2>2. failure' \in {"none", "overflow", "underflow", "no tokens"}
    BY DEF Moves
  <2>3. QED
    BY <2>1, <2>2 DEF TypeOK, ServiceTyped
<1>2. Counted'
  <2>1. \A o \in Ports : CountedHere(queued'[o], bytes'[o])
    <3> TAKE o \in Ports
    <3>1. CountedHere(queued[o], bytes[o])
      BY DEF IInv, Counted, CountedHere
    <3>2. CASE o = p
      BY <3>2, MovesTypes
    <3>3. CASE o # p
      <4>1. queued'[o] = queued[o] /\ bytes'[o] = bytes[o]
        BY <3>3, MovesTypes
      <4>2. QED
        BY <3>1, <4>1
    <3>4. QED
      BY <3>2, <3>3
  <2>2. QED
    BY <2>1 DEF Counted, CountedHere
<1>3. Accounts(n, f, bytes, used)'
  <2>1. PICK e, g, u : e = bytes' /\ g = bytes /\ u = used
    OBVIOUS
  <2>2. /\ e \in [Ports -> [Qos -> Nat]] /\ g \in [Ports -> [Qos -> Nat]]
        /\ e[p] = [g[p] EXCEPT ![c] = @ + x] /\ \A o \in Ports : o # p => e[o] = g[o]
    BY <2>1, AllPorts, MovesTypes DEF Moves
  <2>3. Accounts(n, f, g, u)
    BY <2>1 DEF IInv
  <2>4. Differs(g, e, p, c, x)
    BY <2>2 DEF Differs
  <2>5. Accounts(n, f, e, u + x)
    BY <2>2, <2>3, <2>4, BufferFollows, Zenon
  <2>6. used' = used + x
    BY DEF Moves
  <2>7. QED
    BY <2>1, <2>5, <2>6 DEF Accounts, BytesAt
<1>4. Paid'
  <2>1. ASSUME NEW o \in Ports
        PROVE  PaidHere(queued'[o], events'[o], next_qos'[o], last_qos'[o])
    <3>1. CASE o = p
      BY <3>1, MovesTypes
    <3>2. CASE o # p
      <4>1. PaidHere(queued[o], events[o], next_qos[o], last_qos[o])
        BY DEF IInv, Paid, PaidHere
      <4>2. queued'[o] = queued[o] /\ events'[o] = events[o]
            /\ next_qos'[o] = next_qos[o] /\ last_qos'[o] = last_qos[o]
        BY <3>2, MovesTypes DEF OthersStay
      <4>3. QED
        BY <4>1, <4>2
    <3>3. QED
      BY <3>1, <3>2
  <2>2. QED
    BY <2>1 DEF Paid, PaidHere
<1>5. FairPorts'
  <2>1. \A o \in Ports : Fair(queued'[o], tokens'[o], last_qos'[o], waited'[o])
    BY MovesTypes DEF FairPorts, IInv, OthersStay
  <2>2. QED
    BY <2>1 DEF FairPorts, Fair, Saved, Ready
<1>6. NoMonopoly'
  <2>1. \A o \in Ports : ShareHere(bytes'[o])
    BY MovesTypes DEF NoMonopoly, ShareHere, IInv
  <2>2. QED
    BY <2>1 DEF NoMonopoly, ShareHere
<1>7. failure' = "none"
  BY DEF Moves
<1>8. QED
  BY <1>1, <1>2, <1>3, <1>4, <1>5, <1>6, <1>7 DEF IInv

(* SharedQueue::enqueuePacket and the service it may start. *)
LEMMA EnqueueKeepsIInv ==
  ASSUME NEW n, NEW f, Enumerates(n, f), IInv(n, f), NEW p \in Ports, NEW c \in Qos,
         NEW size \in Packets, CanStore(p, c, size), Enqueue(p, c, size)
  PROVE  IInv(n, f)'
<1>1. PICK q, b : /\ q = [queued[p] EXCEPT ![c] = Append(@, size)]
                  /\ b = [bytes[p] EXCEPT ![c] = @ + size]
  OBVIOUS
<1>2. /\ TypeOK /\ failure = "none" /\ size \in Int /\ size > 0
  BY DEF IInv, Packets
<1>3. /\ queued[p] \in [Qos -> Seq(Packets)] /\ bytes[p] \in [Qos -> Nat]
      /\ CountedHere(queued[p], bytes[p]) /\ bytes[p][c] <= used
      /\ PortType(queued[p], tokens[p], last_qos[p], waited[p])
      /\ Fair(queued[p], tokens[p], last_qos[p], waited[p])
  BY OnePort DEF CountedHere
<1>4. /\ q \in [Qos -> Seq(Packets)] /\ PortType(q, tokens[p], last_qos[p], waited[p])
      /\ Fair(q, tokens[p], last_qos[p], waited[p])
  <2>1. PICK o, t, last, w : /\ o = queued[p] /\ t = tokens[p]
                             /\ last = last_qos[p] /\ w = waited[p]
    OBVIOUS
  <2>2. PortType(o, t, last, w) /\ Fair(o, t, last, w) /\ q = [o EXCEPT ![c] = Append(@, size)]
    BY <1>1, <1>3, <2>1
  <2>3. q \in [Qos -> Seq(Packets)] /\ PortType(q, t, last, w) /\ Fair(q, t, last, w)
    BY <2>2, ArrivalIsFair, Zenon
  <2>4. QED
    BY <2>1, <2>3
<1>5. CountedHere(q, b)
  <2>1. SumsTo(Append(queued[p][c], size), bytes[p][c] + size)
    BY <1>3, AppendCounts DEF CountedHere
  <2>2. ASSUME NEW d \in Qos PROVE SumsTo(q[d], b[d])
    <3>1. CASE d = c
      BY <1>1, <1>3, <2>1, <3>1
    <3>2. CASE d # c
      <4>1. q[d] = queued[p][d] /\ b[d] = bytes[p][d]
        BY <1>1, <1>3, <3>2
      <4>2. QED
        BY <1>3, <4>1 DEF CountedHere
    <3>3. QED
      BY <3>1, <3>2
  <2>3. QED
    BY <2>2 DEF CountedHere
<1>6. used + size <= Buffer /\ ShareHere(b)
  <2>1. /\ used + size <= Buffer
        /\ (AlphaNum[c] + AlphaDen) * (bytes[p][c] + size) <= AlphaNum[c] * (Buffer + MaxSize)
    BY <1>2, <1>3, AdmittedFits
  <2>2. b[c] = bytes[p][c] + size /\ \A d \in Qos : d # c => b[d] = bytes[p][d]
    BY <1>1, <1>3
  <2>3. ShareHere(bytes[p])
    BY DEF IInv, NoMonopoly, ShareHere
  <2>4. QED
    BY <2>1, <2>2, <2>3 DEF ShareHere
<1>7. /\ queued' = [queued EXCEPT ![p] = q] /\ bytes' = [bytes EXCEPT ![p] = b]
      /\ used' = used + size
      /\ IF Empty(bytes[p]) THEN BeginService(p, q, b, events[p])
         ELSE UNCHANGED <<tokens, last_qos, next_qos, events, failure, waited>>
  <2>1. ~ (used + size > Buffer)
    BY <1>2, <1>6, SharedQueueAssumption DEF TypeOK
  <2>2. QED
    BY <1>1, <2>1 DEF Enqueue
<1>8. q[c] # <<>>
  <2>1. q[c] = Append(queued[p][c], size) /\ queued[p][c] \in Seq(Packets)
    BY <1>1, <1>3
  <2>2. QED
    BY <2>1, AppendProperties
<1>9. CASE Empty(bytes[p])
  <2>1. \A d \in Qos : queued[p][d] = <<>>
    BY <1>3, <1>9, SomebodyWaits DEF CountedHere
  <2>2. events[p] = 0
    BY <2>1 DEF IInv, Paid
  <2>3. ~ Empty(b) /\ BeginService(p, q, b, 0) /\ \A d \in Qos : SumsTo(q[d], b[d])
    BY <1>4, <1>5, <1>7, <1>8, <1>9, <2>2, SomebodyWaits DEF CountedHere
  <2>4. /\ failure' = "none" /\ events' = [events EXCEPT ![p] = 0 + 1]
        /\ tokens' \in [Ports -> [Qos -> Nat]] /\ last_qos' \in [Ports -> Qos]
        /\ next_qos' \in [Ports -> Qos] /\ waited' \in [Ports -> [Qos -> [Qos -> Nat]]]
        /\ \A o \in Ports : o # p =>
             /\ tokens'[o] = tokens[o] /\ last_qos'[o] = last_qos[o]
             /\ next_qos'[o] = next_qos[o] /\ waited'[o] = waited[o]
        /\ next_qos'[p] = last_qos'[p] /\ q[next_qos'[p]] # <<>>
        /\ Fair(q, tokens'[p], last_qos'[p], waited'[p])
    BY <1>2, <1>4, <2>3, ServiceBegins
  <2>5. events' \in [Ports -> Nat] /\ events'[p] = 1
        /\ \A o \in Ports : o # p => events'[o] = events[o]
    BY <1>2, <2>4 DEF TypeOK
  <2>6. Moves(p, q, b, c, size)
    BY <1>1, <1>4, <1>7, <2>4 DEF Moves
  <2>7. ServiceTyped /\ OthersStay(p)
    BY <2>4, <2>5 DEF ServiceTyped, OthersStay
  <2>8. PaidHere(q, events'[p], next_qos'[p], last_qos'[p])
    BY <1>8, <2>4, <2>5 DEF PaidHere
  <2>9. QED
    BY <1>2, <1>5, <1>6, <2>4, <2>6, <2>7, <2>8, PortStep
<1>10. CASE ~ Empty(bytes[p])
  <2>1. UNCHANGED <<tokens, last_qos, next_qos, events, failure, waited>>
    BY <1>7, <1>10
  <2>2. PICK d \in Qos : queued[p][d] # <<>>
    BY <1>3, <1>10, SomebodyWaits DEF CountedHere
  <2>3. events[p] = 1 /\ next_qos[p] = last_qos[p] /\ queued[p][next_qos[p]] # <<>>
    BY <2>2 DEF IInv, Paid
  <2>4. next_qos[p] \in Qos /\ q[next_qos[p]] # <<>>
    BY <1>1, <1>2, <1>3, <1>8, <2>3 DEF TypeOK
  <2>5. Moves(p, q, b, c, size)
    BY <1>1, <1>2, <1>4, <1>7, <2>1 DEF Moves
  <2>6. ServiceTyped /\ OthersStay(p)
    BY <1>2, <2>1 DEF ServiceTyped, OthersStay, TypeOK
  <2>7. PaidHere(q, events'[p], next_qos'[p], last_qos'[p])
    BY <2>1, <2>3, <2>4 DEF PaidHere
  <2>8. Fair(q, tokens'[p], last_qos'[p], waited'[p])
    BY <1>4, <2>1
  <2>9. QED
    BY <1>2, <1>5, <1>6, <2>5, <2>6, <2>7, <2>8, PortStep
<1>11. QED
  BY <1>9, <1>10

(* SharedQueue::completeService *)
LEMMA CompleteServiceKeepsIInv ==
  ASSUME NEW n, NEW f, Enumerates(n, f), IInv(n, f), NEW p \in Ports, CompleteService(p)
  PROVE  IInv(n, f)'
<1>1. PICK c, q, b : /\ c = next_qos[p]
                     /\ q = [queued[p] EXCEPT ![c] = Tail(@)]
                     /\ b = [bytes[p] EXCEPT ![c] = @ - Head(queued[p][c])]
  OBVIOUS
<1>2. PICK h, x : h = Head(queued[p][c]) /\ x = 0 - h
  OBVIOUS
<1>3. TypeOK /\ failure = "none" /\ events[p] > 0
  BY DEF IInv, CompleteService
<1>4. /\ queued[p] \in [Qos -> Seq(Packets)] /\ bytes[p] \in [Qos -> Nat]
      /\ CountedHere(queued[p], bytes[p]) /\ c \in Qos /\ bytes[p][c] <= used
      /\ PortType(queued[p], tokens[p], last_qos[p], waited[p])
      /\ Fair(queued[p], tokens[p], last_qos[p], waited[p])
  BY <1>1, OnePort DEF CountedHere
<1>5. events[p] = 1 /\ c = last_qos[p] /\ queued[p][c] # <<>>
  <2>1. IF \E d \in Qos : queued[p][d] # <<>>
        THEN events[p] = 1 /\ next_qos[p] = last_qos[p] /\ queued[p][next_qos[p]] # <<>>
        ELSE events[p] = 0
    BY DEF IInv, Paid
  <2>2. QED
    BY <1>1, <1>3, <2>1
<1>6. /\ q \in [Qos -> Seq(Packets)] /\ PortType(q, tokens[p], last_qos[p], waited[p])
      /\ Fair(q, tokens[p], last_qos[p], waited[p])
  <2>1. PICK o, t, w : o = queued[p] /\ t = tokens[p] /\ w = waited[p]
    OBVIOUS
  <2>2. /\ PortType(o, t, c, w) /\ Fair(o, t, c, w) /\ o[c] # <<>>
        /\ q = [o EXCEPT ![c] = Tail(@)]
    BY <1>1, <1>4, <1>5, <2>1
  <2>3. q \in [Qos -> Seq(Packets)] /\ PortType(q, t, c, w) /\ Fair(q, t, c, w)
    BY <2>2, DepartureIsFair, Zenon
  <2>4. QED
    BY <1>5, <2>1, <2>3
<1>7. /\ h \in Packets /\ h \in Nat /\ h <= bytes[p][c] /\ x \in Int
      /\ b = [bytes[p] EXCEPT ![c] = @ + x]
  <2>1. h \in Packets /\ h <= bytes[p][c]
    <3>1. PICK s, k : s = queued[p][c] /\ k = bytes[p][c]
      OBVIOUS
    <3>2. s \in Seq(Packets) /\ SumsTo(s, k) /\ s # <<>>
      BY <1>4, <1>5, <3>1 DEF CountedHere
    <3>3. Head(s) \in Packets /\ Head(s) <= k
      BY <3>2, BytesTell
    <3>4. QED
      BY <1>2, <3>1, <3>3
  <2>2. h \in Nat
    BY <2>1 DEF Packets
  <2>3. bytes[p][c] - h = bytes[p][c] + x
    BY <1>2, <1>4, <2>2
  <2>4. QED
    BY <1>1, <1>2, <2>1, <2>2, <2>3
<1>8. CountedHere(q, b)
  <2>1. SumsTo(Tail(queued[p][c]), bytes[p][c] - Head(queued[p][c]))
    BY <1>4, <1>5, TailCounts DEF CountedHere
  <2>2. ASSUME NEW d \in Qos PROVE SumsTo(q[d], b[d])
    <3>1. CASE d = c
      BY <1>1, <1>4, <2>1, <3>1
    <3>2. CASE d # c
      <4>1. q[d] = queued[p][d] /\ b[d] = bytes[p][d]
        BY <1>1, <1>4, <3>2
      <4>2. QED
        BY <1>4, <4>1 DEF CountedHere
    <3>3. QED
      BY <3>1, <3>2
  <2>3. QED
    BY <2>2 DEF CountedHere
<1>9. ShareHere(b)
  <2>1. b[c] <= bytes[p][c] /\ b[c] \in Int /\ bytes[p][c] \in Int
        /\ \A d \in Qos : d # c => b[d] = bytes[p][d]
    BY <1>1, <1>2, <1>4, <1>7
  <2>2. ShareHere(bytes[p])
    BY DEF IInv, NoMonopoly, ShareHere
  <2>3. (AlphaNum[c] + AlphaDen) * b[c] <= AlphaNum[c] * (Buffer + MaxSize)
    <3>1. PICK a, i, j, m : /\ a = AlphaNum[c] + AlphaDen /\ i = b[c] /\ j = bytes[p][c]
                            /\ m = AlphaNum[c] * (Buffer + MaxSize)
      OBVIOUS
    <3>2. a \in Nat /\ m \in Int
      BY <1>4, <3>1, SharedQueueAssumption
    <3>3. i \in Int /\ j \in Int /\ i <= j /\ a * j <= m
      BY <1>4, <2>1, <2>2, <3>1 DEF ShareHere
    <3>4. a * i <= a * j /\ a * i \in Int /\ a * j \in Int
      BY <3>2, <3>3
    <3>5. a * i <= m
      BY <3>2, <3>3, <3>4
    <3>6. QED
      BY <3>1, <3>5
  <2>4. QED
    BY <2>1, <2>2, <2>3 DEF ShareHere
<1>10. /\ queued' = [queued EXCEPT ![p] = q] /\ bytes' = [bytes EXCEPT ![p] = b]
       /\ used' = used - h
  <2>1. ~ (used < h)
    BY <1>3, <1>4, <1>7 DEF TypeOK
  <2>2. /\ queued' = [queued EXCEPT ![p][c] = Tail(@)]
        /\ bytes' = [bytes EXCEPT ![p][c] = @ - Head(queued[p][c])] /\ used' = used - h
    BY <1>1, <1>2, <2>1 DEF CompleteService, DequeuePacket
  <2>3. queued \in [Ports -> [Qos -> Seq(Packets)]] /\ bytes \in [Ports -> [Qos -> Nat]]
    BY AllPorts
  <2>4. QED
    BY <1>1, <2>2, <2>3
<1>11. used' = used + x /\ ~ (used < h)
  <2>1. used \in Int /\ bytes[p][c] \in Int
    BY <1>3, <1>4 DEF TypeOK
  <2>2. h <= bytes[p][c] /\ bytes[p][c] <= used /\ h \in Int
    BY <1>4, <1>7
  <2>3. ~ (used < h)
    BY <2>1, <2>2
  <2>4. used' = used + x
    BY <1>2, <1>10, <2>1, <2>2
  <2>5. QED
    BY <2>3, <2>4
<1>12. IF ~ Empty(b) THEN BeginService(p, q, b, events[p] - 1)
       ELSE /\ events' = [events EXCEPT ![p] = @ - 1]
            /\ UNCHANGED <<tokens, last_qos, next_qos, failure, waited>>
  BY <1>1, <1>2, <1>11 DEF CompleteService
<1>13. CASE ~ Empty(b)
  <2>1. BeginService(p, q, b, 0) /\ \A d \in Qos : SumsTo(q[d], b[d])
    BY <1>5, <1>8, <1>12, <1>13 DEF CountedHere
  <2>2. /\ failure' = "none" /\ events' = [events EXCEPT ![p] = 0 + 1]
        /\ tokens' \in [Ports -> [Qos -> Nat]] /\ last_qos' \in [Ports -> Qos]
        /\ next_qos' \in [Ports -> Qos] /\ waited' \in [Ports -> [Qos -> [Qos -> Nat]]]
        /\ \A o \in Ports : o # p =>
             /\ tokens'[o] = tokens[o] /\ last_qos'[o] = last_qos[o]
             /\ next_qos'[o] = next_qos[o] /\ waited'[o] = waited[o]
        /\ next_qos'[p] = last_qos'[p] /\ q[next_qos'[p]] # <<>>
        /\ Fair(q, tokens'[p], last_qos'[p], waited'[p])
    BY <1>3, <1>6, <1>13, <2>1, ServiceBegins
  <2>3. events' \in [Ports -> Nat] /\ events'[p] = 1
        /\ \A o \in Ports : o # p => events'[o] = events[o]
    BY <1>3, <2>2 DEF TypeOK
  <2>4. Moves(p, q, b, c, x)
    BY <1>6, <1>7, <1>10, <1>11, <2>2 DEF Moves
  <2>5. ServiceTyped /\ OthersStay(p)
    BY <2>2, <2>3 DEF ServiceTyped, OthersStay
  <2>6. \E d \in Qos : q[d] # <<>>
    BY <1>6, <1>13, <2>1, SomebodyWaits
  <2>7. PaidHere(q, events'[p], next_qos'[p], last_qos'[p])
    BY <2>2, <2>3, <2>6 DEF PaidHere
  <2>8. QED
    BY <1>4, <1>7, <1>8, <1>9, <2>2, <2>4, <2>5, <2>7, PortStep
<1>14. CASE Empty(b)
  <2>1. /\ events' = [events EXCEPT ![p] = @ - 1]
        /\ UNCHANGED <<tokens, last_qos, next_qos, failure, waited>>
    BY <1>12, <1>14
  <2>2. \A d \in Qos : q[d] = <<>>
    BY <1>6, <1>8, <1>14, SomebodyWaits DEF CountedHere
  <2>3. events' \in [Ports -> Nat] /\ events'[p] = 0
        /\ \A o \in Ports : o # p => events'[o] = events[o]
    BY <1>3, <1>5, <2>1 DEF TypeOK
  <2>4. Moves(p, q, b, c, x)
    BY <1>3, <1>6, <1>7, <1>10, <1>11, <2>1 DEF Moves
  <2>5. ServiceTyped /\ OthersStay(p)
    BY <1>3, <2>1, <2>3 DEF ServiceTyped, OthersStay, TypeOK
  <2>6. PaidHere(q, events'[p], next_qos'[p], last_qos'[p])
    BY <2>2, <2>3 DEF PaidHere
  <2>7. Fair(q, tokens'[p], last_qos'[p], waited'[p])
    BY <1>6, <2>1
  <2>8. QED
    BY <1>4, <1>7, <1>8, <1>9, <2>4, <2>5, <2>6, <2>7, PortStep
<1>15. QED
  BY <1>13, <1>14

LEMMA NextKeepsIInv ==
  ASSUME NEW n, NEW f, Enumerates(n, f), IInv(n, f), [Next]_vars
  PROVE  IInv(n, f)'
<1>1. CASE UNCHANGED vars
  BY <1>1, ZenonT(30)
  DEF vars, portVars, IInv, TypeOK, Counted, Accounts, BytesAt, Paid, FairPorts, Fair,
      Saved, Ready, NoMonopoly
<1>2. ASSUME NEW p \in Ports, ReceiveHeader(p) PROVE IInv(n, f)'
  <2>1. HeaderClass \in Qos /\ TrimSize \in Packets
    BY SharedQueueAssumption DEF HeaderClass, Qos, Packets
  <2>2. CASE CanStore(p, HeaderClass, TrimSize)
    BY <1>2, <2>1, <2>2, EnqueueKeepsIInv DEF ReceiveHeader
  <2>3. CASE ~ CanStore(p, HeaderClass, TrimSize)
    BY <1>1, <1>2, <2>3 DEF ReceiveHeader
  <2>4. QED
    BY <2>2, <2>3
<1>3. ASSUME NEW p \in Ports, NEW c \in Qos, NEW size \in Sizes, ReceiveData(p, c, size)
      PROVE  IInv(n, f)'
  <2>1. HeaderClass \in Qos /\ TrimSize \in Packets /\ size \in Packets
    BY SharedQueueAssumption DEF HeaderClass, Qos, Packets
  <2>2. CASE CanStore(p, c, size)
    BY <1>3, <2>1, <2>2, EnqueueKeepsIInv DEF ReceiveData
  <2>3. CASE ~ CanStore(p, c, size) /\ Trimming /\ CanStore(p, HeaderClass, TrimSize)
    BY <1>3, <2>1, <2>3, EnqueueKeepsIInv DEF ReceiveData
  <2>4. CASE ~ CanStore(p, c, size) /\ ~ (Trimming /\ CanStore(p, HeaderClass, TrimSize))
    BY <1>1, <1>3, <2>4 DEF ReceiveData
  <2>5. QED
    BY <2>2, <2>3, <2>4
<1>4. ASSUME NEW p \in Ports, CompleteService(p) PROVE IInv(n, f)'
  BY <1>4, CompleteServiceKeepsIInv
<1>5. QED
  BY <1>1, <1>2, <1>3, <1>4 DEF Next

LEMMA InitIInv ==
  ASSUME NEW n, NEW f, Enumerates(n, f), Init
  PROVE  IInv(n, f)
<1>1. Classes - 1 \in Qos /\ 0 \in Qos /\ Nothing \in [Qos -> Nat] /\ Weights \in [Qos -> Nat]
  BY SharedQueueAssumption DEF Qos, Nothing
<1>2. TypeOK /\ failure = "none"
  <2>1. queued \in [Ports -> [Qos -> Seq(1..MaxSize)]]
    BY DEF Init
  <2>2. bytes \in [Ports -> [Qos -> Int]] /\ waited \in [Ports -> [Qos -> [Qos -> Nat]]]
    BY <1>1 DEF Init, Nothing
  <2>3. QED
    BY <1>1, <2>1, <2>2 DEF Init, TypeOK
<1>3. Counted
  <2>1. SumsTo(<<>>, 0)
    <3>1. PICK r : r = [i \in 1..1 |-> 0]
      OBVIOUS
    <3>2. Len(<<>>) = 0
      BY EmptySeq
    <3>3. r \in [1..(Len(<<>>) + 1) -> Nat] /\ r[1] = 0 /\ r[Len(<<>>) + 1] = 0
      BY <3>1, <3>2
    <3>4. \A i \in 1..Len(<<>>) : r[i] = <<>>[i] + r[i + 1]
      BY <3>2
    <3>5. QED
      BY <3>3, <3>4 DEF SumsTo
  <2>2. QED
    BY <2>1 DEF Init, Counted, Nothing
<1>4. Accounts(n, f, bytes, used)
  <2>1. n \in Nat /\ \A i \in 1..n : f[i][1] \in Ports /\ f[i][2] \in Qos
    BY DEF Enumerates
  <2>2. \A i \in 1..n : BytesAt(bytes, f[i]) = 0
    BY <2>1 DEF Init, BytesAt, Nothing
  <2>3. PICK r \in [0..n -> Int] : \A i \in 0..n : r[i] = 0
    <3>1. [i \in 0..n |-> 0] \in [0..n -> Int]
      OBVIOUS
    <3>2. QED
      BY <3>1
  <2>4. r[0] = 0 /\ r[n] = used /\ \A i \in 1..n : r[i] = r[i - 1] + BytesAt(bytes, f[i])
    BY <2>1, <2>2, <2>3 DEF Init
  <2>5. \A i, j \in 0..n : i <= j => r[i] <= r[j]
    BY <2>3
  <2>6. QED
    BY <2>4, <2>5 DEF Accounts
<1>5. Paid
  BY DEF Init, Paid
<1>6. FairPorts
  <2>1. ASSUME NEW p \in Ports
        PROVE  Fair(queued[p], tokens[p], last_qos[p], waited[p])
    <3>1. tokens[p] = Weights /\ \A c \in Qos : waited[p][c] = Nothing
      BY DEF Init
    <3>2. \A c \in Qos : Nothing[c] = 0
      BY DEF Nothing
    <3>3. \A c, d \in Qos : Saved(tokens[p], waited[p], c, d)
      BY <3>1, <3>2, ClassBounds DEF Saved
    <3>4. QED
      BY <3>1, <3>2, <3>3, ClassBounds DEF Fair
  <2>2. QED
    BY <2>1 DEF FairPorts
<1>7. NoMonopoly
  <2>1. ASSUME NEW p \in Ports, NEW c \in Qos
        PROVE  (AlphaNum[c] + AlphaDen) * bytes[p][c] <= AlphaNum[c] * (Buffer + MaxSize)
    <3>1. bytes[p][c] = 0
      BY DEF Init, Nothing
    <3>2. \A a \in Nat : a * 0 = 0
      OBVIOUS
    <3>3. AlphaNum[c] \in Nat /\ AlphaDen \in Nat /\ Buffer + MaxSize \in Nat
      BY SharedQueueAssumption
    <3>4. \A i, j \in Nat : i * j >= 0
      OBVIOUS
    <3>5. QED
      BY <3>1, <3>2, <3>3, <3>4
  <2>2. QED
    BY <2>1 DEF NoMonopoly
<1>8. QED
  BY <1>2, <1>3, <1>4, <1>5, <1>6, <1>7 DEF IInv

(* The classes of all the ports can be listed. *)
LEMMA SomeEnumeration == \E n, f : Enumerates(n, f)
<1>1. IsFiniteSet(Ports \X Qos)
  <2>1. IsFiniteSet(Ports) /\ Classes - 1 \in Int
    BY SharedQueueAssumption
  <2>2. IsFiniteSet(Qos)
    BY <2>1, FS_Interval DEF Qos
  <2>3. QED
    BY <2>1, <2>2, FS_Product
<1>2. PICK n \in Nat : ExistsBijection(1..n, Ports \X Qos)
  BY <1>1, FS_NatBijection
<1>3. PICK f \in Bijection(1..n, Ports \X Qos) : TRUE
  BY <1>2 DEF ExistsBijection
<1>4. Enumerates(n, f)
  <2>1. /\ f \in [1..n -> Ports \X Qos]
        /\ \A i, j \in 1..n : f[i] = f[j] => i = j
        /\ \A e \in Ports \X Qos : \E i \in 1..n : f[i] = e
    BY <1>3 DEF Bijection, Injection, IsInjective, Surjection
  <2>2. QED
    BY <1>2, <2>1 DEF Enumerates
<1>5. QED
  BY <1>4

-----------------------------------------------------------------------------
(* What Total computes: the sum of a function over a finite set, in whatever *)
(* order its elements are taken.                                             *)

(* Every set of naturals that is not empty has a least element. *)
LEMMA LeastExists ==
  ASSUME NEW S \in SUBSET Nat, S # {}
  PROVE  \E p \in S : \A q \in S : p <= q
<1> DEFINE R == OpToRel(<, Nat)
<1>1. PICK x \in S : \A y \in S : ~ (<<y, x>> \in R)
  BY WFMin, NatLessThanWellFounded, Zenon
<1>2. \A u, v \in Nat : u < v => <<u, v>> \in R
  BY DEF OpToRel
<1>3. \A y \in S : ~ (y < x)
  <2> HIDE DEF R
  <2> QED BY <1>1, <1>2
<1> QED BY <1>3

(* e lists S and r holds the partial sums of f in its order. *)
Lists(n, e, S) ==
  /\ n \in Nat /\ e \in [1..n -> S]
  /\ \A i, j \in 1..n : e[i] = e[j] => i = j
  /\ \A x \in S : \E i \in 1..n : e[i] = x
Sums(n, e, f, r) ==
  /\ r \in [0..n -> Int] /\ r[0] = 0
  /\ \A i \in 1..n : r[i] = r[i - 1] + f[e[i]]

(* The part of f in T: 0 elsewhere. *)
Part(S, f, T) == [x \in S |-> IF x \in T THEN f[x] ELSE 0]

LEMMA SumsExist ==
  ASSUME NEW S, NEW n, NEW e, Lists(n, e, S), NEW f \in [S -> Int]
  PROVE  \E r : Sums(n, e, f, r)
<1> DEFINE Good(k) == \E r : /\ r \in [0..k -> Int] /\ r[0] = 0
                             /\ \A i \in 1..k : r[i] = r[i - 1] + f[e[i]]
           Bad == {k \in 0..n : ~ Good(k)}
<1>1. n \in Nat /\ \A i \in 1..n : f[e[i]] \in Int
  BY DEF Lists
<1>2. Bad = {}
  <2> SUFFICES ASSUME Bad # {} PROVE FALSE
    OBVIOUS
  <2>1. PICK k \in Bad : \A l \in Bad : k <= l
    <3>1. Bad \in SUBSET Nat
      BY <1>1
    <3> HIDE DEF Bad
    <3> QED BY <3>1, LeastExists
  <2>2. k \in 0..n /\ k \in Nat /\ ~ Good(k)
    BY <1>1, <2>1
  <2>3. CASE k = 0
    <3> DEFINE r == [i \in 0..0 |-> 0]
    <3>1. /\ r \in [0..k -> Int] /\ r[0] = 0
          /\ \A i \in 1..k : r[i] = r[i - 1] + f[e[i]]
      BY <2>3
    <3> HIDE DEF r
    <3>2. Good(k)
      BY <3>1
    <3> QED BY <2>2, <3>2
  <2>4. CASE k # 0
    <3>1. k \in 1..n /\ k - 1 \in 0..n /\ k - 1 \notin Bad
      <4> HIDE DEF Bad, Good
      <4> QED BY <1>1, <2>1, <2>2, <2>4
    <3>2. Good(k - 1)
      BY <3>1
    <3>3. PICK r : /\ r \in [0..(k - 1) -> Int] /\ r[0] = 0
                   /\ \A i \in 1..(k - 1) : r[i] = r[i - 1] + f[e[i]]
      BY <3>2
    <3> DEFINE t == [i \in 0..k |-> IF i = k THEN r[k - 1] + f[e[k]] ELSE r[i]]
    <3>4. f[e[k]] \in Int /\ r[k - 1] \in Int
      BY <1>1, <3>1, <3>3
    <3>5. t \in [0..k -> Int] /\ t[0] = 0 /\ t[k] = r[k - 1] + f[e[k]]
          /\ \A i \in 0..(k - 1) : t[i] = r[i]
      BY <2>2, <2>4, <3>3, <3>4
    <3> HIDE DEF t
    <3>6. \A i \in 1..k : t[i] = t[i - 1] + f[e[i]]
      <4> TAKE i \in 1..k
      <4>1. CASE i = k
        BY <2>2, <2>4, <3>5, <4>1
      <4>2. CASE i # k
        <5>1. i \in 1..(k - 1) /\ i \in 0..(k - 1) /\ i - 1 \in 0..(k - 1)
          BY <2>2, <4>2
        <5> QED BY <3>3, <3>5, <5>1
      <4> QED BY <4>1, <4>2
    <3>7. Good(k)
      BY <3>5, <3>6
    <3> HIDE DEF Good
    <3> QED BY <2>2, <3>7
  <2> QED BY <2>3, <2>4
<1>3. Good(n)
  BY <1>1, <1>2
<1> QED BY <1>3 DEF Sums

LEMMA SumsAgree ==
  ASSUME NEW S, NEW n, NEW e, Lists(n, e, S), NEW f \in [S -> Int],
         NEW r, NEW t, Sums(n, e, f, r), Sums(n, e, f, t)
  PROVE  r[n] = t[n]
<1> DEFINE Bad == {k \in 0..n : r[k] # t[k]}
<1>1. n \in Nat
  BY DEF Lists
<1>2. Bad = {}
  <2> SUFFICES ASSUME Bad # {} PROVE FALSE
    OBVIOUS
  <2>1. PICK k \in Bad : \A l \in Bad : k <= l
    <3>1. Bad \in SUBSET Nat
      BY <1>1
    <3> HIDE DEF Bad
    <3> QED BY <3>1, LeastExists
  <2>2. CASE k = 0
    BY <2>1, <2>2 DEF Sums
  <2>3. CASE k # 0
    <3>1. k \in 1..n /\ k - 1 \in 0..n /\ k - 1 \notin Bad
      BY <1>1, <2>1, <2>3
    <3>2. r[k - 1] = t[k - 1] /\ r[k] = r[k - 1] + f[e[k]] /\ t[k] = t[k - 1] + f[e[k]]
      BY <3>1 DEF Sums
    <3> QED BY <2>1, <3>2
  <2> QED BY <2>2, <2>3
<1> QED BY <1>1, <1>2

(* Leaving out one element takes its value off the sum. *)
LEMMA SumsDiffer ==
  ASSUME NEW S, NEW n, NEW e, Lists(n, e, S), NEW f \in [S -> Int],
         NEW g \in [S -> Int], NEW x \in S, NEW v \in Int,
         f[x] = g[x] + v, \A y \in S \ {x} : f[y] = g[y],
         NEW r, NEW t, Sums(n, e, f, r), Sums(n, e, g, t)
  PROVE  r[n] = t[n] + v
<1>1. PICK m \in 1..n : e[m] = x
  BY DEF Lists
<1>2. n \in Nat /\ m \in Nat /\ \A i \in 1..n : e[i] \in S /\ (i # m => e[i] # x)
  BY <1>1 DEF Lists
<1> DEFINE Bad == {k \in 0..n : r[k] # t[k] + (IF k < m THEN 0 ELSE v)}
<1>3. Bad = {}
  <2> SUFFICES ASSUME Bad # {} PROVE FALSE
    OBVIOUS
  <2>1. PICK k \in Bad : \A l \in Bad : k <= l
    <3>1. Bad \in SUBSET Nat
      BY <1>2
    <3> HIDE DEF Bad
    <3> QED BY <3>1, LeastExists
  <2>2. CASE k = 0
    BY <1>2, <2>1, <2>2 DEF Sums
  <2>3. CASE k # 0
    <3>1. k \in 1..n /\ k - 1 \in 0..n /\ k - 1 \notin Bad
      BY <1>2, <2>1, <2>3
    <3>2. r[k - 1] = t[k - 1] + (IF k - 1 < m THEN 0 ELSE v)
      BY <3>1
    <3>3. r[k] = r[k - 1] + f[e[k]] /\ t[k] = t[k - 1] + g[e[k]]
          /\ r[k - 1] \in Int /\ t[k - 1] \in Int
      BY <3>1 DEF Sums
    <3>4. k = m => f[e[k]] = g[e[k]] + v
      BY <1>1
    <3>5. k # m => f[e[k]] = g[e[k]]
      BY <1>2, <3>1
    <3>6. g[e[k]] \in Int
      BY <1>2, <3>1
    <3>7. r[k] # t[k] + (IF k < m THEN 0 ELSE v)
      BY <2>1
    <3> QED BY <1>2, <3>1, <3>2, <3>3, <3>4, <3>5, <3>6, <3>7
  <2> QED BY <2>2, <2>3
<1>4. n \in 0..n /\ n \notin Bad /\ ~(n < m)
  BY <1>2, <1>3
<1>5. r[n] = t[n] + (IF n < m THEN 0 ELSE v)
  BY <1>4
<1> QED BY <1>4, <1>5

(* The choice Total makes at a set of places, and the function it computes. *)
Some(T) == CHOOSE i \in T : TRUE
IsTotal(S, f, u) ==
  u = [T \in SUBSET S |-> IF T = {} THEN 0 ELSE f[Some(T)] + u[T \ {Some(T)}]]

LEMMA PartType ==
  ASSUME NEW S, NEW f \in [S -> Int], NEW T
  PROVE  /\ Part(S, f, T) \in [S -> Int]
         /\ \A x \in S : Part(S, f, T)[x] = IF x \in T THEN f[x] ELSE 0
BY DEF Part

(* The sums over the parts of f satisfy the recursion of Total. *)
LEMMA TotalExists ==
  ASSUME NEW S, NEW n, NEW e, Lists(n, e, S), NEW f \in [S -> Int]
  PROVE  \E u : /\ IsTotal(S, f, u)
                /\ \A T \in SUBSET S : \E r : Sums(n, e, Part(S, f, T), r) /\ u[T] = r[n]
<1> DEFINE Run(T) == CHOOSE r : Sums(n, e, Part(S, f, T), r)
           G == [T \in SUBSET S |-> Run(T)[n]]
<1>1. ASSUME NEW T PROVE Sums(n, e, Part(S, f, T), Run(T))
  <2>1. \E r : Sums(n, e, Part(S, f, T), r)
    BY PartType, SumsExist
  <2> QED BY <2>1
<1>2. \A T \in SUBSET S : G[T] = Run(T)[n]
  OBVIOUS
<1>3. n \in Nat
  BY DEF Lists
<1> HIDE DEF Run
<1>4. ASSUME NEW T \in SUBSET S, T = {} PROVE Run(T)[n] = 0
  <2> DEFINE z == [i \in 0..n |-> 0]
             g == Part(S, f, T)
  <2>1. g \in [S -> Int] /\ \A x \in S : g[x] = 0
    BY <1>4, PartType
  <2>2. \A i \in 1..n : e[i] \in S
    BY DEF Lists
  <2> HIDE DEF g
  <2>3. Sums(n, e, g, z)
    BY <1>3, <2>1, <2>2 DEF Sums
  <2>4. z[n] = 0
    BY <1>3
  <2> HIDE DEF z
  <2>5. Sums(n, e, g, Run(T))
    BY <1>1 DEF g
  <2>6. Run(T)[n] = z[n]
    BY <2>1, <2>3, <2>5, SumsAgree
  <2> QED BY <2>4, <2>6
<1>5. ASSUME NEW T \in SUBSET S, T # {}
      PROVE  Run(T)[n] = f[Some(T)] + Run(T \ {Some(T)})[n]
  <2> DEFINE x == Some(T)
             g == Part(S, f, T)
             h == Part(S, f, T \ {x})
  <2>1. x \in T /\ x \in S
    BY <1>5 DEF Some
  <2> HIDE DEF x
  <2>2. g \in [S -> Int] /\ h \in [S -> Int] /\ f[x] \in Int
    BY <2>1, PartType
  <2>3. g[x] = f[x] /\ h[x] = 0 /\ \A y \in S \ {x} : g[y] = h[y]
    BY <2>1, PartType
  <2>4. g[x] = h[x] + f[x]
    BY <2>2, <2>3
  <2>5. Sums(n, e, g, Run(T)) /\ Sums(n, e, h, Run(T \ {x}))
    BY <1>1
  <2> HIDE DEF g, h
  <2>6. Run(T)[n] = Run(T \ {x})[n] + f[x]
    BY <2>1, <2>2, <2>3, <2>4, <2>5, SumsDiffer, SMTT(30)
  <2>7. Run(T \ {x})[n] \in Int
    <3> DEFINE t == Run(T \ {x})
    <3>1. t \in [0..n -> Int]
      BY <2>5 DEF Sums
    <3>2. n \in 0..n
      BY <1>3
    <3> HIDE DEF t
    <3>3. t[n] \in Int
      BY <3>1, <3>2
    <3> QED BY <3>3 DEF t
  <2>8. Run(T)[n] = f[x] + Run(T \ {x})[n]
    BY <2>2, <2>6, <2>7
  <2> QED BY <2>8 DEF x
<1>6. \A T \in SUBSET S : T \ {Some(T)} \in SUBSET S
  OBVIOUS
<1>7. G = [T \in SUBSET S |-> G[T]]
  <2> DEFINE H(T) == Run(T)[n]
  <2>1. G = [T \in SUBSET S |-> H(T)]
    OBVIOUS
  <2> HIDE DEF H, G
  <2>2. \A T \in SUBSET S : G[T] = H(T)
    BY <2>1
  <2> QED BY <2>1, <2>2
<1> HIDE DEF G
<1>8. \A T \in SUBSET S : G[T] = IF T = {} THEN 0 ELSE f[Some(T)] + G[T \ {Some(T)}]
  <2> TAKE T \in SUBSET S
  <2>1. T \ {Some(T)} \in SUBSET S
    BY <1>6
  <2>2. G[T \ {Some(T)}] = Run(T \ {Some(T)})[n] /\ G[T] = Run(T)[n]
    BY <1>2, <2>1
  <2> QED BY <1>4, <1>5, <2>2
<1>9. IsTotal(S, f, G)
  BY <1>7, <1>8 DEF IsTotal
<1> QED BY <1>1, <1>2, <1>9

(* Any function that satisfies the recursion has these values. *)
LEMMA TotalsAgree ==
  ASSUME NEW S, IsFiniteSet(S), NEW f, NEW u, NEW v, IsTotal(S, f, u), IsTotal(S, f, v)
  PROVE  u[S] = v[S]
<1> DEFINE Bad == {k \in Nat : \E T \in SUBSET S : Cardinality(T) = k /\ u[T] # v[T]}
<1>1. Bad = {}
  <2> SUFFICES ASSUME Bad # {} PROVE FALSE
    OBVIOUS
  <2>1. PICK k \in Bad : \A l \in Bad : k <= l
    <3>1. Bad \in SUBSET Nat
      OBVIOUS
    <3> HIDE DEF Bad
    <3> QED BY <3>1, LeastExists
  <2>2. PICK T \in SUBSET S : Cardinality(T) = k /\ u[T] # v[T]
    BY <2>1
  <2>3. T # {} /\ u[T] = f[Some(T)] + u[T \ {Some(T)}]
               /\ v[T] = f[Some(T)] + v[T \ {Some(T)}]
    <3>1. \A R \in SUBSET S :
            /\ u[R] = IF R = {} THEN 0 ELSE f[Some(R)] + u[R \ {Some(R)}]
            /\ v[R] = IF R = {} THEN 0 ELSE f[Some(R)] + v[R \ {Some(R)}]
      BY DEF IsTotal
    <3> QED BY <2>2, <3>1
  <2> DEFINE x == Some(T)
             R == T \ {x}
  <2>4. x \in T
    BY <2>3 DEF Some
  <2> HIDE DEF x
  <2>5. IsFiniteSet(T)
    BY FS_Subset
  <2>6. Cardinality(R) = k - 1 /\ Cardinality(R) \in Nat
    <3>1. IsFiniteSet(R) /\ Cardinality(R) = Cardinality(T) - 1
      BY <2>4, <2>5, FS_RemoveElement
    <3>2. Cardinality(R) \in Nat
      BY <3>1, FS_CardinalityType
    <3> QED BY <2>2, <3>1, <3>2
  <2>7. k - 1 \notin Bad
    <3>1. k \in Nat
      BY <2>1
    <3> HIDE DEF Bad
    <3> QED BY <2>1, <3>1
  <2>8. u[R] = v[R]
    BY <2>6, <2>7
  <2> QED BY <2>2, <2>3, <2>8 DEF x
<1>2. Cardinality(S) \in Nat
  BY FS_CardinalityType
<1>3. S \in SUBSET S
  OBVIOUS
<1> QED BY <1>1, <1>2, <1>3

LEMMA TotalIsSum ==
  ASSUME NEW S, IsFiniteSet(S), NEW n, NEW e, Lists(n, e, S), NEW f \in [S -> Int],
         NEW r, Sums(n, e, f, r)
  PROVE  Total(f) = r[n]
<1> DEFINE sum == CHOOSE u : IsTotal(S, f, u)
<1>1. PICK u : /\ IsTotal(S, f, u)
               /\ \A T \in SUBSET S : \E t : Sums(n, e, Part(S, f, T), t) /\ u[T] = t[n]
  BY TotalExists
<1>2. IsTotal(S, f, sum)
  BY <1>1
<1>3. DOMAIN f = S
  OBVIOUS
<1>4. Total(f) = sum[S]
  BY <1>3 DEF Total, IsTotal, Some
<1> HIDE DEF sum
<1>5. sum[S] = u[S]
  BY <1>1, <1>2, TotalsAgree
<1>6. Part(S, f, S) = f
  BY DEF Part
<1>7. PICK t : Sums(n, e, f, t) /\ u[S] = t[n]
  BY <1>1, <1>6
<1>8. t[n] = r[n]
  BY <1>7, SumsAgree
<1> QED BY <1>4, <1>5, <1>7, <1>8

(* The bytes of a class are what Total computes from its packets. *)
LEMMA TotalOfPackets ==
  ASSUME NEW s \in Seq(Packets), NEW b, SumsTo(s, b)
  PROVE  Total(s) = b
<1> DEFINE n == Len(s)
           e == [i \in 1..n |-> i]
<1>1. PICK r \in [1..(n + 1) -> Nat] :
        r[1] = b /\ r[n + 1] = 0 /\ \A i \in 1..n : r[i] = s[i] + r[i + 1]
  BY DEF SumsTo
<1> DEFINE t == [i \in 0..n |-> b - r[i + 1]]
<1>2. n \in Nat
  BY LenProperties
<1>3. s \in [1..n -> Int]
  <2>1. s \in [1..n -> Packets]
    BY LenProperties
  <2>2. \A x \in Packets : x \in Int
    BY DEF Packets
  <2> HIDE DEF n
  <2> QED BY <2>1, <2>2
<1> HIDE DEF n
<1>4. Lists(n, e, 1..n)
  BY <1>2 DEF Lists
<1>5. IsFiniteSet(1..n)
  BY <1>2, FS_Interval
<1>6. \A i \in 1..n : e[i] = i
  OBVIOUS
<1> HIDE DEF e
<1>7. Sums(n, e, s, t) /\ t[n] = b
  <2>1. \A i \in 0..n : i + 1 \in 1..(n + 1) /\ t[i] = b - r[i + 1]
    BY <1>2
  <2>2. b \in Int /\ \A i \in 1..(n + 1) : r[i] \in Int
    <3>1. 1 \in 1..(n + 1)
      BY <1>2
    <3> QED BY <1>1, <3>1
  <2>3. t \in [0..n -> Int]
    BY <2>1, <2>2
  <2> HIDE DEF t
  <2>4. t[0] = 0 /\ t[n] = b
    <3>1. 0 \in 0..n /\ n \in 0..n /\ 0 + 1 = 1
      BY <1>2
    <3>2. t[0] = b - r[0 + 1] /\ t[n] = b - r[n + 1]
      BY <2>1, <3>1
    <3> QED BY <1>1, <2>2, <3>1, <3>2
  <2>5. ASSUME NEW i \in 1..n PROVE t[i] = t[i - 1] + s[e[i]]
    <3>1. i \in 0..n /\ i - 1 \in 0..n /\ (i - 1) + 1 = i /\ i + 1 \in 1..(n + 1)
          /\ i \in 1..(n + 1)
      BY <1>2
    <3>2. t[i] = b - r[i + 1] /\ t[i - 1] = b - r[i] /\ r[i] = s[i] + r[i + 1]
      BY <1>1, <2>1, <3>1
    <3>3. s[i] \in Int
      BY <1>3
    <3> QED BY <1>6, <2>2, <3>1, <3>2, <3>3
  <2> QED BY <2>3, <2>4, <2>5 DEF Sums
<1> HIDE DEF t
<1> QED BY <1>3, <1>4, <1>5, <1>7, TotalIsSum

(* The bytes of the buffer are what Total computes from those of the classes. *)
LEMMA TotalOfClasses ==
  ASSUME NEW n, NEW f, Enumerates(n, f), NEW b \in [Ports -> [Qos -> Int]], NEW u,
         Accounts(n, f, b, u)
  PROVE  Total([e \in Ports \X Qos |-> b[e[1]][e[2]]]) = u
<1> DEFINE S == Ports \X Qos
           g == [e \in S |-> b[e[1]][e[2]]]
<1>1. n \in Nat /\ f \in [1..n -> S]
  BY DEF Enumerates
<1>2. Lists(n, f, S)
  <2>1. \A x \in S : \E i \in 1..n : f[i] = x
    <3> TAKE x \in S
    <3>1. PICK p \in Ports, c \in Qos : x = <<p, c>>
      OBVIOUS
    <3> QED BY <3>1 DEF Enumerates
  <2>2. \A i, j \in 1..n : f[i] = f[j] => i = j
    BY DEF Enumerates
  <2> HIDE DEF S
  <2> QED BY <1>1, <2>1, <2>2 DEF Lists
<1>3. IsFiniteSet(S)
  <2>1. IsFiniteSet(Ports) /\ 0 \in Int /\ Classes - 1 \in Int
    BY SharedQueueAssumption
  <2>2. IsFiniteSet(Qos)
    BY <2>1, FS_Interval, Zenon DEF Qos
  <2> QED BY <2>1, <2>2, FS_Product
<1>4. g \in [S -> Int] /\ \A x \in S : g[x] = BytesAt(b, x)
  BY DEF BytesAt
<1> HIDE DEF S, g
<1>5. PICK r : Sums(n, f, g, r) /\ r[n] = u
  <2>1. PICK r \in [0..n -> Int] :
          /\ r[0] = 0 /\ r[n] = u
          /\ \A i \in 1..n : r[i] = r[i - 1] + BytesAt(b, f[i])
    BY DEF Accounts
  <2>2. \A i \in 1..n : g[f[i]] = BytesAt(b, f[i])
    BY <1>1, <1>4
  <2> QED BY <2>1, <2>2 DEF Sums
<1>6. Total(g) = u
  BY <1>2, <1>3, <1>4, <1>5, TotalIsSum
<1> QED BY <1>6 DEF g, S

LEMMA BufferCounts ==
  ASSUME NEW n, NEW f, Enumerates(n, f), IInv(n, f)
  PROVE  BufferIsExact
<1>1. /\ queued \in [Ports -> [Qos -> Seq(Packets)]] /\ bytes \in [Ports -> [Qos -> Int]]
      /\ failure = "none" /\ Counted /\ Accounts(n, f, bytes, used)
  BY DEF IInv, TypeOK, Packets
<1>2. ASSUME NEW p \in Ports, NEW c \in Qos PROVE bytes[p][c] = Total(queued[p][c])
  <2>1. queued[p][c] \in Seq(Packets) /\ SumsTo(queued[p][c], bytes[p][c])
    BY <1>1 DEF Counted
  <2> QED BY <2>1, TotalOfPackets
<1>3. used = Total([e \in Ports \X Qos |-> bytes[e[1]][e[2]]])
  BY <1>1, TotalOfClasses
<1> QED BY <1>1, <1>2, <1>3 DEF BufferIsExact

(* What the invariant implies. *)
LEMMA IInvImplies ==
  ASSUME NEW n, NEW f, Enumerates(n, f), IInv(n, f)
  PROVE  TypeOK /\ BufferIsExact /\ OneService /\ NoFailure /\ NoStarvation /\ NoMonopoly
<1>1. TypeOK /\ BufferIsExact /\ NoFailure /\ NoMonopoly
  BY BufferCounts DEF IInv, NoFailure
<1>2. OneService
  <2>1. \A p \in Ports : events[p] \in Nat
    BY DEF IInv, TypeOK
  <2>2. QED
    BY <2>1 DEF IInv, Paid, OneService
<1>3. NoStarvation
  <2>1. ASSUME NEW p \in Ports, NEW c \in Qos, NEW d \in Qos
        PROVE  waited[p][c][d] <= Limit(d)
    <3>1. PICK q, t, last, w : /\ q = queued[p] /\ t = tokens[p]
                               /\ last = last_qos[p] /\ w = waited[p]
      OBVIOUS
    <3>2. PortType(q, t, last, w) /\ Fair(q, t, last, w)
      BY <3>1, OnePort
    <3>3. QED
      BY <3>1, <3>2, WaitIsBounded
  <2>2. QED
    BY <2>1 DEF NoStarvation
<1>4. QED
  BY <1>1, <1>2, <1>3

LEMMA AllHold ==
  Spec => [](/\ TypeOK /\ BufferIsExact /\ OneService
             /\ NoFailure /\ NoStarvation /\ NoMonopoly)
<1>1. PICK n, f : Enumerates(n, f)
  BY SomeEnumeration
<1>2. Init => IInv(n, f)
  BY <1>1, InitIInv
<1>3. IInv(n, f) /\ [Next]_vars => IInv(n, f)'
  BY <1>1, NextKeepsIInv
<1>4. IInv(n, f) => TypeOK /\ BufferIsExact /\ OneService /\ NoFailure /\ NoStarvation /\ NoMonopoly
  BY <1>1, IInvImplies
<1>5. QED
  BY <1>2, <1>3, <1>4, PTL DEF Spec

-----------------------------------------------------------------------------
(* The variables keep their types. *)
THEOREM TypeCorrect == Spec => []TypeOK
BY AllHold, PTL

(* The switch buffer and the classes count exactly the packets that wait,    *)
(* and freeBuffer never gives back more than useBuffer took.                 *)
THEOREM BufferCountsExactly == Spec => []BufferIsExact
BY AllHold, PTL

(* A port sends one packet at a time, of the class that paid for it, and     *)
(* never stops with packets: beginService and completeService alternate.     *)
THEOREM PortsServeOne == Spec => []OneService
BY AllHold, PTL

(* Neither SwitchBuffer::useBuffer nor DwrrQosScheduler ever throws, for any *)
(* shares up to 1 and weights that cover a packet.                           *)
THEOREM NeverThrows == Spec => []NoFailure
BY AllHold, PTL

(* A class that waits sees no more of another than the tokens that it can    *)
(* have saved and one packet.                                                *)
THEOREM NobodyStarves == Spec => []NoStarvation
BY AllHold, PTL

(* No class of a port takes more than alpha / (1 + alpha) of the buffer, but *)
(* for one packet.                                                           *)
THEOREM NobodyMonopolises == Spec => []NoMonopoly
BY AllHold, PTL
=============================================================================
