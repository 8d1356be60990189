--------------------------- MODULE Routing_proofs ---------------------------
(***************************************************************************)
(* The properties of routing, for every tree that the constructors build,  *)
(* every WAN with all its switches, every strategy, any flows, any number  *)
(* of packets and every hash.  EcmpInv says that a trail is the decisions  *)
(* of the switches along it, which no lookup changes.  Base says of every  *)
(* table, in any order of lookups, that its lists hold links a lookup      *)
(* computed, and that round robin is even; LeadsNear turns that into what  *)
(* a link does for a packet, and the invariants StraightInv and RouteInv   *)
(* follow packets from there.                                              *)
(***************************************************************************)
EXTENDS Routing, TLAPS, WellFoundedInduction, FiniteSetTheorems, SequenceTheorems

-----------------------------------------------------------------------------
(* Under ECMP a path is one route *)

(* What is known of the next link of a packet of this flow and path id at    *)
(* the switch s: its table and, where there is a choice, the hash decide.    *)
Decided(s, p, link) ==
  IF IsLocal(s, p.flow[2])
  THEN link = Link(s, Host(Attached(s, p.flow[2])), 0)
  ELSE /\ s \in DOMAIN sw
       /\ p.flow[2] \in DOMAIN sw[s].table
       /\ \/ /\ Len(List(sw[s], p.flow[2])) = 1
             /\ link = List(sw[s], p.flow[2])[1]
          \/ /\ Len(List(sw[s], p.flow[2])) > 1
             /\ HashKey(s, p) \in DOMAIN hash
             /\ link = List(sw[s], p.flow[2])
                         [(hash[HashKey(s, p)] % Len(List(sw[s], p.flow[2]))) + 1]

IsSeq(t) == \E S : t \in Seq(S)

(* Every switch of a trail but the last has decided for the link after it. *)
Follows(p) ==
  /\ IsSeq(p.trail)
  /\ Len(p.trail) >= 1
  /\ p.trail[1] = Link(Host(p.flow[1]), entry[p.flow], 0)
  /\ \A i \in 1..Len(p.trail) - 1 :
       /\ p.trail[i].to[1] # "HOST"
       /\ Decided(p.trail[i].to, p, p.trail[i + 1])

IsSwitch(r) == r = [table |-> r.table, lists |-> r.lists, crt |-> r.crt, uses |-> r.uses]

TablesAreFilled ==
  \A s \in DOMAIN sw :
    /\ IsSwitch(sw[s])
    /\ \A d \in DOMAIN sw[s].table : sw[s].table[d] \in DOMAIN sw[s].lists

IsPacket(p) == p = [flow |-> p.flow, path |-> p.path, size |-> p.size, trail |-> p.trail]

EcmpInv ==
  /\ TablesAreFilled
  /\ \A p \in net : IsPacket(p)
  /\ strategy # "ECMP" => taken = {}
  /\ strategy = "ECMP" =>
       /\ \A p \in net \cup taken : Follows(p)
       /\ \A p \in taken : p.trail[Len(p.trail)].to[1] = "HOST"

(* At most one link is decided for. *)
LEMMA DecidedOnce ==
  ASSUME NEW s, NEW p, NEW q, NEW x, NEW y, p.flow = q.flow, p.path = q.path,
         Decided(s, p, x), Decided(s, q, y)
  PROVE  x = y
<1>1. HashKey(s, p) = HashKey(s, q)
  BY DEF HashKey
<1>2. CASE IsLocal(s, p.flow[2])
  BY <1>2 DEF Decided
<1>3. CASE ~ IsLocal(s, p.flow[2])
  <2>1. Len(List(sw[s], p.flow[2])) = 1 => ~ (Len(List(sw[s], p.flow[2])) > 1)
    OBVIOUS
  <2> QED BY <1>1, <1>3, <2>1 DEF Decided
<1> QED BY <1>2, <1>3

(* A lookup makes a switch record of a switch record: it enters at most the *)
(* destination, under a list made then or before.                           *)
LEMMA FilledIs ==
  ASSUME NEW o, IsSwitch(o), NEW s, NEW d, NEW r \in Filled(o, s, d),
         NEW name, name = IF NextHops(s, d).shared THEN UP ELSE d
  PROVE  /\ IsSwitch(r)
         /\ r.crt = o.crt /\ r.uses = o.uses
         /\ \/ d \in DOMAIN o.table /\ r = o
            \/ /\ d \notin DOMAIN o.table
               /\ r.table = SetAt(o.table, d, name)
               /\ \E l : /\ r.lists = SetAt(o.lists, name, l)
                         /\ \/ name \in DOMAIN o.lists /\ l = o.lists[name]
                            \/ /\ name \notin DOMAIN o.lists
                               /\ l \in IF NextHops(s, d).shuffled
                                       THEN Shuffles(NextHops(s, d).links)
                                       ELSE {NextHops(s, d).links}
<1> DEFINE h == NextHops(s, d)
           orders == IF name \in DOMAIN o.lists THEN {o.lists[name]}
                     ELSE IF h.shuffled THEN Shuffles(h.links) ELSE {h.links}
<1>1. \/ d \in DOMAIN o.table /\ r = o
      \/ d \notin DOMAIN o.table
         /\ \E l \in orders : r = [o EXCEPT !.table = SetAt(@, d, name), !.lists = SetAt(@, name, l)]
  BY DEF Filled
<1>2. CASE d \in DOMAIN o.table /\ r = o
  BY <1>2
<1>3. CASE d \notin DOMAIN o.table
  <2>1. PICK l \in orders : r = [o EXCEPT !.table = SetAt(@, d, name), !.lists = SetAt(@, name, l)]
    BY <1>1, <1>3
  <2>2. o = [table |-> o.table, lists |-> o.lists, crt |-> o.crt, uses |-> o.uses]
    BY DEF IsSwitch
  <2>3. r = [table |-> SetAt(o.table, d, name), lists |-> SetAt(o.lists, name, l),
             crt |-> o.crt, uses |-> o.uses]
    <3> HIDE DEF orders
    <3> QED BY <2>1, <2>2
  <2>4. \/ name \in DOMAIN o.lists /\ l = o.lists[name]
        \/ name \notin DOMAIN o.lists
           /\ l \in IF h.shuffled THEN Shuffles(h.links) ELSE {h.links}
    OBVIOUS
  <2> HIDE DEF orders
  <2> QED BY <1>3, <2>3, <2>4 DEF IsSwitch
<1> QED BY <1>1, <1>2, <1>3

(* A switch record, also that of a switch without one yet, is well formed.   *)
LEMMA SwitchIs ==
  ASSUME TablesAreFilled, NEW s
  PROVE  /\ IsSwitch(Switch(s))
         /\ \A e \in DOMAIN Switch(s).table : Switch(s).table[e] \in DOMAIN Switch(s).lists
BY DEF Switch, NewSwitch, TablesAreFilled, IsSwitch

(* What a lookup leaves as it is. *)
LEMMA FilledKeeps ==
  ASSUME NEW s, NEW d, NEW r \in Filled(Switch(s), s, d), TablesAreFilled
  PROVE  /\ IsSwitch(r) /\ d \in DOMAIN r.table
         /\ \A e \in DOMAIN r.table : r.table[e] \in DOMAIN r.lists
         /\ s \in DOMAIN sw =>
              \A e \in DOMAIN sw[s].table : e \in DOMAIN r.table /\ List(r, e) = List(sw[s], e)
<1> DEFINE o == Switch(s)
<1> DEFINE name == IF NextHops(s, d).shared THEN UP ELSE d
<1>1. IsSwitch(o) /\ \A e \in DOMAIN o.table : o.table[e] \in DOMAIN o.lists
  BY SwitchIs
<1>2. s \in DOMAIN sw => o = sw[s]
  BY DEF Switch
<1> HIDE DEF o, name
<1>3. /\ IsSwitch(r)
      /\ \/ d \in DOMAIN o.table /\ r = o
         \/ /\ d \notin DOMAIN o.table
            /\ r.table = SetAt(o.table, d, name)
            /\ \E l : /\ r.lists = SetAt(o.lists, name, l)
                      /\ name \in DOMAIN o.lists => l = o.lists[name]
  BY <1>1, FilledIs DEF o, name
<1>4. CASE d \in DOMAIN o.table /\ r = o
  BY <1>1, <1>2, <1>3, <1>4
<1>5. CASE d \notin DOMAIN o.table
  <2>1. PICK l : /\ r.lists = SetAt(o.lists, name, l)
                 /\ name \in DOMAIN o.lists => l = o.lists[name]
    BY <1>3, <1>5
  <2>2. DOMAIN r.table = DOMAIN o.table \cup {d} /\ r.table[d] = name
        /\ \A e \in DOMAIN o.table : r.table[e] = o.table[e]
    <3>1. r.table = SetAt(o.table, d, name)
      BY <1>3, <1>5
    <3> QED BY <1>5, <3>1 DEF SetAt
  <2>3. DOMAIN r.lists = DOMAIN o.lists \cup {name}
        /\ \A n \in DOMAIN o.lists : r.lists[n] = o.lists[n]
    BY <2>1 DEF SetAt
  <2> QED BY <1>1, <1>2, <1>3, <2>2, <2>3 DEF List
<1> QED BY <1>3, <1>4, <1>5

(* A lookup leaves every entry of every table with its list.                 *)
LEMMA TablesStayFilled ==
  ASSUME TablesAreFilled, NEW s, NEW d, NEW r \in Filled(Switch(s), s, d),
         NEW t, IsSwitch(t), t.table = r.table, DOMAIN t.lists = DOMAIN r.lists,
         sw' = SetAt(sw, s, t)
  PROVE  TablesAreFilled'
<1>1. \A e \in DOMAIN t.table : t.table[e] \in DOMAIN t.lists
  BY FilledKeeps
<1>2. DOMAIN sw' = DOMAIN sw \cup {s} /\ sw'[s] = t
      /\ \A x \in DOMAIN sw : x # s => sw'[x] = sw[x]
  BY DEF SetAt
<1> QED BY <1>1, <1>2 DEF TablesAreFilled

(* The part of a decision that does not depend on the state of the switches. *)
LEMMA SameTopology ==
  ASSUME topo' = topo, NEW s, NEW d, NEW p
  PROVE  /\ IsLocal(s, d)' <=> IsLocal(s, d)
         /\ Attached(s, d)' = Attached(s, d)
         /\ HashKey(s, p)' = HashKey(s, p)
         /\ NextHops(s, d)' = NextHops(s, d)
<1>1. IsTree' <=> IsTree
  BY DEF IsTree
<1>2. IsLocal(s, d)' <=> IsLocal(s, d)
  BY <1>1 DEF IsLocal
<1>3. Attached(s, d)' = Attached(s, d)
  BY <1>1 DEF Attached
<1>4. HashKey(s, p)' = HashKey(s, p)
  BY <1>1 DEF HashKey, Salt
<1>5. NextHops(s, d)' = NextHops(s, d)
  BY <1>1 DEF NextHops
<1> QED BY <1>2, <1>3, <1>4, <1>5

(* Neither a lookup nor a new value of the hash changes a decision. *)
LEMMA DecisionsStay ==
  ASSUME TablesAreFilled, topo' = topo,
         \/ sw' = sw
         \/ \E s, d : \E r \in Filled(Switch(s), s, d) : sw' = SetAt(sw, s, r),
         hash' = hash \/ \E k : \E v \in HashValues(k) : hash' = SetAt(hash, k, v),
         NEW x, NEW p, NEW link, Decided(x, p, link)
  PROVE  Decided(x, p, link)'
<1> DEFINE d == p.flow[2]
           k == HashKey(x, p)
<1>1. k \in DOMAIN hash => k \in DOMAIN hash' /\ hash'[k] = hash[k]
  <2> HIDE DEF k
  <2>1. CASE hash' = hash
    BY <2>1
  <2>2. CASE \E l : \E v \in HashValues(l) : hash' = SetAt(hash, l, v)
    <3>1. PICK l : \E v \in HashValues(l) : hash' = SetAt(hash, l, v)
      BY <2>2
    <3>2. PICK v \in HashValues(l) : hash' = SetAt(hash, l, v)
      BY <3>1
    <3>3. l \in DOMAIN hash => v = hash[l]
      BY DEF HashValues
    <3> QED BY <3>2, <3>3 DEF SetAt
  <2> QED BY <2>1, <2>2
<1>2. x \in DOMAIN sw /\ d \in DOMAIN sw[x].table
        => x \in DOMAIN sw' /\ d \in DOMAIN sw'[x].table /\ List(sw'[x], d) = List(sw[x], d)
  <2> HIDE DEF d
  <2>1. CASE sw' = sw
    BY <2>1
  <2>2. CASE \E s, e : \E r \in Filled(Switch(s), s, e) : sw' = SetAt(sw, s, r)
    <3>1. PICK s, e : \E r \in Filled(Switch(s), s, e) : sw' = SetAt(sw, s, r)
      BY <2>2
    <3>2. PICK r \in Filled(Switch(s), s, e) : sw' = SetAt(sw, s, r)
      BY <3>1
    <3>3. s \in DOMAIN sw =>
            \A f \in DOMAIN sw[s].table : f \in DOMAIN r.table /\ List(r, f) = List(sw[s], f)
      BY FilledKeeps
    <3>4. DOMAIN sw' = DOMAIN sw \cup {s} /\ sw'[s] = r
          /\ \A y \in DOMAIN sw : y # s => sw'[y] = sw[y]
      BY <3>2 DEF SetAt
    <3> QED BY <3>3, <3>4
  <2> QED BY <2>1, <2>2
<1>3. /\ IsLocal(x, d)' <=> IsLocal(x, d)
      /\ Attached(x, d)' = Attached(x, d) /\ k' = k
  BY SameTopology
<1>4. CASE IsLocal(x, d)
  BY <1>3, <1>4 DEF Decided
<1>5. CASE ~ IsLocal(x, d)
  <2>1. List(sw[x], d)' = List(sw'[x], d)
    BY DEF List
  <2>2. /\ x \in DOMAIN sw
        /\ d \in DOMAIN sw[x].table
        /\ \/ /\ Len(List(sw[x], d)) = 1
              /\ link = List(sw[x], d)[1]
           \/ /\ Len(List(sw[x], d)) > 1
              /\ k \in DOMAIN hash
              /\ link = List(sw[x], d)[(hash[k] % Len(List(sw[x], d))) + 1]
    BY <1>5 DEF Decided
  <2>3. /\ x \in DOMAIN sw'
        /\ d \in DOMAIN sw'[x].table
        /\ \/ /\ Len(List(sw'[x], d)) = 1
              /\ link = List(sw'[x], d)[1]
           \/ /\ Len(List(sw'[x], d)) > 1
              /\ k' \in DOMAIN hash'
              /\ link = List(sw'[x], d)[(hash'[k'] % Len(List(sw'[x], d))) + 1]
    BY <1>1, <1>2, <1>3, <2>2
  <2> QED BY <1>3, <1>5, <2>1, <2>3 DEF Decided
<1> QED BY <1>4, <1>5

Longer(p, link) == [p EXCEPT !.trail = Append(@, link)]

(* A packet with one more link is the same packet otherwise.                 *)
LEMMA LongerIs ==
  ASSUME NEW p, IsPacket(p), NEW link
  PROVE  /\ IsPacket(Longer(p, link)) /\ Longer(p, link).flow = p.flow
         /\ Longer(p, link).path = p.path /\ Longer(p, link).trail = Append(p.trail, link)
<1>1. Longer(p, link) = [flow |-> p.flow, path |-> p.path, size |-> p.size,
                         trail |-> Append(p.trail, link)]
  BY DEF Longer, IsPacket
<1> HIDE DEF Longer
<1> QED BY <1>1 DEF IsPacket

LEMMA SingleIs ==
  ASSUME NEW x
  PROVE  IsSeq(<<x>>) /\ Len(<<x>>) = 1 /\ <<x>>[1] = x
<1>1. <<x>> \in Seq({x})
  OBVIOUS
<1> QED BY <1>1 DEF IsSeq

LEMMA AppendIs ==
  ASSUME NEW t, IsSeq(t), NEW x, NEW n, n = Len(t)
  PROVE  /\ n \in Nat /\ IsSeq(Append(t, x))
         /\ Len(Append(t, x)) = n + 1 /\ Append(t, x)[n + 1] = x
         /\ \A i \in 1..n : Append(t, x)[i] = t[i]
<1>1. PICK S : t \in Seq(S)
  BY DEF IsSeq
<1> DEFINE T == S \cup {x}
<1>2. t \in Seq(T) /\ x \in T
  BY <1>1
<1> HIDE DEF T
<1>3. Append(t, x) \in Seq(T)
  BY <1>2
<1> QED BY <1>2, <1>3 DEF IsSeq

(* What a packet followed so far it still follows. *)
LEMMA FollowsStays ==
  ASSUME NEW p, Follows(p), entry' = entry,
         \A s, link : Decided(s, p, link) => Decided(s, p, link)'
  PROVE  Follows(p)'
BY DEF Follows

(* A packet that moves over a decided link still follows the decisions.      *)
LEMMA FollowsLonger ==
  ASSUME NEW p, IsPacket(p), Follows(p), entry' = entry, NEW link,
         \A s, x : Decided(s, p, x) => Decided(s, p, x)',
         At(p)[1] # "HOST", Decided(At(p), p, link)'
  PROVE  Follows(Longer(p, link))'
<1> DEFINE q == Longer(p, link)
           n == Len(p.trail)
<1>1. /\ q.flow = p.flow /\ q.path = p.path /\ q.trail = Append(p.trail, link)
  BY LongerIs
<1>2. /\ n \in Nat /\ n >= 1
      /\ IsSeq(q.trail)
      /\ Len(q.trail) = n + 1 /\ q.trail[n + 1] = link
      /\ \A i \in 1..n : q.trail[i] = p.trail[i]
  <2>1. IsSeq(p.trail) /\ n >= 1
    BY DEF Follows
  <2> HIDE DEF q
  <2> QED BY <1>1, <2>1, AppendIs
<1>3. At(p) = p.trail[n].to
  BY DEF At, Last
<1> HIDE DEF q, n
<1>4. q.trail[1] = Link(Host(q.flow[1]), entry'[q.flow], 0)
  <2>1. q.trail[1] = p.trail[1]
    BY <1>2
  <2> QED BY <1>1, <2>1 DEF Follows
<1>5. ASSUME NEW x, NEW s, Decided(s, p, x)' PROVE Decided(s, q, x)'
  BY <1>1, <1>5 DEF Decided, HashKey
<1>6. ASSUME NEW i \in 1..n
      PROVE  q.trail[i].to[1] # "HOST" /\ Decided(q.trail[i].to, q, q.trail[i + 1])'
  <2>1. CASE i = n
    BY <1>2, <1>3, <1>5, <2>1
  <2>2. CASE i # n
    <3>1. i \in 1..(n - 1) /\ i + 1 \in 1..n
      BY <1>2, <2>2
    <3>2. p.trail[i].to[1] # "HOST" /\ Decided(p.trail[i].to, p, p.trail[i + 1])
      BY <3>1 DEF Follows, n
    <3>3. Decided(p.trail[i].to, q, p.trail[i + 1])'
      BY <1>5, <3>2
    <3> QED BY <1>2, <3>1, <3>2, <3>3
  <2> QED BY <2>1, <2>2
<1>7. Len(q.trail) - 1 = n
  BY <1>2
<1> QED BY <1>2, <1>4, <1>6, <1>7 DEF Follows, q

(* A packet moves over a link that is decided for. *)
LEMMA MoveKeepsEcmp ==
  ASSUME EcmpInv, TablesAreFilled', topo' = topo, strategy' = strategy, entry' = entry,
         taken' = taken, NEW p \in net, NEW link, net' = (net \ {p}) \cup {Longer(p, link)},
         strategy = "ECMP" =>
           /\ At(p)[1] # "HOST" /\ Decided(At(p), p, link)'
           /\ \A q, s, x : Decided(s, q, x) => Decided(s, q, x)'
  PROVE  EcmpInv'
<1>1. IsPacket(p) /\ \A q \in net' : IsPacket(q)
  BY LongerIs DEF EcmpInv
<1>2. CASE strategy # "ECMP"
  BY <1>1, <1>2 DEF EcmpInv
<1>3. CASE strategy = "ECMP"
  <2>1. Follows(p) /\ Follows(Longer(p, link))'
    BY <1>1, <1>3, FollowsLonger DEF EcmpInv
  <2>2. \A q \in net \cup taken : Follows(q)'
    BY <1>3, FollowsStays DEF EcmpInv
  <2> QED BY <1>1, <1>3, <2>1, <2>2 DEF EcmpInv
<1> QED BY <1>2, <1>3

(* A lookup, and the move of the packet that caused it. *)
LEMMA LookupKeepsEcmp ==
  ASSUME EcmpInv, topo' = topo, strategy' = strategy, entry' = entry, taken' = taken,
         NEW p \in net, AtSwitch(p), NEW s, s = At(p), NEW d, d = p.flow[2],
         NEW r \in Filled(Switch(s), s, d), sw' = SetAt(sw, s, r),
         hash' = hash \/ \E k : \E v \in HashValues(k) : hash' = SetAt(hash, k, v),
         NEW link, net' = (net \ {p}) \cup {Longer(p, link)},
         strategy = "ECMP" =>
           \/ Len(List(r, d)) = 1 /\ link = List(r, d)[1]
           \/ /\ Len(List(r, d)) > 1 /\ HashKey(s, p) \in DOMAIN hash'
              /\ link = List(r, d)[(hash'[HashKey(s, p)] % Len(List(r, d))) + 1]
  PROVE  EcmpInv'
<1>1. TablesAreFilled /\ IsSwitch(r)
  BY FilledKeeps DEF EcmpInv
<1>2. TablesAreFilled'
  BY <1>1, TablesStayFilled
<1>3. \A q, x, l : Decided(x, q, l) => Decided(x, q, l)'
  BY <1>1, DecisionsStay
<1>4. strategy = "ECMP" => Decided(s, p, link)'
  <2>1. /\ IsLocal(s, d)' <=> IsLocal(s, d)
        /\ HashKey(s, p)' = HashKey(s, p)
    BY SameTopology
  <2>2. ~ IsLocal(s, d) /\ d \in DOMAIN r.table
    BY <1>1, FilledKeeps DEF AtSwitch
  <2>3. s \in DOMAIN sw' /\ sw'[s] = r
    BY DEF SetAt
  <2>4. List(sw[s], d)' = List(r, d)
    BY <2>3 DEF List
  <2> QED BY <2>1, <2>2, <2>3, <2>4 DEF Decided
<1>5. At(p)[1] # "HOST"
  BY DEF AtSwitch
<1> QED BY <1>2, <1>3, <1>4, <1>5, MoveKeepsEcmp

(* A rewind changes the order of one list only. *)
LEMMA RewoundIs ==
  ASSUME NEW r, IsSwitch(r), NEW d, NEW q \in Rewound(r, d)
  PROVE  /\ IsSwitch(q) /\ q.table = r.table /\ q.uses = r.uses
         /\ DOMAIN q.lists = DOMAIN r.lists
         /\ \/ q = r /\ r.crt < Rounds * Len(List(r, d))
            \/ /\ ~ (r.crt < Rounds * Len(List(r, d))) /\ q.crt = 0
               /\ \E o \in Shuffles(List(r, d)) :
                    q.lists = [r.lists EXCEPT ![r.table[d]] = o]
<1>1. CASE r.crt < Rounds * Len(List(r, d))
  BY <1>1 DEF Rewound
<1>2. CASE ~ (r.crt < Rounds * Len(List(r, d)))
  <2>1. PICK o \in Shuffles(List(r, d)) : q = [r EXCEPT !.lists[r.table[d]] = o, !.crt = 0]
    BY <1>2 DEF Rewound
  <2>2. r = [table |-> r.table, lists |-> r.lists, crt |-> r.crt, uses |-> r.uses]
    BY DEF IsSwitch
  <2>3. q = [table |-> r.table, lists |-> [r.lists EXCEPT ![r.table[d]] = o],
             crt |-> 0, uses |-> r.uses]
    BY <2>1, <2>2
  <2> QED BY <1>2, <2>3 DEF IsSwitch
<1> QED BY <1>1, <1>2

(* No packet has moved at first.                                             *)
LEMMA EcmpInit == Init => EcmpInv
<1> SUFFICES ASSUME Init PROVE EcmpInv
  OBVIOUS
<1>1. DOMAIN sw = {}
  BY DEF Init
<1> QED BY <1>1 DEF Init, EcmpInv, TablesAreFilled

(* Every step keeps what is known of the trails under ECMP.                  *)
LEMMA EcmpNext == EcmpInv /\ [Next]_vars => EcmpInv'
<1> SUFFICES ASSUME EcmpInv, [Next]_vars PROVE EcmpInv'
  OBVIOUS
<1>0. TablesAreFilled /\ \A p \in net : IsPacket(p)
  BY DEF EcmpInv
<1>1. CASE UNCHANGED vars
  <2>1. \A q, s, x : Decided(s, q, x) => Decided(s, q, x)'
    BY <1>0, <1>1, DecisionsStay DEF vars
  <2>2. \A q \in net \cup taken : Follows(q) => Follows(q)'
    BY <1>1, <2>1, FollowsStays DEF vars
  <2> QED BY <1>1, <2>2 DEF vars, EcmpInv, TablesAreFilled
<1>2. ASSUME NEW f \in flows, NEW path \in PathIds, NEW size \in PacketSizes(strategy),
             SendPacket(f, path, size)
      PROVE  EcmpInv'
  <2> PICK l : l = Link(Host(f[1]), entry[f], 0)
    OBVIOUS
  <2> DEFINE q == [flow |-> f, path |-> path, size |-> size, trail |-> <<l>>]
  <2>1. /\ net' = net \cup {q}
        /\ UNCHANGED <<topo, strategy, entry, sw, hash, taken>>
    BY <1>2 DEF SendPacket
  <2>2. /\ IsPacket(q) /\ q.flow = f /\ q.trail = <<l>>
    BY DEF IsPacket
  <2> HIDE DEF q
  <2>3. \A r, s, x : Decided(s, r, x) => Decided(s, r, x)'
    BY <1>0, <2>1, DecisionsStay
  <2>4. \A r \in net \cup taken : Follows(r) => Follows(r)'
    BY <2>1, <2>3, FollowsStays
  <2>5. Follows(q)'
    <3>2. q.trail = <<l>>
      BY <2>2
    <3>3. l = Link(Host(q.flow[1]), entry'[q.flow], 0)
      BY <2>1, <2>2
    <3>4. IsSeq(q.trail) /\ Len(q.trail) = 1 /\ q.trail[1] = l
      BY <3>2, SingleIs
    <3>5. \A i \in 1..Len(q.trail) - 1 : FALSE
      BY <3>4
    <3> QED BY <3>3, <3>4, <3>5 DEF Follows
  <2>6. TablesAreFilled'
    BY <1>0, <2>1 DEF TablesAreFilled
  <2> QED BY <1>0, <2>1, <2>2, <2>4, <2>5, <2>6 DEF EcmpInv
<1>3. ASSUME NEW p \in net, ForwardToHost(p) PROVE EcmpInv'
  <2> PICK link : link = Link(At(p), Host(Attached(At(p), p.flow[2])), 0)
    OBVIOUS
  <2> PICK s : s = At(p)
    OBVIOUS
  <2>1. /\ At(p)[1] # "HOST" /\ IsLocal(s, p.flow[2])
        /\ net' = (net \ {p}) \cup {Longer(p, link)}
        /\ UNCHANGED <<topo, strategy, entry, sw, hash, taken>>
    BY <1>3 DEF ForwardToHost, Move, Longer
  <2>2. \A q, x, l : Decided(x, q, l) => Decided(x, q, l)'
    BY <1>0, <2>1, DecisionsStay
  <2>3. Decided(s, p, link)
    BY <2>1 DEF Decided
  <2>4. Decided(s, p, link)'
    BY <2>2, <2>3
  <2>5. TablesAreFilled'
    BY <1>0, <2>1 DEF TablesAreFilled
  <2> QED BY <2>1, <2>2, <2>4, <2>5, MoveKeepsEcmp
<1>4. ASSUME NEW p \in net, ForwardFirst(p) PROVE EcmpInv'
  <2> DEFINE s == At(p)
             d == p.flow[2]
  <2>1. PICK r \in Filled(Switch(s), s, d) :
          /\ Len(List(r, d)) = 1 \/ strategy = "SINGLE"
          /\ sw' = SetAt(sw, s, r)
          /\ Move(p, List(r, d)[1])
    BY <1>4 DEF ForwardFirst
  <2>2. AtSwitch(p) /\ UNCHANGED <<topo, strategy, entry, hash, taken>>
    BY <1>4 DEF ForwardFirst
  <2> DEFINE link == List(r, d)[1]
  <2>3. net' = (net \ {p}) \cup {Longer(p, link)}
    BY <2>1 DEF Move, Longer
  <2>4. strategy = "ECMP" => Len(List(r, d)) = 1 /\ link = List(r, d)[1]
    BY <2>1
  <2>5. s = At(p) /\ d = p.flow[2] /\ sw' = SetAt(sw, s, r)
    BY <2>1
  <2> HIDE DEF s, d, link
  <2> QED BY <2>2, <2>3, <2>4, <2>5, LookupKeepsEcmp
<1>5. ASSUME NEW p \in net, ForwardByHash(p) PROVE EcmpInv'
  <2> DEFINE s == At(p)
             d == p.flow[2]
             k == HashKey(s, p)
  <2>1. PICK r \in Filled(Switch(s), s, d), v \in HashValues(k) :
          /\ Len(List(r, d)) > 1
          /\ sw' = SetAt(sw, s, r)
          /\ hash' = SetAt(hash, k, v)
          /\ Move(p, List(r, d)[(v % Len(List(r, d))) + 1])
    BY <1>5 DEF ForwardByHash
  <2>2. AtSwitch(p) /\ UNCHANGED <<topo, strategy, entry, taken>>
    BY <1>5 DEF ForwardByHash
  <2> DEFINE link == List(r, d)[(v % Len(List(r, d))) + 1]
  <2>3. net' = (net \ {p}) \cup {Longer(p, link)}
    BY <2>1 DEF Move, Longer
  <2>4. k \in DOMAIN hash' /\ hash'[k] = v
    BY <2>1 DEF SetAt
  <2>5. /\ Len(List(r, d)) > 1 /\ HashKey(s, p) \in DOMAIN hash'
        /\ link = List(r, d)[(hash'[HashKey(s, p)] % Len(List(r, d))) + 1]
    BY <2>1, <2>4
  <2>6. s = At(p) /\ d = p.flow[2] /\ sw' = SetAt(sw, s, r)
    BY <2>1
  <2>7. \E l : \E w \in HashValues(l) : hash' = SetAt(hash, l, w)
    BY <2>1
  <2> HIDE DEF s, d, k, link
  <2> QED BY <2>2, <2>3, <2>5, <2>6, <2>7, LookupKeepsEcmp
<1>6. ASSUME NEW p \in net, ForwardAdaptively(p) PROVE EcmpInv'
  <2> DEFINE s == At(p)
             d == p.flow[2]
  <2>1. PICK r \in Filled(Switch(s), s, d) :
          /\ sw' = SetAt(sw, s, r)
          /\ \E i \in 1..Len(List(r, d)) : Move(p, List(r, d)[i])
    BY <1>6 DEF ForwardAdaptively
  <2>2. AtSwitch(p) /\ strategy # "ECMP" /\ UNCHANGED <<topo, strategy, entry, hash, taken>>
    BY <1>6 DEF ForwardAdaptively, Adaptive
  <2>3. PICK i \in 1..Len(List(r, d)) : Move(p, List(r, d)[i])
    BY <2>1
  <2> DEFINE link == List(r, d)[i]
  <2>4. net' = (net \ {p}) \cup {Longer(p, link)}
    BY <2>3 DEF Move, Longer
  <2>5. s = At(p) /\ d = p.flow[2] /\ sw' = SetAt(sw, s, r)
    BY <2>1
  <2> HIDE DEF s, d, link
  <2> QED BY <2>2, <2>4, <2>5, LookupKeepsEcmp
<1>7. ASSUME NEW p \in net, ForwardInTurn(p) PROVE EcmpInv'
  <2> DEFINE s == At(p)
             d == p.flow[2]
  <2>1. PICK r \in Filled(Switch(s), s, d) : \E q \in Rewound(r, d) :
          /\ sw' = SetAt(sw, s, TakeTurn(q, d).switch)
          /\ Move(p, TakeTurn(q, d).link)
    BY <1>7 DEF ForwardInTurn
  <2>2. PICK q \in Rewound(r, d) : /\ sw' = SetAt(sw, s, TakeTurn(q, d).switch)
                                  /\ Move(p, TakeTurn(q, d).link)
    BY <2>1
  <2>3. strategy # "ECMP" /\ UNCHANGED <<topo, strategy, entry, taken>>
    BY <1>7 DEF ForwardInTurn, InTurn
  <2> DEFINE t == TakeTurn(q, d).switch
             link == TakeTurn(q, d).link
  <2>4. net' = (net \ {p}) \cup {Longer(p, link)}
    BY <2>2 DEF Move, Longer
  <2> HIDE DEF s, d
  <2>5. IsSwitch(r)
    BY <1>0, FilledKeeps
  <2>6. IsSwitch(q) /\ q.table = r.table /\ DOMAIN q.lists = DOMAIN r.lists
    BY <2>5, RewoundIs
  <2>7. IsSwitch(t) /\ t.table = q.table /\ t.lists = q.lists
    BY <2>6 DEF TakeTurn, IsSwitch
  <2> HIDE DEF t, link
  <2>8. TablesAreFilled'
    BY <1>0, <2>2, <2>6, <2>7, TablesStayFilled DEF t
  <2> QED BY <2>3, <2>4, <2>8, MoveKeepsEcmp
<1>8. ASSUME NEW p \in net, Receive(p) PROVE EcmpInv'
  <2> DEFINE got == [flow |-> p.flow, path |-> p.path, trail |-> p.trail]
  <2>1. /\ At(p)[1] = "HOST" /\ net' = net \ {p}
        /\ taken' = IF strategy = "ECMP" THEN taken \cup {got} ELSE taken
        /\ UNCHANGED <<topo, strategy, entry, sw, hash>>
    BY <1>8 DEF Receive
  <2>2. \A q, s, x : Decided(s, q, x) => Decided(s, q, x)'
    BY <1>0, <2>1, DecisionsStay
  <2>3. \A q : Follows(q) => Follows(q)'
    BY <2>1, <2>2, FollowsStays
  <2>4. Follows(p) => Follows(got)
    <3>1. got.flow = p.flow /\ got.path = p.path /\ got.trail = p.trail
      OBVIOUS
    <3> HIDE DEF got
    <3>2. \A s, x : Decided(s, p, x) => Decided(s, got, x)
      BY <3>1 DEF Decided, HashKey
    <3> QED BY <3>1, <3>2 DEF Follows
  <2>5. At(p) = p.trail[Len(p.trail)].to /\ got.trail = p.trail
    BY DEF At, Last
  <2> HIDE DEF got
  <2> QED BY <1>0, <2>1, <2>3, <2>4, <2>5 DEF EcmpInv, TablesAreFilled
<1> QED BY <1>1, <1>2, <1>3, <1>4, <1>5, <1>6, <1>7, <1>8 DEF Next

(* Every set of naturals that is not empty has a least element. *)
LEMMA LeastExists ==
  ASSUME NEW S \in SUBSET Nat, S # {}
  PROVE  \E p \in S : \A q \in S : p <= q
<1> DEFINE R == OpToRel(<, Nat)
<1>1. PICK x \in S : \A y \in S : ~ (<<y, x>> \in R)
  BY WFMin, NatLessThanWellFounded, Zenon
<1>2. \A u, v \in Nat : u < v => <<u, v>> \in R
  BY DEF OpToRel
<1>3. \A y \in S : ~ (y < x)
  <2> HIDE DEF R
  <2> QED BY <1>1, <1>2
<1> QED BY <1>3

LEMMA SameSeq ==
  ASSUME NEW a, NEW b, IsSeq(a), IsSeq(b), Len(a) = Len(b),
         \A i \in 1..Len(a) : a[i] = b[i]
  PROVE  a = b
<1>1. PICK S : a \in Seq(S)
  BY DEF IsSeq
<1>2. PICK T : b \in Seq(T)
  BY DEF IsSeq
<1>3. a = [i \in 1..Len(a) |-> a[i]] /\ b = [i \in 1..Len(b) |-> b[i]]
  BY <1>1, <1>2
<1> QED BY <1>3

(* Two trails of decisions from one ToR to a host are one trail. *)
LEMMA OneTrail ==
  ASSUME NEW a, NEW b, a.flow = b.flow, a.path = b.path, Follows(a), Follows(b),
         a.trail[Len(a.trail)].to[1] = "HOST", b.trail[Len(b.trail)].to[1] = "HOST"
  PROVE  a.trail = b.trail
<1> DEFINE m == Len(a.trail)
           n == Len(b.trail)
           Differ == {i \in Nat : i \in 1..m /\ i \in 1..n /\ a.trail[i] # b.trail[i]}
<1>1. /\ IsSeq(a.trail) /\ m \in Nat /\ m >= 1
      /\ IsSeq(b.trail) /\ n \in Nat /\ n >= 1
  BY DEF Follows, IsSeq
<1>2. /\ \A i \in 1..(m - 1) : /\ a.trail[i].to[1] # "HOST"
                             /\ Decided(a.trail[i].to, a, a.trail[i + 1])
      /\ \A i \in 1..(n - 1) : /\ b.trail[i].to[1] # "HOST"
                             /\ Decided(b.trail[i].to, b, b.trail[i + 1])
      /\ a.trail[1] = b.trail[1]
  BY DEF Follows
<1>3. a.trail[m].to[1] = "HOST" /\ b.trail[n].to[1] = "HOST"
  OBVIOUS
<1>4. Differ = {}
  <2> SUFFICES ASSUME Differ # {} PROVE FALSE
    OBVIOUS
  <2>1. PICK i \in Differ : \A j \in Differ : i <= j
    <3>1. Differ \in SUBSET Nat
      OBVIOUS
    <3> HIDE DEF Differ
    <3> QED BY <3>1, LeastExists
  <2>2. i \in Nat /\ i \in 1..m /\ i \in 1..n /\ a.trail[i] # b.trail[i] /\ i # 1
    BY <1>2, <2>1
  <2> HIDE DEF m, n
  <2>3. i - 1 \in Nat /\ i - 1 \in 1..(m - 1) /\ i - 1 \in 1..(n - 1) /\ (i - 1) + 1 = i
        /\ i - 1 \in 1..m /\ i - 1 \in 1..n
    BY <1>1, <2>2
  <2>4. i - 1 \notin Differ
    <3> HIDE DEF Differ
    <3> QED BY <2>1, <2>2, <2>3
  <2>5. a.trail[i - 1] = b.trail[i - 1]
    BY <2>3, <2>4
  <2>6. Decided(a.trail[i - 1].to, a, a.trail[i]) /\ Decided(b.trail[i - 1].to, b, b.trail[i])
    BY <1>2, <2>3
  <2>7. a.trail[i] = b.trail[i]
    BY <2>5, <2>6, DecidedOnce
  <2> QED BY <2>2, <2>7
<1>5. \A i \in 1..m : i \in 1..n => a.trail[i] = b.trail[i]
  BY <1>1, <1>4
<1> HIDE DEF m, n, Differ
<1>6. m = n
  <2>1. CASE m < n
    <3>1. m \in 1..m /\ m \in 1..n /\ m \in 1..(n - 1)
      BY <1>1, <2>1
    <3> QED BY <1>2, <1>3, <1>5, <3>1
  <2>2. CASE n < m
    <3>1. n \in 1..m /\ n \in 1..n /\ n \in 1..(m - 1)
      BY <1>1, <2>2
    <3> QED BY <1>2, <1>3, <1>5, <3>1
  <2> QED BY <1>1, <2>1, <2>2
<1> QED BY <1>1, <1>5, <1>6, SameSeq DEF m, n

(* Under ECMP the packets of a flow with one path id all take one route, on  *)
(* any topology: filling a table never changes what another lookup found.    *)
THEOREM EcmpNeverMoves == Spec => []EcmpKeepsPath
<1>1. EcmpInv => EcmpKeepsPath
  <2> SUFFICES ASSUME EcmpInv, NEW a \in taken, NEW b \in taken,
                      a.flow = b.flow, a.path = b.path
               PROVE  a.trail = b.trail
    BY DEF EcmpKeepsPath
  <2>1. /\ Follows(a) /\ Follows(b)
        /\ a.trail[Len(a.trail)].to[1] = "HOST" /\ b.trail[Len(b.trail)].to[1] = "HOST"
    BY DEF EcmpInv
  <2> QED BY <2>1, OneTrail
<1> QED BY <1>1, EcmpInit, EcmpNext, PTL DEF Spec

-----------------------------------------------------------------------------
(* Division and remainders *)

(* Quotient and remainder of a natural                                       *)
LEMMA DivMod ==
  ASSUME NEW x \in Nat, NEW n \in Nat, n >= 1
  PROVE  /\ x \div n \in Nat /\ x % n \in Nat /\ x % n <= n - 1
         /\ x = n * (x \div n) + (x % n)
<1>1. x % n = x - n * (x \div n)
  BY Z3
<1>2. x \div n \in Nat /\ x % n \in Nat /\ x % n <= n - 1
  <2>1. x % n \in 0 .. n - 1
    OBVIOUS
  <2>2. x \div n \in Nat
    OBVIOUS
  <2> QED BY <2>1, <2>2
<1>3. n * (x \div n) \in Nat
  BY <1>2
<1> QED BY <1>1, <1>2, <1>3

LEMMA Unique ==
  ASSUME NEW n \in Nat, n >= 1, NEW q \in Nat, NEW p \in Nat, NEW r \in Nat, r <= n - 1,
         NEW s \in Nat, s <= n - 1,
         n * q + r = n * p + s
  PROVE  q = p /\ r = s
<1>1. CASE q < p
  <2>1. p = q + (p - q) /\ p - q >= 1 /\ p - q \in Nat
    BY <1>1
  <2>2. n * p = n * q + n * (p - q)
    BY <2>1
  <2>3. n * (p - q) >= n
    BY <2>1
  <2> QED BY <2>2, <2>3
<1>2. CASE p < q
  <2>1. q = p + (q - p) /\ q - p >= 1 /\ q - p \in Nat
    BY <1>2
  <2>2. n * q = n * p + n * (q - p)
    BY <2>1
  <2>3. n * (q - p) >= n
    BY <2>1
  <2> QED BY <2>2, <2>3
<1>3. CASE p = q
  BY <1>3
<1> QED BY <1>1, <1>2, <1>3

(* x is q times n and r. *)
Splits(x, n, q, r) ==
  n \in Nat /\ n >= 1 /\ q \in Nat /\ r \in Nat /\ r <= n - 1 /\ x = n * q + r

(* The only numbers that can be quotient and remainder                       *)
LEMMA DivModIs ==
  ASSUME NEW n, NEW q, NEW r, NEW x, Splits(x, n, q, r)
  PROVE  x \in Nat /\ x \div n = q /\ x % n = r
<1>0. n \in Nat /\ n >= 1 /\ q \in Nat /\ r \in Nat /\ r <= n - 1 /\ x = n * q + r
  BY DEF Splits
<1>1. x \in Nat
  <2>1. n * q \in Nat
    BY <1>0
  <2> QED BY <1>0, <2>1
<1>2. /\ x \div n \in Nat /\ x % n \in Nat /\ x % n <= n - 1
      /\ x = n * (x \div n) + (x % n)
  BY <1>0, <1>1, DivMod
<1> PICK a, b : a = x \div n /\ b = x % n
  OBVIOUS
<1>3. a \in Nat /\ b \in Nat /\ b <= n - 1 /\ n * a + b = n * q + r
  BY <1>0, <1>2
<1>4. a = q /\ b = r
  BY <1>0, <1>3, Unique
<1> QED BY <1>1, <1>4

(* The remainder of the next number                                          *)
LEMMA ModSucc ==
  ASSUME NEW n \in Nat, n >= 1, NEW x \in Nat
  PROVE  (x + 1) % n = IF x % n = n - 1 THEN 0 ELSE (x % n) + 1
<1> PICK q, r : q = x \div n /\ r = x % n
  OBVIOUS
<1>1. q \in Nat /\ r \in Nat /\ r <= n - 1 /\ x = n * q + r
  BY DivMod
<1>2. CASE r = n - 1
  <2> PICK p, y : p = q + 1 /\ y = x + 1
    OBVIOUS
  <2>1. n * p = n * q + n /\ p \in Nat
    BY <1>1
  <2>2. n * q \in Nat
    BY <1>1
  <2>3. Splits(y, n, p, 0)
    BY <1>1, <1>2, <2>1, <2>2 DEF Splits
  <2>4. y % n = 0
    BY <2>3, DivModIs
  <2> QED BY <1>2, <2>4
<1>3. CASE r # n - 1
  <2>1. Splits(x + 1, n, q, r + 1)
    <3>1. n * q \in Nat
      BY <1>1
    <3> QED BY <1>1, <1>3, <3>1 DEF Splits
  <2>2. (x + 1) % n = r + 1
    BY <2>1, DivModIs
  <2> QED BY <1>3, <2>2
<1> QED BY <1>2, <1>3

LEMMA ModOfMultiple ==
  ASSUME NEW n \in Nat, n >= 1, NEW k \in Nat, NEW x, x = k * n
  PROVE  x % n = 0
<1>1. Splits(x, n, k, 0)
  BY DEF Splits
<1> QED BY <1>1, DivModIs

(* A quotient bounded by a product *)
LEMMA DivLess ==
  ASSUME NEW n \in Nat, n >= 1, NEW m \in Nat, NEW x \in Nat, NEW z, z = m * n, x < z
  PROVE  x \div n \in Nat /\ x \div n <= m - 1 /\ m >= 1
<1> PICK q, r : q = x \div n /\ r = x % n
  OBVIOUS
<1>1. q \in Nat /\ r \in Nat /\ x = n * q + r
  BY DivMod
<1>2. ~ (q >= m)
  <2> SUFFICES ASSUME q >= m PROVE FALSE
    OBVIOUS
  <2>1. q - m \in Nat /\ n * (q - m) \in Nat
    BY <1>1
  <2>2. n * q = n * m + n * (q - m)
    BY <1>1
  <2>3. n * m = z
    OBVIOUS
  <2> QED BY <1>1, <2>1, <2>2, <2>3
<1> QED BY <1>1, <1>2

(* x = a * (b * c) + ...: the quotient by b of the quotient by a *)
LEMMA DivTwice ==
  ASSUME NEW a \in Nat, a >= 1, NEW b \in Nat, b >= 1, NEW x \in Nat, NEW c, c = a * b
  PROVE  (x \div a) \div b = x \div c
<1> PICK q, r : q = x \div a /\ r = x % a
  OBVIOUS
<1>1. q \in Nat /\ r \in Nat /\ r <= a - 1 /\ x = a * q + r
  BY DivMod
<1> PICK p, s : p = q \div b /\ s = q % b
  OBVIOUS
<1>2. p \in Nat /\ s \in Nat /\ s <= b - 1 /\ q = b * p + s
  BY <1>1, DivMod
<1>3. c \in Nat /\ c >= 1
  OBVIOUS
<1>4. a * s \in Nat /\ a * s <= a * (b - 1)
  BY <1>2
<1>5. a * (b - 1) = c - a
  OBVIOUS
<1> PICK t : t = a * s + r
  OBVIOUS
<1>6. t \in Nat /\ t <= c - 1
  BY <1>1, <1>3, <1>4, <1>5
<1>7. x = c * p + t
  <2> PICK u, v : u = b * p /\ v = a * s
    OBVIOUS
  <2>1. u \in Nat /\ v \in Nat /\ q = u + s
    BY <1>2
  <2>2. a * q = a * u + v
    <3>1. v = a * s /\ q = u + s /\ u \in Nat /\ s \in Nat
      BY <1>2, <2>1
    <3> QED BY ONLY <3>1, a \in Nat
  <2>3. a * u = c * p
    BY <1>2
  <2>4. a * u \in Nat
    BY <2>1
  <2> QED BY <1>1, <1>3, <2>1, <2>2, <2>3, <2>4
<1>8. Splits(x, c, p, t)
  BY <1>2, <1>3, <1>6, <1>7 DEF Splits
<1>9. x \div c = p
  BY <1>8, DivModIs
<1> QED BY <1>9

-----------------------------------------------------------------------------
(* Orders of a list *)

(* Lists of links. *)
Apart(o) == \A i, j \in 1 .. Len(o) : o[i] = o[j] => i = j

(* o is taken from the list l: l itself or a shuffle of it, once or twice. *)
Drawn(o, l) ==
  /\ IsSeq(o)
  /\ \A i \in 1 .. Len(o) : \E j \in 1 .. Len(l) : o[i] = l[j]
  /\ Len(l) >= 1 => Len(o) >= 1
  /\ Apart(l) => Apart(o)

LEMMA SeqIs ==
  ASSUME NEW o, IsSeq(o)
  PROVE  Len(o) \in Nat /\ DOMAIN o = 1 .. Len(o)
<1>1. PICK S : o \in Seq(S)
  BY DEF IsSeq
<1> QED BY <1>1, LenProperties

LEMMA FunctionIsSeq ==
  ASSUME NEW n \in Nat, NEW S, NEW f \in [1 .. n -> S]
  PROVE  IsSeq(f) /\ Len(f) = n
<1>1. f \in Seq(S)
  BY SeqDef
<1> QED BY <1>1, LenProperties DEF IsSeq

LEMMA DrawnSelf ==
  ASSUME NEW l, IsSeq(l)
  PROVE  Drawn(l, l)
BY DEF Drawn

(* A list drawn from one drawn from a third                                  *)
LEMMA DrawnTwice ==
  ASSUME NEW a, NEW b, NEW c, Drawn(a, b), Drawn(b, c)
  PROVE  Drawn(a, c)
BY DEF Drawn

(* permute_paths: the same links in another order                            *)
LEMMA ShuffleIsDrawn ==
  ASSUME NEW l, IsSeq(l), NEW o \in Shuffles(l)
  PROVE  Drawn(o, l)
<1> DEFINE S == ToSet(l)
           n == Cardinality(S)
           m == Len(l)
<1>1. m \in Nat /\ DOMAIN l = 1 .. m
  BY SeqIs
<1>2. S = {l[i] : i \in 1 .. m}
  BY <1>1 DEF ToSet
<1>3. IsFiniteSet(S) /\ n \in Nat /\ (m >= 1 => n >= 1)
  <2>1. IsFiniteSet(1 .. m) /\ l \in [1 .. m -> S]
    <3>1. IsFiniteSet(1 .. m)
      BY <1>1, FS_Interval
    <3>2. PICK T : l \in Seq(T)
      BY DEF IsSeq
    <3>3. l \in [1 .. m -> T]
      BY <3>2, LenProperties
    <3> QED BY <1>2, <3>1, <3>3
  <2>2. l \in Surjection(1 .. m, S)
    BY <1>2, <2>1 DEF Surjection
  <2>3. IsFiniteSet(S)
    <3> HIDE DEF S, m
    <3> QED BY <2>1, <2>2, FS_Surjection
  <2>4. n \in Nat
    BY <2>3, FS_CardinalityType
  <2>5. m >= 1 => S # {}
    BY <1>1, <1>2
  <2>6. S # {} => n # 0
    <3> HIDE DEF S
    <3> QED BY <2>3, FS_EmptySet
  <2> QED BY <2>3, <2>4, <2>5, <2>6
<1>4. o \in [1 .. n -> S] /\ \A i, j \in 1 .. n : i # j => o[i] # o[j]
  BY DEF Shuffles, SetToSeqs
<1>5. IsSeq(o) /\ Len(o) = n
  <2> HIDE DEF S, n
  <2> QED BY <1>3, <1>4, FunctionIsSeq
<1>6. \A i \in 1 .. n : \E j \in 1 .. m : o[i] = l[j]
  <2> HIDE DEF n, m
  <2> QED BY <1>2, <1>4
<1> HIDE DEF S, n, m
<1>7. Apart(o)
  BY <1>4, <1>5 DEF Apart
<1> QED BY <1>3, <1>5, <1>6, <1>7 DEF Drawn, m

LEMMA SameLink ==
  ASSUME NEW a, NEW b, NEW i, NEW c, NEW d, NEW j, Link(a, b, i) = Link(c, d, j)
  PROVE  a = c /\ b = d /\ i = j
<1>1. /\ Link(a, b, i).from = a /\ Link(a, b, i).to = b /\ Link(a, b, i).bundle = i
      /\ Link(c, d, j).from = c /\ Link(c, d, j).to = d /\ Link(c, d, j).bundle = j
  BY DEF Link
<1> QED BY <1>1

(* What the list of links from a to m nodes over bundles of b leads to, and  *)
(* that its links differ when the nodes do.                                  *)
LinksLead(l, a, nodes, m, b) ==
  /\ IsSeq(l) /\ Len(l) >= 1
  /\ \A i \in 1 .. Len(l) :
       \E k \in 1 .. m, v \in 0 .. b - 1 : l[i] = Link(a, nodes[k], v)
  /\ (\A j, k \in 1 .. m : nodes[j] = nodes[k] => j = k) => Apart(l)

(* The links of a list of nodes over bundles                                 *)
LEMMA LinksAre ==
  ASSUME NEW a, NEW nodes, NEW m \in Nat, Len(nodes) = m, m >= 1,
         NEW b \in Nat, b >= 1, NEW l, l = LinksTo(a, nodes, b)
  PROVE  LinksLead(l, a, nodes, m, b)
<1> DEFINE e(i) == Link(a, nodes[((i - 1) \div b) + 1], (i - 1) % b)
           n == m * b
           S == {e(i) : i \in 1 .. n}
<1>1. n \in Nat /\ n >= 1
  OBVIOUS
<1>2. l = [i \in 1 .. n |-> e(i)]
  BY DEF LinksTo
<1>3. l \in [1 .. n -> S]
  <2> HIDE DEF n, e
  <2> QED BY <1>2
<1>4. IsSeq(l) /\ Len(l) = n
  <2> HIDE DEF n, e, S
  <2> QED BY <1>1, <1>3, FunctionIsSeq
<1>5. ASSUME NEW i \in 1 .. n
      PROVE  /\ i - 1 \in Nat
             /\ ((i - 1) \div b) + 1 \in 1 .. m /\ (i - 1) % b \in 0 .. b - 1
             /\ i - 1 = b * ((i - 1) \div b) + ((i - 1) % b)
  <2> PICK x, z : x = i - 1 /\ z = m * b
    OBVIOUS
  <2>1. x \in Nat /\ x < z
    BY <1>1
  <2>2. x \div b \in Nat /\ x \div b <= m - 1
    BY <2>1, DivLess
  <2>3. x % b \in Nat /\ x % b <= b - 1 /\ x = b * (x \div b) + (x % b)
    BY <2>1, DivMod
  <2> QED BY <2>1, <2>2, <2>3
<1>6. \A i \in 1 .. n : \E k \in 1 .. m, v \in 0 .. b - 1 : l[i] = Link(a, nodes[k], v)
  <2> TAKE i \in 1 .. n
  <2>1. l[i] = Link(a, nodes[((i - 1) \div b) + 1], (i - 1) % b)
    <3> HIDE DEF n
    <3> QED BY <1>2
  <2> QED BY <1>5, <2>1
<1>7. ASSUME \A j, k \in 1 .. m : nodes[j] = nodes[k] => j = k
      PROVE  Apart(l)
  <2> SUFFICES ASSUME NEW i \in 1 .. n, NEW j \in 1 .. n, l[i] = l[j] PROVE i = j
    <3> HIDE DEF n
    <3> QED BY <1>4 DEF Apart
  <2> PICK x, y : x = i - 1 /\ y = j - 1
    OBVIOUS
  <2>1. l[i] = Link(a, nodes[(x \div b) + 1], x % b)
        /\ l[j] = Link(a, nodes[(y \div b) + 1], y % b)
    <3> HIDE DEF n
    <3> QED BY <1>2
  <2>2. nodes[(x \div b) + 1] = nodes[(y \div b) + 1] /\ x % b = y % b
    <3> PICK c, d, v, w : /\ c = nodes[(x \div b) + 1] /\ d = nodes[(y \div b) + 1]
                         /\ v = x % b /\ w = y % b
      OBVIOUS
    <3>1. Link(a, c, v) = Link(a, d, w)
      BY <2>1
    <3>2. c = d /\ v = w
      BY <3>1, SameLink
    <3> QED BY <3>2
  <2>3. x \div b = y \div b
    <3>1. (x \div b) + 1 \in 1 .. m /\ (y \div b) + 1 \in 1 .. m
      BY <1>5
    <3>2. (x \div b) + 1 = (y \div b) + 1
      BY <1>7, <2>2, <3>1
    <3>3. x \div b \in Int /\ y \div b \in Int
      BY <1>5
    <3> QED BY <3>2, <3>3
  <2>4. x = b * (x \div b) + (x % b) /\ y = b * (y \div b) + (y % b)
    BY <1>5
  <2>5. x = y
    BY <2>2, <2>3, <2>4
  <2> QED BY <1>1, <2>5
<1> HIDE DEF n, e, S
<1> QED BY <1>1, <1>4, <1>6, <1>7 DEF LinksLead

-----------------------------------------------------------------------------
(* Tables *)

(* The name under which a switch enters a destination. *)
Name(s, d) == IF NextHops(s, d).shared THEN UP ELSE d

(* The hops of a switch are a list of links that is not empty; a ToR keeps   *)
(* one for all destinations, and no link is in it twice.                     *)
Usable(s, d) ==
  /\ IsSeq(NextHops(s, d).links)
  /\ Len(NextHops(s, d).links) >= 1
  /\ s[1] = "TOR" => NextHops(s, d).shared /\ Apart(NextHops(s, d).links)

(* The table and the lists of the switch s *)
TableIsRight(s, r) ==
  /\ IsSwitch(r) /\ r.crt \in Nat
  /\ \A d \in DOMAIN r.table : r.table[d] = Name(s, d) /\ Name(s, d) \in DOMAIN r.lists
  /\ \A n \in DOMAIN r.lists :
       \E d \in HostsOf(topo) :
         n = Name(s, d) /\ Usable(s, d) /\ Drawn(r.lists[n], NextHops(s, d).links)

(* A link of the list for d: one towards a destination with the same name *)
Leads(s, d, link) ==
  \E e \in HostsOf(topo) :
    /\ Name(s, e) = Name(s, d)
    /\ \E j \in 1 .. Len(NextHops(s, e).links) : link = NextHops(s, e).links[j]

(* A switch starts with an empty table.                                      *)
LEMMA NewTableIsRight == \A s : TableIsRight(s, NewSwitch)
BY DEF TableIsRight, NewSwitch, IsSwitch

(* A lookup enters the destination and leaves the rest of the table.         *)
LEMMA FilledIsRight ==
  ASSUME NEW s, NEW o, TableIsRight(s, o), NEW d \in HostsOf(topo), Usable(s, d),
         NEW r \in Filled(o, s, d)
  PROVE  /\ TableIsRight(s, r) /\ d \in DOMAIN r.table /\ r.crt = o.crt /\ r.uses = o.uses
         /\ \A n \in DOMAIN o.lists : n \in DOMAIN r.lists /\ r.lists[n] = o.lists[n]
         /\ \A n \in DOMAIN r.lists : n \in DOMAIN o.lists \/ n = Name(s, d)
<1> PICK name : name = Name(s, d)
  OBVIOUS
<1> PICK h : h = NextHops(s, d)
  OBVIOUS
<1>0. IsSwitch(o)
  BY DEF TableIsRight
<1>1. /\ IsSwitch(r)
      /\ r.crt = o.crt /\ r.uses = o.uses
      /\ \/ d \in DOMAIN o.table /\ r = o
         \/ /\ d \notin DOMAIN o.table
            /\ r.table = SetAt(o.table, d, name)
            /\ \E l : /\ r.lists = SetAt(o.lists, name, l)
                      /\ \/ name \in DOMAIN o.lists /\ l = o.lists[name]
                         \/ /\ name \notin DOMAIN o.lists
                            /\ l \in IF h.shuffled THEN Shuffles(h.links) ELSE {h.links}
  <2>1. name = IF NextHops(s, d).shared THEN UP ELSE d
    BY DEF Name
  <2> QED BY <1>0, <2>1, FilledIs
<1>2. CASE d \in DOMAIN o.table /\ r = o
  BY <1>2
<1>3. CASE d \notin DOMAIN o.table
  <2>1. PICK l : /\ r.lists = SetAt(o.lists, name, l)
                 /\ \/ name \in DOMAIN o.lists /\ l = o.lists[name]
                    \/ /\ name \notin DOMAIN o.lists
                       /\ l \in IF h.shuffled THEN Shuffles(h.links) ELSE {h.links}
    BY <1>1, <1>3
  <2>2. r.table = SetAt(o.table, d, name)
    BY <1>1, <1>3
  <2>3. /\ DOMAIN r.table = DOMAIN o.table \cup {d} /\ r.table[d] = name
        /\ \A e \in DOMAIN o.table : r.table[e] = o.table[e]
    BY <1>3, <2>2 DEF SetAt
  <2>4. DOMAIN r.lists = DOMAIN o.lists \cup {name} /\ r.lists[name] = l
        /\ \A n \in DOMAIN o.lists : r.lists[n] = o.lists[n]
    BY <2>1 DEF SetAt
  <2>5. name \notin DOMAIN o.lists => Drawn(l, h.links)
    <3>1. IsSeq(h.links)
      BY DEF Usable
    <3> QED BY <2>1, <3>1, DrawnSelf, ShuffleIsDrawn
  <2>6. \A e \in DOMAIN r.table : r.table[e] = Name(s, e) /\ Name(s, e) \in DOMAIN r.lists
    BY <2>3, <2>4 DEF TableIsRight
  <2>7. \A n \in DOMAIN r.lists :
          \E e \in HostsOf(topo) :
            n = Name(s, e) /\ Usable(s, e) /\ Drawn(r.lists[n], NextHops(s, e).links)
    BY <2>4, <2>5 DEF TableIsRight
  <2>8. r.crt \in Nat
    BY <1>1 DEF TableIsRight
  <2> QED BY <1>1, <2>3, <2>4, <2>6, <2>7, <2>8 DEF TableIsRight
<1> QED BY <1>1, <1>2, <1>3

(* The list for a destination that has been entered. *)
LEMMA ListIs ==
  ASSUME NEW s, NEW r, TableIsRight(s, r), NEW d \in DOMAIN r.table
  PROVE  /\ List(r, d) = r.lists[Name(s, d)] /\ Name(s, d) \in DOMAIN r.lists
         /\ IsSeq(List(r, d)) /\ Len(List(r, d)) \in Nat /\ Len(List(r, d)) >= 1
         /\ \A i \in 1 .. Len(List(r, d)) : Leads(s, d, List(r, d)[i])
<1>1. r.table[d] = Name(s, d) /\ Name(s, d) \in DOMAIN r.lists
  BY DEF TableIsRight
<1>2. List(r, d) = r.lists[Name(s, d)]
  BY <1>1 DEF List
<1>3. PICK e \in HostsOf(topo) : /\ Name(s, d) = Name(s, e) /\ Usable(s, e)
                                 /\ Drawn(List(r, d), NextHops(s, e).links)
  BY <1>1, <1>2 DEF TableIsRight
<1>4. /\ IsSeq(List(r, d)) /\ Len(List(r, d)) >= 1
      /\ \A i \in 1 .. Len(List(r, d)) :
           \E j \in 1 .. Len(NextHops(s, e).links) : List(r, d)[i] = NextHops(s, e).links[j]
  BY <1>3 DEF Usable, Drawn
<1>5. Len(List(r, d)) \in Nat
  BY <1>4, SeqIs
<1>6. \A i \in 1 .. Len(List(r, d)) : Leads(s, d, List(r, d)[i])
  BY <1>3, <1>4 DEF Leads
<1> QED BY <1>1, <1>2, <1>4, <1>5, <1>6

(* A shuffle changes the order of a list only.                               *)
LEMMA RewoundIsRight ==
  ASSUME NEW s, NEW r, TableIsRight(s, r), NEW d \in DOMAIN r.table, NEW q \in Rewound(r, d)
  PROVE  TableIsRight(s, q) /\ d \in DOMAIN q.table
<1>1. IsSwitch(r) /\ r.table[d] = Name(s, d)
  BY DEF TableIsRight
<1>2. /\ IsSwitch(q) /\ q.table = r.table
      /\ DOMAIN q.lists = DOMAIN r.lists
      /\ \/ q = r
         \/ /\ q.crt = 0
            /\ \E o \in Shuffles(List(r, d)) : q.lists = [r.lists EXCEPT ![r.table[d]] = o]
  BY <1>1, RewoundIs
<1>3. CASE q = r
  BY <1>3
<1>4. CASE q # r
  <2>1. PICK o \in Shuffles(List(r, d)) : q.lists = [r.lists EXCEPT ![Name(s, d)] = o]
    BY <1>1, <1>2, <1>4
  <2>2. Drawn(o, List(r, d)) /\ List(r, d) = r.lists[Name(s, d)] /\ Name(s, d) \in DOMAIN r.lists
    BY ListIs, ShuffleIsDrawn
  <2>3. \A n \in DOMAIN r.lists : n # Name(s, d) => q.lists[n] = r.lists[n]
    BY <2>1
  <2>4. q.lists[Name(s, d)] = o
    BY <2>1, <2>2
  <2>5. \A n \in DOMAIN q.lists :
          \E e \in HostsOf(topo) :
            n = Name(s, e) /\ Usable(s, e) /\ Drawn(q.lists[n], NextHops(s, e).links)
    <3> TAKE n \in DOMAIN q.lists
    <3>1. PICK e \in HostsOf(topo) :
            n = Name(s, e) /\ Usable(s, e) /\ Drawn(r.lists[n], NextHops(s, e).links)
      BY <1>2 DEF TableIsRight
    <3>2. Drawn(q.lists[n], NextHops(s, e).links)
      BY <1>2, <2>2, <2>3, <2>4, <3>1, DrawnTwice
    <3> QED BY <3>1, <3>2
  <2> QED BY <1>2, <1>4, <2>5 DEF TableIsRight
<1> QED BY <1>3, <1>4

(* A turn takes the next link of the list.                                   *)
LEMMA TurnIs ==
  ASSUME NEW s, NEW q, TableIsRight(s, q), NEW d \in DOMAIN q.table,
         NEW t, t = TakeTurn(q, d).switch, NEW link, link = TakeTurn(q, d).link,
         NEW l, l = List(q, d)
  PROVE  /\ TableIsRight(s, t) /\ t.lists = q.lists /\ t.crt = q.crt + 1
         /\ t.uses = Count(q.uses, l, link)
         /\ link = l[(q.crt % Len(l)) + 1] /\ (q.crt % Len(l)) + 1 \in 1 .. Len(l)
         /\ Leads(s, d, link)
<1>1. IsSwitch(q) /\ q.crt \in Nat
  BY DEF TableIsRight
<1>2. Len(l) \in Nat /\ Len(l) >= 1 /\ \A i \in 1 .. Len(l) : Leads(s, d, l[i])
  BY ListIs
<1>3. (q.crt % Len(l)) + 1 \in 1 .. Len(l)
  <2>1. q.crt % Len(l) \in Nat /\ q.crt % Len(l) <= Len(l) - 1
    BY <1>1, <1>2, DivMod
  <2> QED BY <1>2, <2>1
<1>4. link = l[(q.crt % Len(l)) + 1]
  BY DEF TakeTurn
<1>5. t = [q EXCEPT !.crt = @ + 1, !.uses = Count(@, l, link)]
  BY DEF TakeTurn
<1>6. q = [table |-> q.table, lists |-> q.lists, crt |-> q.crt, uses |-> q.uses]
  BY <1>1 DEF IsSwitch
<1>7. t = [table |-> q.table, lists |-> q.lists, crt |-> q.crt + 1,
           uses |-> Count(q.uses, l, link)]
  BY <1>5, <1>6
<1>8. t.table = q.table /\ t.lists = q.lists /\ t.crt = q.crt + 1
      /\ t.uses = Count(q.uses, l, link) /\ IsSwitch(t) /\ t.crt \in Nat
  BY <1>1, <1>7 DEF IsSwitch
<1>9. TableIsRight(s, t)
  BY <1>8 DEF TableIsRight
<1> QED BY <1>2, <1>3, <1>4, <1>8, <1>9

-----------------------------------------------------------------------------
(* Round robin *)

(* How often round robin has used a link, less what all of the list have had *)
Used(uses, l) == IF l \in DOMAIN uses THEN uses[l] ELSE 0

(* The first j links of the list o are one ahead of the others. *)
Ahead(uses, o, j) ==
  \A l : Used(uses, l) = IF \E i \in 1 .. j : o[i] = l THEN 1 ELSE 0

(* The state of round robin at a ToR. *)
Even(r) ==
  IF UP \in DOMAIN r.lists
  THEN LET o == r.lists[UP]
           n == Len(o)
       IN  /\ IsSeq(o) /\ n >= 1 /\ Apart(o)
           /\ r.crt <= Rounds * n
           /\ Ahead(r.uses, o, r.crt % n)
  ELSE r.uses = <<>> /\ r.crt = 0

(* Counts that are zero or one are never two apart.                          *)
LEMMA EvenIsBalanced ==
  ASSUME NEW r, Even(r)
  PROVE  \A a, b \in DOMAIN r.uses : r.uses[a] <= r.uses[b] + 1
<1>1. CASE UP \in DOMAIN r.lists
  <2>1. \A l \in DOMAIN r.uses : r.uses[l] \in {0, 1}
    BY <1>1 DEF Even, Ahead, Used
  <2> QED BY <2>1
<1>2. CASE UP \notin DOMAIN r.lists
  BY <1>2 DEF Even
<1> QED BY <1>1, <1>2

(* One more packet over the next link of the list *)
LEMMA CountKeepsAhead ==
  ASSUME NEW uses, NEW o, IsSeq(o), Apart(o), NEW n, n = Len(o),
         NEW j \in Nat, j <= n - 1, Ahead(uses, o, j), NEW link, link = o[j + 1]
  PROVE  Ahead(Count(uses, o, link), o, IF j = n - 1 THEN 0 ELSE j + 1)
<1> DEFINE S == ToSet(o)
           all == [l \in S |-> Used(uses, l) + (IF l = link THEN 1 ELSE 0)]
           V == {all[l] : l \in DOMAIN all}
           least == CHOOSE m \in V : \A l \in DOMAIN all : m <= all[l]
           low == IF j = n - 1 THEN 1 ELSE 0
           res == [l \in DOMAIN uses \cup DOMAIN all |->
                     IF l \in DOMAIN all THEN all[l] - least ELSE uses[l]]
<1>1. Count(uses, o, link) = res
  BY DEF Count, Used
<1>2. n \in Nat /\ DOMAIN o = 1 .. n /\ n >= 1
  BY SeqIs
<1>3. S = {o[i] : i \in 1 .. n} /\ DOMAIN all = S
  BY <1>2 DEF ToSet
<1>4. ASSUME NEW i \in 1 .. n
      PROVE  Used(uses, o[i]) = IF i <= j THEN 1 ELSE 0
  <2>1. (\E k \in 1 .. j : o[k] = o[i]) <=> i <= j
    <3>1. \A k \in 1 .. j : k \in 1 .. n
      BY <1>2
    <3>2. ASSUME NEW k \in 1 .. j, o[k] = o[i] PROVE i <= j
      BY <1>2, <3>1, <3>2 DEF Apart
    <3>3. i <= j => i \in 1 .. j
      OBVIOUS
    <3> QED BY <3>2, <3>3
  <2> QED BY <2>1 DEF Ahead
<1>5. ASSUME NEW i \in 1 .. n
      PROVE  all[o[i]] = IF i <= j + 1 THEN 1 ELSE 0
  <2>1. o[i] \in S /\ j + 1 \in 1 .. n
    BY <1>2, <1>3
  <2>2. o[i] = link <=> i = j + 1
    BY <1>2, <2>1 DEF Apart
  <2>3. all[o[i]] = Used(uses, o[i]) + (IF o[i] = link THEN 1 ELSE 0)
    BY <2>1
  <2> HIDE DEF all, S
  <2> QED BY <1>4, <2>2, <2>3
<1> HIDE DEF all, S
<1>6. V = {all[o[i]] : i \in 1 .. n}
  BY <1>3
<1>7. least = low
  <2>1. low \in V /\ \A l \in DOMAIN all : low <= all[l]
    <3>1. n \in 1 .. n /\ all[o[n]] = low
      BY <1>2, <1>5
    <3>2. \A i \in 1 .. n : low <= all[o[i]]
      BY <1>2, <1>5
    <3> HIDE DEF low, V
    <3>3. low \in V
      BY <1>6, <3>1
    <3>4. ASSUME NEW l \in S PROVE low <= all[l]
      <4> HIDE DEF S
      <4>1. l \in {o[i] : i \in 1 .. n}
        BY <1>3
      <4>2. PICK i \in 1 .. n : l = o[i]
        BY <4>1
      <4>3. low <= all[o[i]]
        BY <3>2
      <4> QED BY <4>2, <4>3
    <3> QED BY <1>3, <3>3, <3>4
  <2>2. ASSUME NEW m \in V PROVE m \in Nat
    <3> HIDE DEF V
    <3>1. m \in {all[o[i]] : i \in 1 .. n}
      BY <1>6
    <3>2. PICK i \in 1 .. n : m = all[o[i]]
      BY <3>1
    <3>3. all[o[i]] = IF i <= j + 1 THEN 1 ELSE 0
      BY <1>5
    <3> QED BY <3>2, <3>3
  <2>3. \A m \in V : (\A l \in DOMAIN all : m <= all[l]) => m = low
    <3> TAKE m \in V
    <3> HAVE \A l \in DOMAIN all : m <= all[l]
    <3>1. low <= m
      BY <2>1
    <3>2. m <= low
      <4>1. \E l \in DOMAIN all : low = all[l]
        BY <2>1
      <4> HIDE DEF V, low
      <4> QED BY <4>1
    <3>3. m \in Nat /\ low \in Nat
      BY <2>2
    <3> HIDE DEF V, low
    <3> QED BY <3>1, <3>2, <3>3
  <2> HIDE DEF V, low
  <2> QED BY <2>1, <2>3
<1> HIDE DEF V, least
<1>8. ASSUME NEW l
      PROVE  Used(res, l) = IF l \in S THEN all[l] - low ELSE Used(uses, l)
  <2>1. CASE l \in S
    BY <1>3, <1>7, <2>1 DEF Used
  <2>2. CASE l \notin S
    BY <1>3, <2>2 DEF Used
  <2> QED BY <2>1, <2>2
<1> PICK k : k = IF j = n - 1 THEN 0 ELSE j + 1
  OBVIOUS
<1> HIDE DEF res
<1>9. ASSUME NEW l
      PROVE  Used(res, l) = IF \E i \in 1 .. k : o[i] = l THEN 1 ELSE 0
  <2>1. CASE l \in S
    <3>1. PICK i \in 1 .. n : l = o[i]
      BY <1>3, <2>1
    <3>2. Used(res, l) = all[o[i]] - low
      BY <1>8, <2>1, <3>1
    <3>3. (\E m \in 1 .. k : o[m] = l) <=> i <= k
      <4>1. \A m \in 1 .. k : m \in 1 .. n
        BY <1>2
      <4>2. ASSUME NEW m \in 1 .. k, o[m] = l PROVE i <= k
        BY <1>2, <3>1, <4>1, <4>2 DEF Apart
      <4>3. i <= k => i \in 1 .. k
        BY <1>2
      <4> QED BY <3>1, <4>2, <4>3
    <3>4. all[o[i]] - low = IF i <= k THEN 1 ELSE 0
      BY <1>2, <1>5
    <3> QED BY <3>2, <3>3, <3>4
  <2>2. CASE l \notin S
    <3>1. \A m \in 1 .. n : o[m] # l
      BY <1>3, <2>2
    <3>2. \A m \in 1 .. k : m \in 1 .. n
      BY <1>2
    <3>3. \A m \in 1 .. j : m \in 1 .. n
      BY <1>2
    <3>4. Used(uses, l) = 0
      BY <3>1, <3>3 DEF Ahead
    <3> QED BY <1>8, <2>2, <3>1, <3>2, <3>4
  <2> QED BY <2>1, <2>2
<1> QED BY <1>1, <1>9 DEF Ahead

LEMMA RoundsIs == Rounds \in Nat /\ Rounds >= 1
BY DEF Rounds

(* A ToR has one list for all destinations.                                  *)
LEMMA TorName ==
  ASSUME NEW s, s[1] = "TOR", NEW d, Usable(s, d)
  PROVE  Name(s, d) = UP
BY DEF Usable, Name

(* The list for a destination at a ToR that was looked up is the shared one. *)
LEMMA TorList ==
  ASSUME NEW s, s[1] = "TOR", NEW r, TableIsRight(s, r), UP \in DOMAIN r.lists
  PROVE  /\ IsSeq(r.lists[UP]) /\ Len(r.lists[UP]) \in Nat /\ Len(r.lists[UP]) >= 1
         /\ Apart(r.lists[UP])
<1>1. PICK d \in HostsOf(topo) : Usable(s, d) /\ Drawn(r.lists[UP], NextHops(s, d).links)
  BY DEF TableIsRight
<1>2. IsSeq(r.lists[UP]) /\ Len(r.lists[UP]) >= 1 /\ Apart(r.lists[UP])
  BY <1>1 DEF Usable, Drawn
<1> QED BY <1>2, SeqIs

(* Neither a lookup, nor a shuffle at the end of the rounds, nor a turn puts a *)
(* link two ahead.                                                           *)
LEMMA FilledStaysEven ==
  ASSUME NEW s, s[1] = "TOR", NEW o, TableIsRight(s, o), Even(o),
         NEW d \in HostsOf(topo), Usable(s, d), NEW r \in Filled(o, s, d)
  PROVE  Even(r)
<1>1. /\ TableIsRight(s, r) /\ r.crt = o.crt /\ r.uses = o.uses
      /\ \A n \in DOMAIN o.lists : n \in DOMAIN r.lists /\ r.lists[n] = o.lists[n]
  BY FilledIsRight
<1>2. CASE UP \in DOMAIN o.lists
  BY <1>1, <1>2 DEF Even
<1>3. CASE UP \notin DOMAIN o.lists /\ UP \in DOMAIN r.lists
  <2> PICK l, n : l = r.lists[UP] /\ n = Len(l)
    OBVIOUS
  <2>1. IsSeq(l) /\ n \in Nat /\ n >= 1 /\ Apart(l)
    BY <1>1, <1>3, TorList
  <2>2. r.uses = <<>> /\ r.crt = 0
    BY <1>1, <1>3 DEF Even
  <2>3. 0 % n = 0 /\ 0 <= Rounds * n
    <3>1. 0 = 0 * n
      BY <2>1
    <3>2. 0 % n = 0
      BY <2>1, <3>1, ModOfMultiple
    <3>3. 0 <= Rounds * n
      <4> PICK c : c = Rounds
        OBVIOUS
      <4>1. c \in Nat /\ c >= 1
        BY RoundsIs
      <4>2. n \in Nat /\ n >= 1
        BY <2>1
      <4>3. c * n \in Nat /\ 0 <= c * n
        BY ONLY <4>1, <4>2
      <4> QED BY <4>3
    <3> QED BY <3>2, <3>3
  <2>4. Ahead(<<>>, l, 0)
    <3>1. DOMAIN <<>> = {}
      OBVIOUS
    <3>2. \A x : Used(<<>>, x) = 0
      BY <3>1 DEF Used
    <3>3. \A i \in 1 .. 0 : FALSE
      OBVIOUS
    <3> QED BY <3>2, <3>3 DEF Ahead
  <2> QED BY <1>3, <2>1, <2>2, <2>3, <2>4 DEF Even
<1>4. CASE UP \notin DOMAIN o.lists /\ UP \notin DOMAIN r.lists
  BY <1>1, <1>4 DEF Even
<1> QED BY <1>2, <1>3, <1>4

LEMMA RewoundStaysEven ==
  ASSUME NEW s, s[1] = "TOR", NEW r, TableIsRight(s, r), Even(r),
         NEW d \in DOMAIN r.table, Name(s, d) = UP, NEW q \in Rewound(r, d)
  PROVE  /\ Even(q) /\ UP \in DOMAIN q.lists /\ List(q, d) = q.lists[UP]
         /\ q.crt + 1 <= Rounds * Len(q.lists[UP])
<1>1. /\ IsSwitch(r) /\ r.table[d] = UP /\ UP \in DOMAIN r.lists /\ List(r, d) = r.lists[UP]
      /\ r.crt \in Nat
  BY ListIs DEF TableIsRight
<1>2. TableIsRight(s, q) /\ d \in DOMAIN q.table
  BY RewoundIsRight
<1>3. UP \in DOMAIN q.lists /\ List(q, d) = q.lists[UP]
  BY <1>2, ListIs
<1>4. /\ q.uses = r.uses
      /\ \/ q = r /\ r.crt < Rounds * Len(List(r, d))
         \/ /\ ~ (r.crt < Rounds * Len(List(r, d))) /\ q.crt = 0
  BY <1>1, RewoundIs
<1> PICK l, n, m, k : l = r.lists[UP] /\ n = Len(l) /\ m = Len(q.lists[UP]) /\ k = Rounds * n
  OBVIOUS
<1>5. n \in Nat /\ n >= 1 /\ k \in Nat
  BY <1>1, TorList, RoundsIs
<1>6. /\ IsSeq(q.lists[UP]) /\ m \in Nat /\ m >= 1 /\ Apart(q.lists[UP])
  BY <1>2, <1>3, TorList
<1>7. r.crt <= k /\ Ahead(r.uses, l, r.crt % n)
  BY <1>1 DEF Even
<1>8. CASE q = r /\ r.crt < k
  BY <1>1, <1>3, <1>5, <1>8
<1>9. CASE ~ (r.crt < k) /\ q.crt = 0
  <2>1. r.crt = k
    BY <1>1, <1>5, <1>7, <1>9
  <2>2. r.crt % n = 0
    BY <1>5, <2>1, ModOfMultiple, RoundsIs
  <2>3. Ahead(q.uses, q.lists[UP], 0)
    <3>1. Ahead(r.uses, l, 0)
      BY <1>7, <2>2
    <3>2. \A i \in 1 .. 0 : FALSE
      OBVIOUS
    <3> QED BY <1>4, <3>1, <3>2 DEF Ahead
  <2>4. 0 % m = 0
    <3>1. 0 = 0 * m
      BY <1>6
    <3> QED BY <1>6, <3>1, ModOfMultiple
  <2>5. Rounds * m \in Nat /\ 1 <= Rounds * m
    <3> PICK c : c = Rounds
      OBVIOUS
    <3>1. c \in Nat /\ c >= 1
      BY RoundsIs
    <3>2. m \in Nat /\ m >= 1
      BY <1>6
    <3>3. c * m \in Nat /\ 1 <= c * m
      BY ONLY <3>1, <3>2
    <3> QED BY <3>3
  <2>6. Even(q)
    <3>1. 0 <= Rounds * m
      BY <2>5
    <3> QED BY <1>3, <1>6, <1>9, <2>3, <2>4, <3>1 DEF Even
  <2> QED BY <1>3, <1>9, <2>5, <2>6
<1> QED BY <1>1, <1>4, <1>8, <1>9

LEMMA TurnStaysEven ==
  ASSUME NEW s, s[1] = "TOR", NEW r, TableIsRight(s, r), Even(r),
         NEW d \in DOMAIN r.table, Name(s, d) = UP, NEW q \in Rewound(r, d),
         NEW t, t = TakeTurn(q, d).switch
  PROVE  Even(t)
<1> PICK l, n, j, link : l = List(q, d) /\ n = Len(l) /\ j = q.crt % n
                         /\ link = TakeTurn(q, d).link
  OBVIOUS
<1>1. /\ Even(q) /\ UP \in DOMAIN q.lists /\ l = q.lists[UP] /\ q.crt + 1 <= Rounds * n
  BY RewoundStaysEven
<1>2. TableIsRight(s, q) /\ d \in DOMAIN q.table
  BY RewoundIsRight
<1>3. /\ t.lists = q.lists /\ t.crt = q.crt + 1 /\ t.uses = Count(q.uses, l, link)
      /\ link = l[j + 1]
  BY <1>2, TurnIs
<1>4. IsSeq(l) /\ n \in Nat /\ n >= 1 /\ Apart(l) /\ q.crt \in Nat
  BY <1>1, <1>2, TorList DEF TableIsRight
<1>5. j \in Nat /\ j <= n - 1
  BY <1>4, DivMod
<1>6. Ahead(q.uses, l, j)
  BY <1>1 DEF Even
<1>7. Ahead(t.uses, l, IF j = n - 1 THEN 0 ELSE j + 1)
  <2> PICK uses : uses = q.uses
    OBVIOUS
  <2>1. Ahead(uses, l, j) /\ link = l[j + 1]
    BY <1>3, <1>6
  <2>2. Ahead(Count(uses, l, link), l, IF j = n - 1 THEN 0 ELSE j + 1)
    BY <1>4, <1>5, <2>1, CountKeepsAhead
  <2> QED BY <1>3, <2>2
<1>8. t.crt % n = IF j = n - 1 THEN 0 ELSE j + 1
  BY <1>3, <1>4, ModSucc
<1> QED BY <1>1, <1>3, <1>4, <1>7, <1>8 DEF Even

-----------------------------------------------------------------------------
(* The numbers of a tree *)

Positive(x) == x \in Nat /\ x >= 1

(* What the tests of the constructors leave of the trees. *)
Sound(t) ==
  /\ t.tiers \in {2, 3}
  /\ Positive(t.nodes) /\ Positive(t.tors) /\ Positive(t.aggs) /\ Positive(t.down[1])
  /\ Positive(t.torsPerPod) /\ Positive(t.aggsPerPod) /\ Positive(t.hostsPerPod)
  /\ Positive(t.bundle[2])
  /\ t.nodes = t.tors * t.down[1]
  /\ t.tiers = 3 =>
       /\ Positive(t.pods) /\ Positive(t.bundle[3]) /\ Positive(t.up[2] \div t.bundle[3])
       /\ t.hostsPerPod = t.down[1] * t.torsPerPod
       /\ t.nodes = t.pods * t.hostsPerPod
       /\ t.tors = t.pods * t.torsPerPod
       /\ t.aggs = t.pods * t.aggsPerPod

(* n is q times m when the remainder is none. *)
LEMMA NoRemainder ==
  ASSUME NEW n, NEW m, Positive(n), Positive(m), n % m = 0, NEW q, q = n \div m
  PROVE  Positive(q) /\ n = m * q
<1>1. q \in Nat /\ n = m * q + (n % m)
  BY DivMod DEF Positive
<1>2. n = m * q
  <2>1. m * q \in Nat
    BY <1>1 DEF Positive
  <2> QED BY <1>1, <2>1
<1>3. q # 0
  <2> SUFFICES ASSUME q = 0 PROVE FALSE
    OBVIOUS
  <2>1. n = 0
    BY <1>2 DEF Positive
  <2> QED BY <2>1 DEF Positive
<1> QED BY <1>1, <1>2, <1>3 DEF Positive

LEMMA Product ==
  ASSUME NEW a, NEW b, Positive(a), Positive(b), NEW c, c = a * b
  PROVE  Positive(c)
BY DEF Positive

(* set_params: the numbers of a tree of one radix fit.                       *)
LEMMA DefaultIsSound ==
  ASSUME NEW t, IsPositive(t), DefaultBuilt(t)
  PROVE  Sound(t)
<1> PICK half \in 1 .. t.nodes : DefaultRadix(t.tiers, t.nodes) = 2 * half
  BY DEF DefaultBuilt
<1> PICK k, n : k = 2 * half /\ n = t.nodes
  OBVIOUS
<1>1. half \in Nat /\ half >= 1 /\ n \in Nat /\ n >= 1 /\ t.tiers \in {2, 3}
  BY DEF IsPositive
<1>2. k = DefaultRadix(t.tiers, n) /\ DefaultNodes(t.tiers, k) = n
  BY DEF DefaultBuilt, DefaultAccepted
<1>3. k \div 2 = half
  <2>1. Splits(k, 2, half, 0)
    BY <1>1 DEF Splits
  <2> QED BY <2>1, DivModIs
<1> PICK sq : sq = half * half
  OBVIOUS
<1>4. sq \in Nat /\ sq >= 1 /\ k * k = 4 * sq
  BY <1>1
<1>5. (k * k) \div 2 = 2 * sq
  <2> PICK x : x = k * k
    OBVIOUS
  <2>1. Splits(x, 2, 2 * sq, 0)
    BY <1>4 DEF Splits
  <2> QED BY <2>1, DivModIs
<1>6. t = DefaultTree(t.tiers, n)
  BY DEF DefaultBuilt
<1>7. CASE t.tiers = 2
  <2>1. n = 2 * sq
    BY <1>2, <1>5, <1>7 DEF DefaultNodes
  <2>2. /\ t.tors = k /\ t.aggs = half /\ t.hostsPerPod = n \div 1
        /\ t.torsPerPod = half /\ t.aggsPerPod = half
        /\ t.down[1] = half /\ t.up[2] = half /\ t.bundle[2] = 1 /\ t.bundle[3] = 1
    BY <1>2, <1>3, <1>6, <1>7 DEF DefaultTree
  <2>3. n \div 1 = n /\ half \div 1 = half
    <3>1. Splits(n, 1, n, 0) /\ Splits(half, 1, half, 0)
      BY <1>1 DEF Splits
    <3> QED BY <3>1, DivModIs
  <2>4. n = k * half
    <3>1. k * half = 2 * sq
      BY <1>1
    <3> QED BY <2>1, <3>1
  <2> QED BY <1>1, <1>7, <2>2, <2>3, <2>4 DEF Sound, Positive
<1>8. CASE t.tiers = 3
  <2> PICK cube : cube = k * k * k
    OBVIOUS
  <2>1. cube \div 4 = n
    BY <1>2, <1>8 DEF DefaultNodes
  <2> PICK w : w = k * sq
    OBVIOUS
  <2>2. w \in Nat /\ w >= 1 /\ cube = 4 * w
    BY <1>1, <1>4
  <2>3. cube \div 4 = w
    <3>1. Splits(cube, 4, w, 0)
      BY <2>2 DEF Splits
    <3> QED BY <3>1, DivModIs
  <2>4. n \div k = sq
    <3>1. Splits(n, k, sq, 0)
      <4>1. n = k * sq
        BY <2>1, <2>3
      <4> QED BY <1>1, <1>4, <4>1 DEF Splits
    <3> QED BY <3>1, DivModIs
  <2>5. /\ t.tors = (k * k) \div 2 /\ t.aggs = (k * k) \div 2 /\ t.pods = k
        /\ t.hostsPerPod = n \div k
        /\ t.torsPerPod = k \div 2 /\ t.aggsPerPod = k \div 2
        /\ t.down[1] = k \div 2 /\ t.up[2] = k \div 2 /\ t.bundle[2] = 1 /\ t.bundle[3] = 1
    BY <1>2, <1>6, <1>8 DEF DefaultTree
  <2>6. half \div 1 = half
    <3>1. Splits(half, 1, half, 0)
      BY <1>1 DEF Splits
    <3> QED BY <3>1, DivModIs
  <2>7. /\ t.tors = 2 * sq /\ t.aggs = 2 * sq /\ t.pods = k /\ t.hostsPerPod = sq
        /\ t.torsPerPod = half /\ t.aggsPerPod = half
        /\ t.down[1] = half /\ t.up[2] = half /\ t.bundle[2] = 1 /\ t.bundle[3] = 1
    BY <1>3, <1>5, <2>4, <2>5
  <2>8. 2 * sq = k * half
    BY <1>1
  <2>9. n = k * sq
    BY <2>1, <2>3
  <2>10. k * sq = (2 * sq) * half
    BY <1>1, <1>4
  <2>11. k \in Nat /\ k >= 1
    BY <1>1
  <2> QED BY <1>1, <1>4, <1>8, <2>6, <2>7, <2>8, <2>9, <2>10, <2>11 DEF Sound, Positive
<1> QED BY <1>1, <1>7, <1>8

(* set_custom_params: the numbers of a tree that passes its tests fit.       *)
LEMMA CustomIsSound ==
  ASSUME NEW t, IsPositive(t), CustomBuilt(t)
  PROVE  Sound(t)
<1> PICK o, s : o = t.oversub /\ s = t.speed
  OBVIOUS
<1> PICK c : c = [tiers |-> t.tiers, nodes |-> t.nodes, hostsPerPod |-> t.hostsPerPod,
                  down |-> t.down, up |-> t.up, bundle |-> t.bundle,
                  oversub |-> o, speed |-> s]
  OBVIOUS
<1>1. /\ c.tiers = t.tiers /\ c.nodes = t.nodes /\ c.hostsPerPod = t.hostsPerPod
      /\ c.down = t.down /\ c.up = t.up /\ c.bundle = t.bundle
      /\ c.oversub = o /\ c.speed = s
  OBVIOUS
<1>2. CustomAccepted(c) /\ t = CustomTree(c)
  BY DEF CustomBuilt
<1>3. Tier0Accepted(c) /\ Tier1Accepted(c)
  BY <1>2 DEF CustomAccepted
<1>4. /\ t.tiers \in {2, 3}
      /\ Positive(t.nodes) /\ Positive(t.hostsPerPod) /\ Positive(t.down[1])
      /\ Positive(t.down[2]) /\ Positive(t.bundle[2]) /\ Positive(t.bundle[3])
      /\ Positive(t.up[1]) /\ Positive(t.up[2])
  BY DEF IsPositive, Positive
<1>5. Positive(o[1]) /\ Positive(s[1]) /\ Positive(s[2])
  BY DEF IsPositive, Positive
<1> PICK pods, links, aggs, tors : /\ pods = Pods(c) /\ links = TorUplinks(c)
                                   /\ aggs = AggsPerPod(c) /\ tors = t.hostsPerPod \div t.down[1]
  OBVIOUS
<1>6. Positive(pods) /\ t.nodes = t.hostsPerPod * pods
  <2>1. t.nodes % t.hostsPerPod = 0 /\ pods = t.nodes \div t.hostsPerPod
    BY <1>1, <1>3 DEF Tier0Accepted, Pods
  <2> QED BY <1>4, <2>1, NoRemainder
<1>7. Positive(tors) /\ t.hostsPerPod = t.down[1] * tors
  <2>1. t.hostsPerPod % t.down[1] = 0
    BY <1>1, <1>3 DEF Tier0Accepted
  <2> QED BY <1>4, <2>1, NoRemainder
<1>8. Positive(links)
  <2> PICK capacity, per : capacity = t.nodes * s[1] /\ per = s[2] * o[1]
    OBVIOUS
  <2>1. Positive(capacity) /\ Positive(per)
    BY <1>4, <1>5, Product
  <2>2. capacity % per = 0 /\ links = capacity \div per
    BY <1>1, <1>3 DEF Tier0Accepted, TorUplinks
  <2> QED BY <2>1, <2>2, NoRemainder
<1>9. Positive(aggs)
  <2> PICK w : w = pods * t.down[2]
    OBVIOUS
  <2>1. Positive(w)
    BY <1>4, <1>6, Product
  <2>2. links % w = 0 /\ aggs = links \div w
    BY <1>1, <1>3 DEF Tier1Accepted, AggsPerPod
  <2> QED BY <1>8, <2>1, <2>2, NoRemainder
<1>10. /\ t.tors = tors * pods /\ t.aggs = aggs * pods /\ t.pods = pods
       /\ t.torsPerPod = tors /\ t.aggsPerPod = aggs
  BY <1>1, <1>2 DEF CustomTree
<1>11. t.tiers = 3 => Positive(t.up[2] \div t.bundle[3])
  <2> SUFFICES ASSUME t.tiers = 3 PROVE Positive(t.up[2] \div t.bundle[3])
    OBVIOUS
  <2>1. t.up[2] % t.bundle[3] = 0
    <3>1. \A i \in 1 .. 2 : t.up[i] % t.bundle[i + 1] = 0
      BY <1>1, <1>3 DEF Tier0Accepted
    <3> QED BY <3>1
  <2> QED BY <1>4, <2>1, NoRemainder
<1> PICK hosts, down, nodes : hosts = t.hostsPerPod /\ down = t.down[1] /\ nodes = t.nodes
  OBVIOUS
<1>12. /\ Positive(t.tors) /\ Positive(t.aggs) /\ nodes = t.tors * down
       /\ nodes = pods * hosts /\ t.tors = pods * tors /\ t.aggs = pods * aggs
  <2>1. Positive(tors) /\ Positive(pods) /\ Positive(aggs) /\ Positive(down) /\ Positive(hosts)
    BY <1>4, <1>6, <1>7, <1>9
  <2>2. hosts = down * tors /\ nodes = hosts * pods
    BY <1>6, <1>7
  <2>3. nodes = (tors * pods) * down /\ nodes = pods * hosts /\ tors * pods = pods * tors
        /\ aggs * pods = pods * aggs
    BY ONLY <2>1, <2>2 DEF Positive
  <2> QED BY <1>10, <2>1, <2>3, Product
<1> QED BY <1>4, <1>6, <1>7, <1>9, <1>10, <1>11, <1>12 DEF Sound

(* Every tree that the constructors build is sound. *)
LEMMA TreesAreSound ==
  ASSUME NEW t, TreeIsBuilt(t)
  PROVE  Sound(t)
BY DefaultIsSound, CustomIsSound DEF TreeIsBuilt

-----------------------------------------------------------------------------
(* Links in the lists of a tree *)

(* A list of links from s to nodes of the set S over bundles of b links *)
LinksInto(l, s, S, b) ==
  /\ IsSeq(l) /\ Len(l) >= 1
  /\ \A i \in 1 .. Len(l) : \E n \in S, v \in 0 .. b - 1 : l[i] = Link(s, n, v)

(* A list over bundles to nodes that are all different has no link twice.    *)
LEMMA LinksOfFunction ==
  ASSUME NEW m, Positive(m), NEW S, NEW f \in [1 .. m -> S], NEW b, Positive(b), NEW s,
         NEW l, l = LinksTo(s, f, b)
  PROVE  /\ LinksInto(l, s, S, b)
         /\ (\A j, k \in 1 .. m : f[j] = f[k] => j = k) => Apart(l)
<1>1. m \in Nat /\ m >= 1 /\ b \in Nat /\ b >= 1
  BY DEF Positive
<1>2. Len(f) = m
  BY <1>1, FunctionIsSeq
<1>3. LinksLead(l, s, f, m, b)
  BY <1>1, <1>2, LinksAre
<1>4. \A i \in 1 .. Len(l) : \E n \in S, v \in 0 .. b - 1 : l[i] = Link(s, n, v)
  <2> TAKE i \in 1 .. Len(l)
  <2>1. PICK k \in 1 .. m, v \in 0 .. b - 1 : l[i] = Link(s, f[k], v)
    BY <1>3 DEF LinksLead
  <2>2. f[k] \in S
    OBVIOUS
  <2> QED BY <2>1, <2>2
<1> QED BY <1>3, <1>4 DEF LinksInto, LinksLead

LEMMA LinksToOne ==
  ASSUME NEW x, NEW b, Positive(b), NEW s, NEW l, l = LinksTo(s, <<x>>, b)
  PROVE  LinksInto(l, s, {x}, b)
<1>1. <<x>> \in [1 .. 1 -> {x}]
  OBVIOUS
<1>2. Positive(1)
  BY DEF Positive
<1> PICK f, m : f = <<x>> /\ m = 1
  OBVIOUS
<1>3. f \in [1 .. m -> {x}] /\ Positive(m) /\ l = LinksTo(s, f, b)
  BY <1>1, <1>2
<1> QED BY <1>3, LinksOfFunction

(* The aggregation switches above a pod *)
PodAggs(t, pod) ==
  IF t.tiers = 3 THEN MIN_POD_AGG_SWITCH(t, pod) .. MAX_POD_AGG_SWITCH(t, pod)
  ELSE 0 .. t.aggs - 1

LEMMA PodAggsAre ==
  ASSUME NEW t, Sound(t), NEW pod \in Nat, NEW low, NEW m,
         low = IF t.tiers = 3 THEN MIN_POD_AGG_SWITCH(t, pod) ELSE 0,
         m = IF t.tiers = 3 THEN t.aggsPerPod ELSE t.aggs
  PROVE  /\ low \in Nat /\ Positive(m) /\ PodAggs(t, pod) = low .. low + m - 1
         /\ low + m - 1 = IF t.tiers = 3 THEN MAX_POD_AGG_SWITCH(t, pod) ELSE t.aggs - 1
<1>1. Positive(t.aggsPerPod) /\ Positive(t.aggs)
  BY DEF Sound
<1> PICK a : a = t.aggsPerPod
  OBVIOUS
<1>2. a \in Nat /\ pod * a \in Nat /\ (pod + 1) * a - 1 = pod * a + a - 1
  BY <1>1 DEF Positive
<1> QED BY <1>1, <1>2 DEF PodAggs, MIN_POD_AGG_SWITCH, MAX_POD_AGG_SWITCH, Positive

(* Up from a ToR: links to all aggregation switches of the pod.              *)
LEMMA TorUpIs ==
  ASSUME NEW t, Sound(t), NEW s, s[2] \in Nat, NEW l, l = TorUp(t, s).links
  PROVE  /\ TorUp(t, s).shared /\ Apart(l)
         /\ LinksInto(l, s, {Agg(a) : a \in PodAggs(t, s[2] \div t.torsPerPod)}, t.bundle[2])
<1> PICK pod, low, m : /\ pod = s[2] \div t.torsPerPod
                       /\ low = IF t.tiers = 3 THEN MIN_POD_AGG_SWITCH(t, pod) ELSE 0
                       /\ m = IF t.tiers = 3 THEN t.aggsPerPod ELSE t.aggs
  OBVIOUS
<1>1. pod \in Nat
  BY DivMod DEF Sound, Positive
<1>2. /\ low \in Nat /\ Positive(m) /\ PodAggs(t, pod) = low .. low + m - 1
      /\ low + m - 1 = IF t.tiers = 3 THEN MAX_POD_AGG_SWITCH(t, pod) ELSE t.aggs - 1
  BY <1>1, PodAggsAre, SMTT(30)
<1> PICK high : high = IF t.tiers = 3 THEN MAX_POD_AGG_SWITCH(t, pod) ELSE t.aggs - 1
  OBVIOUS
<1>3. high - low + 1 = m
  BY <1>2 DEF Positive
<1> PICK f : f = [i \in 1 .. m |-> Agg(low + i - 1)]
  OBVIOUS
<1>4. TorUp(t, s) = Hops(LinksTo(s, f, t.bundle[2]), TRUE, TRUE)
  <2>1. f = [i \in 1 .. high - low + 1 |-> Agg(low + i - 1)]
    BY <1>3
  <2> QED BY <2>1 DEF TorUp
<1>5. TorUp(t, s).shared /\ l = LinksTo(s, f, t.bundle[2])
  BY <1>4 DEF Hops
<1> PICK S : S = {Agg(a) : a \in PodAggs(t, pod)}
  OBVIOUS
<1>6. f \in [1 .. m -> S]
  <2>1. \A i \in 1 .. m : low + i - 1 \in low .. low + m - 1
    BY <1>2 DEF Positive
  <2>2. \A i \in 1 .. m : Agg(low + i - 1) \in S
    BY <1>2, <2>1
  <2> QED BY <2>2
<1>7. \A j, k \in 1 .. m : f[j] = f[k] => j = k
  <2> TAKE j, k \in 1 .. m
  <2> HAVE f[j] = f[k]
  <2>1. Agg(low + j - 1) = Agg(low + k - 1)
    OBVIOUS
  <2> PICK x, y : x = low + j - 1 /\ y = low + k - 1
    OBVIOUS
  <2>2. x = y
    BY <2>1 DEF Agg
  <2> QED BY <1>2, <2>2 DEF Positive
<1>8. Positive(t.bundle[2])
  BY DEF Sound
<1> PICK b : b = t.bundle[2]
  OBVIOUS
<1>9. LinksInto(l, s, S, b) /\ Apart(l)
  <2>1. Positive(m) /\ f \in [1 .. m -> S] /\ Positive(b) /\ l = LinksTo(s, f, b)
    BY <1>2, <1>5, <1>6, <1>8
  <2> QED BY ONLY <1>7, <2>1, LinksOfFunction
<1> QED BY <1>5, <1>9

(* Down from an aggregation switch: links to the ToR of the host.            *)
LEMMA AggDownIs ==
  ASSUME NEW t, Sound(t), NEW s, NEW dst, NEW l, l = AggDown(t, s, dst).links
  PROVE  LinksInto(l, s, {Tor(HOST_POD_SWITCH(t, dst))}, t.bundle[2])
<1>1. l = LinksTo(s, <<Tor(HOST_POD_SWITCH(t, dst))>>, t.bundle[2])
  BY DEF AggDown, Hops
<1>2. Positive(t.bundle[2])
  BY DEF Sound
<1> QED BY <1>1, <1>2, LinksToOne

(* The core switches above an aggregation switch *)
UpperCores(t, agg) ==
  {Core((agg % t.aggsPerPod) + t.aggsPerPod * k) : k \in 0 .. (t.up[2] \div t.bundle[3]) - 1}

(* Up from an aggregation switch: links to the core switches it is wired to. *)
LEMMA AggUpIs ==
  ASSUME NEW t, Sound(t), t.tiers = 3, NEW s, s[2] \in Nat, NEW l, l = AggUp(t, s).links
  PROVE  LinksInto(l, s, UpperCores(t, s[2]), t.bundle[3])
<1> PICK n, a, pos : n = t.up[2] \div t.bundle[3] /\ a = t.aggsPerPod /\ pos = s[2] % a
  OBVIOUS
<1>1. Positive(n) /\ Positive(a) /\ Positive(t.bundle[3])
  BY DEF Sound
<1>2. pos \in Nat
  BY <1>1, DivMod DEF Positive
<1> PICK f : f = [k \in 1 .. n |-> Core((k - 1) * a + pos)]
  OBVIOUS
<1>3. l = LinksTo(s, f, t.bundle[3])
  BY DEF AggUp, Hops
<1> PICK S : S = UpperCores(t, s[2])
  OBVIOUS
<1>4. f \in [1 .. n -> S]
  <2> SUFFICES ASSUME NEW k \in 1 .. n PROVE Core((k - 1) * a + pos) \in S
    OBVIOUS
  <2> PICK j : j = k - 1
    OBVIOUS
  <2>1. j \in 0 .. n - 1
    BY <1>1 DEF Positive
  <2>2. j * a + pos = pos + a * j
    <3>1. j \in Nat /\ a \in Nat /\ pos \in Nat
      BY <1>1, <1>2, <2>1 DEF Positive
    <3> QED BY ONLY <3>1
  <2>3. Core(pos + a * j) \in S
    BY <2>1 DEF UpperCores
  <2> QED BY <2>2, <2>3
<1>5. LinksInto(l, s, S, t.bundle[3])
  BY <1>1, <1>3, <1>4, LinksOfFunction
<1> QED BY <1>5

(* Down from a core switch: links to the aggregation switch of the host's pod. *)
LEMMA CoreDownIs ==
  ASSUME NEW t, Sound(t), t.tiers = 3, NEW s, NEW dst, NEW l, l = CoreDown(t, s, dst).links
  PROVE  LinksInto(l, s, {Agg(MIN_POD_AGG_SWITCH(t, HOST_POD(t, dst)) + (s[2] % t.aggsPerPod))},
                   t.bundle[3])
<1> PICK x : x = Agg(MIN_POD_AGG_SWITCH(t, HOST_POD(t, dst)) + (s[2] % t.aggsPerPod))
  OBVIOUS
<1>1. l = LinksTo(s, <<x>>, t.bundle[3])
  BY DEF CoreDown, Hops
<1>2. Positive(t.bundle[3])
  BY DEF Sound
<1>3. LinksInto(l, s, {x}, t.bundle[3])
  BY <1>1, <1>2, LinksToOne
<1> QED BY <1>3

(* Which of the lists a switch of a tree makes                               *)
LEMMA TreeHopsAre ==
  ASSUME NEW t, NEW s, NEW dst
  PROVE  /\ s[1] = "TOR" => TreeHops(t, s, dst) = TorUp(t, s)
         /\ s[1] = "AGG" => TreeHops(t, s, dst) =
              IF t.tiers = 2 \/ HOST_POD(t, dst) = AGG_SWITCH_POD_ID(t, s[2])
              THEN AggDown(t, s, dst) ELSE AggUp(t, s)
         /\ s[1] = "CORE" => TreeHops(t, s, dst) = CoreDown(t, s, dst)
<1>1. s[1] = "TOR" => TreeHops(t, s, dst) = TorUp(t, s)
  BY DEF TreeHops
<1>2. s[1] = "AGG" => TreeHops(t, s, dst) =
              IF t.tiers = 2 \/ HOST_POD(t, dst) = AGG_SWITCH_POD_ID(t, s[2])
              THEN AggDown(t, s, dst) ELSE AggUp(t, s)
  BY DEF TreeHops
<1>3. s[1] = "CORE" => TreeHops(t, s, dst) = CoreDown(t, s, dst)
  BY DEF TreeHops
<1> QED BY <1>1, <1>2, <1>3

-----------------------------------------------------------------------------
(* The switches of a WAN *)

(* The lists of a WAN lead to the nodes they are made for.                   *)
LEMMA WanLinks ==
  ASSUME NEW a, NEW nodes, NEW b
  PROVE  W!LinksTo(a, nodes, b) = LinksTo(a, nodes, b)
BY DEF W!LinksTo, LinksTo, W!Link, Link

(* A switch of an AI topology *)
WanSeat(w, s) ==
  W!WanExists(w, s) /\ s[1] \in {"TOR", "LEAF", "SPINE", "RH", "RWA", "OWR"}

(* x is one of the numbers below n. *)
Below(x, n) == x \in 0 .. n - 1

(* The numbers of the switches of a WAN                                      *)
LEMMA SeatIs ==
  ASSUME NEW w, NEW s
  PROVE  W!WanExists(w, s) /\ s[1] \in {"TOR", "LEAF", "SPINE", "RH", "RWA", "OWR", "HOST"} <=>
           \/ /\ s[1] = "TOR"
              /\ Below(s[2], w.regions) /\ Below(s[3], w.dcs) /\ Below(s[4], w.leafGroups)
              /\ Below(s[5], w.torGroups) /\ Below(s[6], w.tors)
           \/ /\ s[1] = "LEAF"
              /\ Below(s[2], w.regions) /\ Below(s[3], w.dcs) /\ Below(s[4], w.leafGroups)
              /\ Below(s[5], w.leafs)
           \/ /\ s[1] = "SPINE"
              /\ Below(s[2], w.regions) /\ Below(s[3], w.dcs) /\ Below(s[4], W!SpinesPerDc(w))
           \/ /\ s[1] = "RH"
              /\ Below(s[2], w.regions) /\ Below(s[3], w.rhGroups)
              /\ Below(s[4], w.rhBatches) /\ Below(s[5], w.rhSwitches)
           \/ /\ s[1] = "RWA"
              /\ Below(s[2], w.regions) /\ Below(s[3], w.rhGroups) /\ Below(s[4], w.rwaSwitches)
           \/ /\ s[1] = "OWR"
              /\ Below(s[2], w.regions) /\ Below(s[3], w.rhGroups) /\ Below(s[4], w.owrSwitches)
           \/ s[1] = "HOST" /\ Below(s[2], w.regions * W!PerRegion(w))
<1>1. CASE s[1] = "TOR"
  BY <1>1 DEF W!WanExists, Below
<1>2. CASE s[1] = "LEAF"
  BY <1>2 DEF W!WanExists, Below
<1>3. CASE s[1] = "SPINE"
  BY <1>3 DEF W!WanExists, Below
<1>4. CASE s[1] = "RH"
  BY <1>4 DEF W!WanExists, Below
<1>5. CASE s[1] = "RWA"
  BY <1>5 DEF W!WanExists, Below
<1>6. CASE s[1] = "OWR"
  BY <1>6 DEF W!WanExists, Below
<1>7. CASE s[1] = "HOST"
  BY <1>7 DEF W!WanExists, Below
<1> QED BY <1>1, <1>2, <1>3, <1>4, <1>5, <1>6, <1>7

(* The wiring of a WAN works in both directions.                             *)
LEMMA WiredIs ==
  ASSUME NEW w, NEW a, NEW b, NEW e, e.from \in {a, b}, e.to \in {a, b}, e.from # e.to,
         W!WanExists(w, a), W!WanExists(w, b),
         \/ a[1] = "HOST" /\ b[1] = "TOR" /\ W!ServerTorWired(w, a, b, e.bundle)
         \/ a[1] = "TOR" /\ b[1] = "LEAF" /\ W!TorLeafWired(w, a, b, e.bundle)
         \/ a[1] = "LEAF" /\ b[1] = "SPINE" /\ W!LeafSpineWired(w, a, b, e.bundle)
         \/ a[1] = "SPINE" /\ b[1] = "RH" /\ W!SpineRHWired(w, a, b, e.bundle)
         \/ a[1] = "RH" /\ b[1] = "RWA" /\ W!RHRWAWired(w, a, b, e.bundle)
         \/ a[1] = "RWA" /\ b[1] = "OWR" /\ W!RWAOWRWired(w, a, b, e.bundle)
         \/ a[1] = "OWR" /\ b[1] = "OWR" /\ W!OWROWRWired(w, a, b, e.bundle)
  PROVE  W!WanWired(w, e)
<1> PICK ends : ends = <<a, b>>
  OBVIOUS
<1>1. ends \in {<<e.from, e.to>>, <<e.to, e.from>>} /\ ends[1] = a /\ ends[2] = b
  OBVIOUS
<1>2. W!WanExists(w, e.from) /\ W!WanExists(w, e.to)
  OBVIOUS
<1> SUFFICES
      LET lo == ends[1]
          hi == ends[2]
          kinds == <<lo[1], hi[1]>>
      IN CASE kinds = <<"HOST", "TOR">>   -> W!ServerTorWired(w, lo, hi, e.bundle)
             [] kinds = <<"TOR", "LEAF">>   -> W!TorLeafWired(w, lo, hi, e.bundle)
             [] kinds = <<"LEAF", "SPINE">> -> W!LeafSpineWired(w, lo, hi, e.bundle)
             [] kinds = <<"SPINE", "RH">>   -> W!SpineRHWired(w, lo, hi, e.bundle)
             [] kinds = <<"RH", "RWA">>     -> W!RHRWAWired(w, lo, hi, e.bundle)
             [] kinds = <<"RWA", "OWR">>    -> W!RWAOWRWired(w, lo, hi, e.bundle)
             [] kinds = <<"OWR", "OWR">>    -> W!OWROWRWired(w, lo, hi, e.bundle)
             [] OTHER -> FALSE
  BY <1>1, <1>2 DEF W!WanWired
<1> QED BY <1>1

-----------------------------------------------------------------------------
(* The numbers of a WAN *)

WanPositive(w) ==
  /\ Positive(w.regions) /\ Positive(w.dcs) /\ Positive(w.leafGroups) /\ Positive(w.leafs)
  /\ Positive(w.torGroups) /\ Positive(w.tors) /\ Positive(w.servers) /\ Positive(w.spines)
  /\ Positive(w.rhGroups) /\ Positive(w.rhBatches) /\ Positive(w.rhSwitches)
  /\ Positive(w.rwaSwitches) /\ Positive(w.owrSwitches)
  /\ Positive(w.linksRhRwa) /\ Positive(w.linksRwaOwr) /\ Positive(w.linksRegional)
  /\ Positive(w.bundle[1]) /\ Positive(w.bundle[2]) /\ Positive(w.bundle[3])
  /\ Positive(w.bundle[4])
  /\ w.rhBatches <= w.leafs

(* A WAN that the program builds has all its switches.                       *)
LEMMA WanIsPositive ==
  ASSUME NEW w, W!WanIsSound(w)
  PROVE  WanPositive(w)
BY DEF W!WanIsSound, WanPositive, Positive

(* The remainder by a of the remainder by a multiple of a *)
LEMMA ModMod ==
  ASSUME NEW a, NEW b, Positive(a), Positive(b), NEW c, c = b * a, NEW x \in Nat
  PROVE  (x % c) % a = x % a /\ x % c \in Nat /\ x % c < c
<1> PICK q, r : q = x \div c /\ r = x % c
  OBVIOUS
<1>1. c \in Nat /\ c >= 1
  BY Product DEF Positive
<1>2. q \in Nat /\ r \in Nat /\ r <= c - 1 /\ x = c * q + r
  BY <1>1, DivMod
<1> PICK p, s : p = r \div a /\ s = r % a
  OBVIOUS
<1>3. p \in Nat /\ s \in Nat /\ s <= a - 1 /\ r = a * p + s
  BY <1>2, DivMod DEF Positive
<1>4. Splits(x, a, b * q + p, s)
  <2>1. a \in Nat /\ a >= 1 /\ b \in Nat /\ b >= 1
    BY DEF Positive
  <2> PICK u : u = b * q
    OBVIOUS
  <2>2. u \in Nat
    BY <1>2, <2>1
  <2>3. c * q = a * u
    <3>1. a \in Nat /\ b \in Nat /\ q \in Nat /\ c = b * a /\ u = b * q
      BY <1>2, <2>1
    <3>2. (b * a) * q = a * (b * q)
      BY ONLY <3>1
    <3> QED BY <3>1, <3>2
  <2>4. a * (u + p) = a * u + a * p
    BY <1>3, <2>1, <2>2
  <2>5. x = a * (u + p) + s
    <3>1. a * u \in Nat /\ a * p \in Nat
      BY <1>3, <2>1, <2>2
    <3> QED BY <1>2, <1>3, <2>3, <2>4, <3>1
  <2> QED BY <1>3, <2>1, <2>2, <2>5 DEF Splits
<1>5. x % a = s
  BY <1>4, DivModIs
<1> QED BY <1>1, <1>2, <1>5

(* A digit of a number that is below m * n *)
LEMMA DigitIs ==
  ASSUME NEW n, NEW m, Positive(n), Positive(m), NEW x \in Nat, NEW z, z = m * n, x < z,
         NEW q, q = x \div n, NEW r, r = x % n
  PROVE  Splits(x, n, q, r) /\ q <= m - 1
<1>1. n \in Nat /\ n >= 1 /\ m \in Nat
  BY DEF Positive
<1>2. q \in Nat /\ q <= m - 1
  BY <1>1, DivLess
<1>3. r \in Nat /\ r <= n - 1 /\ x = n * q + r
  BY <1>1, DivMod
<1> QED BY <1>1, <1>2, <1>3 DEF Splits

Servers(w) == 0 .. w.regions * W!PerRegion(w) - 1

(* How many hosts there are below each kind of switch                        *)
LEMMA PerIs ==
  ASSUME NEW w, WanPositive(w)
  PROVE  /\ Positive(W!PerLeafGroup(w)) /\ Positive(W!PerDc(w)) /\ Positive(W!PerRegion(w))
<1>1. Positive(W!PerLeafGroup(w))
  BY Product DEF WanPositive, W!PerLeafGroup
<1>2. Positive(W!PerDc(w))
  BY <1>1, Product DEF WanPositive, W!PerDc
<1>3. Positive(W!PerRegion(w))
  BY <1>2, Product DEF WanPositive, W!PerRegion
<1> QED BY <1>1, <1>2, <1>3

(* Where a host is *)
LEMMA HostNumbers ==
  ASSUME NEW w, WanPositive(w), NEW h \in Servers(w)
  PROVE  /\ h \in Nat
         /\ Below(W!RegionOf(w, h), w.regions) /\ Below(W!DcOf(w, h), w.dcs)
         /\ Below(W!LeafGroupOf(w, h), w.leafGroups) /\ Below(W!TorGroupOf(w, h), w.torGroups)
         /\ h = W!RegionOf(w, h) * W!PerRegion(w) + W!DcOf(w, h) * W!PerDc(w)
                  + W!LeafGroupOf(w, h) * W!PerLeafGroup(w) + W!TorGroupOf(w, h) * w.servers
                  + W!RelativeServer(w, h)
<1> PICK lg, dc, rg, all : /\ lg = W!PerLeafGroup(w) /\ dc = W!PerDc(w) /\ rg = W!PerRegion(w)
                           /\ all = w.regions * rg
  OBVIOUS
<1>1. Positive(lg) /\ Positive(dc) /\ Positive(rg) /\ Positive(all)
  BY PerIs, Product DEF WanPositive
<1>2. lg = w.torGroups * w.servers /\ dc = w.leafGroups * lg /\ rg = w.dcs * dc
  BY DEF W!PerLeafGroup, W!PerDc, W!PerRegion
<1>3. h \in Nat /\ h < all
  BY <1>1 DEF Servers, Positive
<1> PICK a, b, c, d, x, y, z, v :
      /\ x = h % rg /\ y = h % dc /\ z = h % lg /\ v = h % w.servers
      /\ a = h \div rg /\ b = x \div dc /\ c = y \div lg /\ d = z \div w.servers
  OBVIOUS
<1>4. /\ a = W!RegionOf(w, h) /\ b = W!DcOf(w, h) /\ c = W!LeafGroupOf(w, h)
      /\ d = W!TorGroupOf(w, h) /\ v = W!RelativeServer(w, h)
  BY DEF W!RegionOf, W!DcOf, W!LeafGroupOf, W!TorGroupOf, W!RelativeServer
<1>5. /\ x \in Nat /\ x < rg /\ x % dc = y
      /\ y \in Nat /\ y < dc /\ y % lg = z
      /\ z \in Nat /\ z < lg /\ z % w.servers = v
  BY <1>1, <1>2, <1>3, ModMod DEF WanPositive
<1>6. /\ a \in Nat /\ a <= w.regions - 1 /\ h = rg * a + x
      /\ b \in Nat /\ b <= w.dcs - 1 /\ x = dc * b + y
      /\ c \in Nat /\ c <= w.leafGroups - 1 /\ y = lg * c + z
      /\ d \in Nat /\ d <= w.torGroups - 1 /\ z = w.servers * d + v
      /\ v \in Nat
  <2>1. /\ Positive(w.regions) /\ Positive(w.dcs) /\ Positive(w.leafGroups)
        /\ Positive(w.torGroups) /\ Positive(w.servers)
    BY DEF WanPositive
  <2>2. a \in Nat /\ a <= w.regions - 1 /\ h = rg * a + x
    <3>1. Splits(h, rg, a, x) /\ a <= w.regions - 1
      BY <1>1, <1>2, <1>3, <1>5, <2>1, DigitIs
    <3> QED BY <3>1 DEF Splits
  <2>3. b \in Nat /\ b <= w.dcs - 1 /\ x = dc * b + y
    <3>1. Splits(x, dc, b, y) /\ b <= w.dcs - 1
      BY <1>1, <1>2, <1>3, <1>5, <2>1, DigitIs
    <3> QED BY <3>1 DEF Splits
  <2>4. c \in Nat /\ c <= w.leafGroups - 1 /\ y = lg * c + z
    <3>1. Splits(y, lg, c, z) /\ c <= w.leafGroups - 1
      BY <1>1, <1>2, <1>3, <1>5, <2>1, DigitIs
    <3> QED BY <3>1 DEF Splits
  <2>5. d \in Nat /\ d <= w.torGroups - 1 /\ z = w.servers * d + v /\ v \in Nat
    <3>1. Splits(z, w.servers, d, v) /\ d <= w.torGroups - 1
      BY <1>1, <1>2, <1>3, <1>5, <2>1, DigitIs
    <3> QED BY <3>1 DEF Splits
  <2> QED BY <2>2, <2>3, <2>4, <2>5
<1>7. h = a * rg + b * dc + c * lg + d * w.servers + v
  <2> PICK t, i, j, k, l : /\ t = w.servers
        /\ i = a * rg /\ j = b * dc /\ k = c * lg /\ l = d * t
    OBVIOUS
  <2>1. rg \in Nat /\ dc \in Nat /\ lg \in Nat /\ t \in Nat
    BY <1>1 DEF WanPositive, Positive
  <2>2. i \in Nat /\ j \in Nat /\ k \in Nat /\ l \in Nat
    <3>1. a \in Nat /\ b \in Nat /\ c \in Nat /\ d \in Nat
      BY <1>6
    <3>2. a * rg \in Nat /\ b * dc \in Nat /\ c * lg \in Nat /\ d * t \in Nat
      BY ONLY <2>1, <3>1
    <3> QED BY ONLY <3>2, i = a * rg, j = b * dc, k = c * lg, l = d * t
  <2>3. rg * a = i /\ dc * b = j /\ lg * c = k /\ t * d = l
    BY <1>6, <2>1, SMTT(30)
  <2>4. h = i + x /\ x = j + y /\ y = k + z /\ z = l + v
    BY <1>6, <2>3
  <2>5. h = i + j + k + l + v
    <3>1. v \in Nat
      BY <1>6
    <3> QED BY ONLY <2>2, <2>4, <3>1
  <2> QED BY <2>5
<1>8. /\ Below(a, w.regions) /\ Below(b, w.dcs) /\ Below(c, w.leafGroups)
      /\ Below(d, w.torGroups)
  BY <1>6, SMTT(30) DEF Below, WanPositive, Positive
<1> QED BY <1>3, <1>4, <1>7, <1>8

-----------------------------------------------------------------------------
(* The lists of a WAN *)

(* The hosts below a switch of an AI topology *)
WanCovers(w, s, h) ==
  /\ W!IsDstRegion(w, s, h)
  /\ s[1] \in {"TOR", "LEAF", "SPINE"} => W!IsDstDc(w, s, h)
  /\ s[1] \in {"TOR", "LEAF"} => W!IsDstLeafGroup(w, s, h)
  /\ s[1] = "TOR" => W!IsDstTorGroup(w, s, h)

(* A step from the switch s up to n, one down to n, which is above the       *)
(* destination, and one to another region.                                   *)
WanUp(w, s, n) == Tier(n) = Tier(s) + 1 /\ \A h : WanCovers(w, s, h) => WanCovers(w, n, h)
WanDown(w, s, n, dst) == Tier(n) = Tier(s) - 1 /\ WanCovers(w, n, dst)
WanOver(w, s, n, dst) == Tier(n) = 6 /\ Tier(s) = 6 /\ WanCovers(w, n, dst)

(* The links of the list l of s lead to switches and satisfy P, one of these *)
WanLink(w, s, e) == e = Link(s, e.to, e.bundle) /\ WanSeat(w, e.to) /\ W!WanWired(w, e)
IsList(l) == IsSeq(l) /\ Len(l) >= 1

(* The tiers of the kinds of switches                                        *)
LEMMA TierIs ==
  ASSUME NEW n
  PROVE  /\ n[1] = "TOR" => Tier(n) = 1
         /\ n[1] = "LEAF" => Tier(n) = 2
         /\ n[1] = "SPINE" => Tier(n) = 3
         /\ n[1] = "RH" => Tier(n) = 4
         /\ n[1] = "RWA" => Tier(n) = 5
         /\ n[1] = "OWR" => Tier(n) = 6
         /\ n[1] = "AGG" => Tier(n) = 2
         /\ n[1] = "CORE" => Tier(n) = 3
         /\ n[1] = "HOST" => Tier(n) = 0
<1>1. CASE n[1] = "TOR"
  BY <1>1 DEF Tier
<1>2. CASE n[1] = "LEAF"
  BY <1>2 DEF Tier
<1>3. CASE n[1] = "SPINE"
  BY <1>3 DEF Tier
<1>4. CASE n[1] = "RH"
  BY <1>4 DEF Tier
<1>5. CASE n[1] = "RWA"
  BY <1>5 DEF Tier
<1>6. CASE n[1] = "OWR"
  BY <1>6 DEF Tier
<1>7. CASE n[1] = "AGG"
  BY <1>7 DEF Tier
<1>8. CASE n[1] = "CORE"
  BY <1>8 DEF Tier
<1>9. CASE n[1] = "HOST"
  BY <1>9 DEF Tier
<1> QED BY <1>1, <1>2, <1>3, <1>4, <1>5, <1>6, <1>7, <1>8, <1>9

IsTuple(f, m) == f = [k \in 1 .. m |-> f[k]]

(* What each of the nodes f[1], ..., f[m] has, the links to them have. *)
LEMMA LinksHave ==
  ASSUME NEW m, Positive(m), NEW f, IsTuple(f, m), NEW b, Positive(b), NEW s,
         NEW l, l = W!LinksTo(s, f, b)
  PROVE  /\ IsList(l)
         /\ \A i \in 1 .. Len(l) :
              l[i] = Link(s, l[i].to, l[i].bundle)
              /\ (\E k \in 1 .. m : l[i].to = f[k]) /\ l[i].bundle \in 0 .. b - 1
         /\ (\A j, k \in 1 .. m : f[j] = f[k] => j = k) => Apart(l)
<1> PICK S : S = {f[k] : k \in 1 .. m}
  OBVIOUS
<1>1. f \in [1 .. m -> S]
  BY DEF IsTuple
<1>2. l = LinksTo(s, f, b)
  BY WanLinks
<1>3. LinksInto(l, s, S, b) /\ ((\A j, k \in 1 .. m : f[j] = f[k] => j = k) => Apart(l))
  BY ONLY Positive(m), Positive(b), <1>1, <1>2, LinksOfFunction
<1>4. \A i \in 1 .. Len(l) :
        l[i] = Link(s, l[i].to, l[i].bundle)
        /\ (\E k \in 1 .. m : l[i].to = f[k]) /\ l[i].bundle \in 0 .. b - 1
  <2> TAKE i \in 1 .. Len(l)
  <2>1. PICK n \in S, v \in 0 .. b - 1 : l[i] = Link(s, n, v)
    BY <1>3 DEF LinksInto
  <2>2. l[i].to = n /\ l[i].bundle = v
    BY <2>1 DEF Link
  <2> QED BY <2>1, <2>2
<1> QED BY <1>3, <1>4 DEF LinksInto, IsList

(* The lists of a WAN, one lemma for each kind of switch and direction: every *)
(* link exists, and leads up to a switch above all hosts below this one or down to *)
(* one above the destination.                                                *)
LEMMA ToRUpIs ==
  ASSUME NEW w, WanPositive(w), NEW s, WanSeat(w, s), s[1] = "TOR",
         NEW h, h = W!ToRUp(w, s), NEW l, l = h.links
  PROVE  /\ h.shared /\ IsList(l) /\ Apart(l)
         /\ \A i \in 1 .. Len(l) : WanLink(w, s, l[i]) /\ WanUp(w, s, l[i].to)
<1> PICK f, b : /\ f = [k \in 1 .. w.leafs |-> <<"LEAF", s[2], s[3], s[4], k - 1>>]
                /\ b = w.bundle[2]
  OBVIOUS
<1>1. l = W!LinksTo(s, f, b) /\ h.shared
  BY DEF W!ToRUp, W!Up, W!Hops
<1>2. Positive(w.leafs) /\ Positive(b)
  BY DEF WanPositive
<1>3. \A j, k \in 1 .. w.leafs : f[j] = f[k] => j = k
  <2> TAKE j, k \in 1 .. w.leafs
  <2> HAVE f[j] = f[k]
  <2>1. f[j][5] = j - 1 /\ f[k][5] = k - 1
    OBVIOUS
  <2> QED BY <1>2, <2>1 DEF Positive
<1>0. IsTuple(f, w.leafs)
  BY DEF IsTuple
<1>4. /\ IsList(l) /\ Apart(l)
      /\ \A i \in 1 .. Len(l) :
           l[i] = Link(s, l[i].to, l[i].bundle)
           /\ (\E k \in 1 .. w.leafs : l[i].to = f[k]) /\ l[i].bundle \in 0 .. b - 1
  BY ONLY <1>0, <1>1, <1>2, <1>3, LinksHave
<1>5. ASSUME NEW i \in 1 .. Len(l)
      PROVE  WanLink(w, s, l[i]) /\ WanUp(w, s, l[i].to)
  <2> PICK e, n, v : e = l[i] /\ n = e.to /\ v = e.bundle
    OBVIOUS
  <2>1. e = Link(s, n, v) /\ (\E k \in 1 .. w.leafs : n = f[k]) /\ v \in 0 .. b - 1
    BY <1>4
  <2>2. PICK k \in 1 .. w.leafs : n = <<"LEAF", s[2], s[3], s[4], k - 1>>
    BY <2>1
  <2>3. /\ n[1] = "LEAF" /\ n[2] = s[2] /\ n[3] = s[3] /\ n[4] = s[4] /\ n[5] = k - 1
    BY <2>2
  <2>4. /\ Below(s[2], w.regions) /\ Below(s[3], w.dcs) /\ Below(s[4], w.leafGroups)
        /\ W!WanExists(w, s)
    BY SeatIs DEF WanSeat
  <2>5. W!WanExists(w, n)
    <3>1. Below(n[5], w.leafs)
      BY <1>2, <2>3 DEF Below, Positive
    <3> QED BY <2>3, <2>4, <3>1, SeatIs
  <2>6. W!TorLeafWired(w, s, n, v)
    <3>1. v < b
      BY <1>2, <2>1 DEF Positive
    <3>2. \A x \in 2 .. 4 : s[x] = n[x]
      BY <2>3
    <3> QED BY <3>1, <3>2 DEF W!TorLeafWired
  <2>7. W!WanWired(w, e)
    <3>1. e.from = s /\ e.to = n /\ e.bundle = v
      BY <2>1 DEF Link
    <3>2. e.from # e.to /\ e.from \in {s, n} /\ e.to \in {s, n}
      BY <2>3, <3>1
    <3> QED BY <2>3, <2>4, <2>5, <2>6, <3>1, <3>2, WiredIs
  <2>8. WanUp(w, s, n)
    <3>1. Tier(n) = Tier(s) + 1
      BY <2>3, TierIs
    <3>2. \A x : WanCovers(w, s, x) => WanCovers(w, n, x)
      BY <2>3 DEF WanCovers, W!IsDstLeafGroup, W!IsDstDc, W!IsDstRegion
    <3> QED BY <3>1, <3>2 DEF WanUp
  <2> QED BY <2>1, <2>3, <2>5, <2>7, <2>8 DEF WanLink, WanSeat
<1> QED BY <1>1, <1>4, <1>5

(* The seven kinds of links, the lower node first *)
Wiring(w, a, b, v) ==
  \/ a[1] = "HOST" /\ b[1] = "TOR" /\ W!ServerTorWired(w, a, b, v)
  \/ a[1] = "TOR" /\ b[1] = "LEAF" /\ W!TorLeafWired(w, a, b, v)
  \/ a[1] = "LEAF" /\ b[1] = "SPINE" /\ W!LeafSpineWired(w, a, b, v)
  \/ a[1] = "SPINE" /\ b[1] = "RH" /\ W!SpineRHWired(w, a, b, v)
  \/ a[1] = "RH" /\ b[1] = "RWA" /\ W!RHRWAWired(w, a, b, v)
  \/ a[1] = "RWA" /\ b[1] = "OWR" /\ W!RWAOWRWired(w, a, b, v)
  \/ a[1] = "OWR" /\ b[1] = "OWR" /\ W!OWROWRWired(w, a, b, v)

LEMMA WanWiredIs ==
  ASSUME NEW w, NEW s, NEW n, NEW v, NEW e, e = Link(s, n, v),
         W!WanExists(w, s), W!WanExists(w, n), s # n,
         Wiring(w, s, n, v) \/ Wiring(w, n, s, v)
  PROVE  W!WanWired(w, e)
<1>1. e.from = s /\ e.to = n /\ e.bundle = v
  BY DEF Link
<1>2. CASE Wiring(w, s, n, v)
  BY <1>1, <1>2, WiredIs DEF Wiring
<1>3. CASE Wiring(w, n, s, v)
  BY <1>1, <1>3, WiredIs DEF Wiring
<1> QED BY <1>2, <1>3

LEMMA WanLinkIs ==
  ASSUME NEW w, NEW s, NEW n, NEW v, NEW e, e = Link(s, n, v),
         WanSeat(w, s), WanSeat(w, n), s # n,
         Wiring(w, s, n, v) \/ Wiring(w, n, s, v)
  PROVE  WanLink(w, s, e)
<1>1. e.to = n /\ e.bundle = v
  BY DEF Link
<1>2. W!WanWired(w, e)
  BY WanWiredIs DEF WanSeat
<1> QED BY <1>1, <1>2 DEF WanLink

(* The number of the r-th of the a-th group of n *)
LEMMA GroupNumber ==
  ASSUME NEW n, NEW m, Positive(n), Positive(m), NEW a, Below(a, m), NEW r, Below(r, n),
         NEW x, x = a * n + r, NEW z, z = m * n
  PROVE  Below(x, z)
<1>1. n \in Nat /\ n >= 1 /\ m \in Nat /\ a \in Nat /\ a <= m - 1 /\ r \in Nat /\ r <= n - 1
  BY DEF Positive, Below
<1> PICK d : d = m - 1 - a
  OBVIOUS
<1>2. d \in Nat /\ m = d + a + 1
  BY <1>1
<1>3. d * n \in Nat /\ a * n \in Nat /\ m * n = d * n + a * n + n
  BY ONLY <1>1, <1>2
<1> PICK u, v : u = d * n /\ v = a * n
  OBVIOUS
<1>4. u \in Nat /\ v \in Nat /\ z = u + v + n /\ x = v + r
  BY <1>3
<1>5. x \in Nat /\ x <= z - 1 /\ z \in Nat
  BY ONLY <1>1, <1>4
<1> QED BY <1>5 DEF Below

LEMMA LeafUpIs ==
  ASSUME NEW w, WanPositive(w), NEW s, WanSeat(w, s), s[1] = "LEAF",
         NEW h, h = W!LeafUp(w, s), NEW l, l = h.links
  PROVE  /\ h.shared /\ IsList(l)
         /\ \A i \in 1 .. Len(l) : WanLink(w, s, l[i]) /\ WanUp(w, s, l[i].to)
<1> PICK f, b : /\ f = [k \in 1 .. w.spines |->
                          <<"SPINE", s[2], s[3], s[5] * w.spines + k - 1>>]
                /\ b = w.bundle[3]
  OBVIOUS
<1>0. IsTuple(f, w.spines)
  BY DEF IsTuple
<1>1. l = W!LinksTo(s, f, b) /\ h.shared
  BY DEF W!LeafUp, W!Up, W!Hops
<1>2. Positive(w.spines) /\ Positive(b) /\ Positive(w.leafs)
  BY DEF WanPositive
<1>3. /\ IsList(l)
      /\ \A i \in 1 .. Len(l) :
           l[i] = Link(s, l[i].to, l[i].bundle)
           /\ (\E k \in 1 .. w.spines : l[i].to = f[k]) /\ l[i].bundle \in 0 .. b - 1
  BY ONLY <1>0, <1>1, <1>2, LinksHave
<1>4. ASSUME NEW i \in 1 .. Len(l)
      PROVE  WanLink(w, s, l[i]) /\ WanUp(w, s, l[i].to)
  <2> PICK e, n, v : e = l[i] /\ n = e.to /\ v = e.bundle
    OBVIOUS
  <2>1. e = Link(s, n, v) /\ (\E k \in 1 .. w.spines : n = f[k]) /\ v \in 0 .. b - 1
    BY <1>3
  <2>2. PICK k \in 1 .. w.spines : n = <<"SPINE", s[2], s[3], s[5] * w.spines + k - 1>>
    BY <2>1
  <2> PICK j, x : j = k - 1 /\ x = s[5] * w.spines + j
    OBVIOUS
  <2>3. /\ Below(s[2], w.regions) /\ Below(s[3], w.dcs) /\ Below(s[5], w.leafs)
        /\ W!WanExists(w, s)
    BY SeatIs DEF WanSeat
  <2>4. Below(j, w.spines)
    BY <1>2 DEF Below, Positive
  <2>5. /\ n[1] = "SPINE" /\ n[2] = s[2] /\ n[3] = s[3] /\ n[4] = x
    <3>1. s[5] * w.spines + k - 1 = x
      <4> PICK y : y = s[5] * w.spines
        OBVIOUS
      <4>1. s[5] \in Nat /\ w.spines \in Nat
        BY <1>2, <2>3 DEF Positive, Below
      <4>2. y \in Nat
        BY ONLY <4>1, y = s[5] * w.spines
      <4> QED BY <4>2
    <3> QED BY <2>2, <3>1
  <2>6. WanSeat(w, n)
    <3>1. Below(x, W!SpinesPerDc(w))
      <4>1. W!SpinesPerDc(w) = w.leafs * w.spines
        BY DEF W!SpinesPerDc
      <4> QED BY <1>2, <2>3, <2>4, <4>1, GroupNumber
    <3> QED BY <2>3, <2>5, <3>1, SeatIs DEF WanSeat
  <2>7. WanLink(w, s, e)
    <3>1. W!LeafSpineWired(w, s, n, v)
      <4>1. v < b
        BY <1>2, <2>1 DEF Positive
      <4>2. \A y \in 2 .. 3 : s[y] = n[y]
        BY <2>5
      <4> QED BY <2>4, <2>5, <4>1, <4>2 DEF W!LeafSpineWired, Below
    <3>2. Wiring(w, s, n, v) /\ s # n
      BY <2>5, <3>1 DEF Wiring
    <3> QED BY <2>1, <2>6, <3>2, WanLinkIs
  <2>8. WanUp(w, s, n)
    <3>1. Tier(n) = Tier(s) + 1
      BY <2>5, TierIs
    <3>2. \A y : WanCovers(w, s, y) => WanCovers(w, n, y)
      BY <2>5 DEF WanCovers, W!IsDstDc, W!IsDstRegion
    <3> QED BY <3>1, <3>2 DEF WanUp
  <2> QED BY <2>7, <2>8
<1> QED BY <1>1, <1>3, <1>4

LEMMA LeafDownIs ==
  ASSUME NEW w, WanPositive(w), NEW s, WanSeat(w, s), s[1] = "LEAF", NEW dst \in Servers(w),
         WanCovers(w, s, dst), NEW h, h = W!LeafDown(w, s, dst), NEW l, l = h.links
  PROVE  /\ ~ h.shared /\ IsList(l)
         /\ \A i \in 1 .. Len(l) : WanLink(w, s, l[i]) /\ WanDown(w, s, l[i].to, dst)
<1> PICK f, b, m : /\ m = (w.tors + 1) \div 2
                   /\ f = [k \in 1 .. m |->
                             <<"TOR", s[2], s[3], s[4], W!TorGroupOf(w, dst), 2 * (k - 1)>>]
                   /\ b = w.bundle[2]
  OBVIOUS
<1>0. IsTuple(f, m)
  BY DEF IsTuple
<1>1. l = W!LinksTo(s, f, b) /\ ~ h.shared
  BY DEF W!LeafDown, W!Down, W!Hops
<1>2. Positive(m) /\ Positive(b) /\ Positive(w.tors) /\ 2 * m <= w.tors + 1
  <2>1. Positive(w.tors) /\ Positive(b)
    BY DEF WanPositive
  <2> PICK x, c : x = w.tors + 1 /\ c = 2
    OBVIOUS
  <2> PICK r : r = x % c
    OBVIOUS
  <2>2. x \in Nat /\ x >= 2 /\ c \in Nat /\ c >= 1 /\ m = x \div c /\ r = x % c
    BY <2>1 DEF Positive
  <2>3. m \in Nat /\ r \in Nat /\ r <= c - 1 /\ x = c * m + r
    BY ONLY <2>2, DivMod
  <2>4. m \in Nat /\ r \in Nat /\ r <= 1 /\ x = 2 * m + r
    BY <2>3
  <2>5. m >= 1 /\ 2 * m <= x
    BY ONLY <2>2, <2>4
  <2> QED BY <2>1, <2>4, <2>5 DEF Positive
<1>3. /\ IsList(l)
      /\ \A i \in 1 .. Len(l) :
           l[i] = Link(s, l[i].to, l[i].bundle)
           /\ (\E k \in 1 .. m : l[i].to = f[k]) /\ l[i].bundle \in 0 .. b - 1
  BY ONLY <1>0, <1>1, <1>2, LinksHave
<1>4. ASSUME NEW i \in 1 .. Len(l)
      PROVE  WanLink(w, s, l[i]) /\ WanDown(w, s, l[i].to, dst)
  <2> PICK e, n, v, g : e = l[i] /\ n = e.to /\ v = e.bundle /\ g = W!TorGroupOf(w, dst)
    OBVIOUS
  <2>1. e = Link(s, n, v) /\ (\E k \in 1 .. m : n = f[k]) /\ v \in 0 .. b - 1
    BY <1>3
  <2>2. PICK k \in 1 .. m : n = <<"TOR", s[2], s[3], s[4], g, 2 * (k - 1)>>
    BY <2>1
  <2>3. /\ Below(s[2], w.regions) /\ Below(s[3], w.dcs) /\ Below(s[4], w.leafGroups)
        /\ Below(g, w.torGroups)
    BY SeatIs, HostNumbers DEF WanSeat
  <2>4. Below(2 * (k - 1), w.tors)
    <3>1. k \in Nat /\ k >= 1 /\ k <= m /\ m \in Nat /\ 2 * m <= w.tors + 1 /\ w.tors \in Nat
      BY <1>2 DEF Positive
    <3> QED BY ONLY <3>1 DEF Below
  <2>5. /\ n[1] = "TOR" /\ n[2] = s[2] /\ n[3] = s[3] /\ n[4] = s[4] /\ n[5] = g
        /\ n[6] = 2 * (k - 1)
    BY <2>2
  <2>6. WanSeat(w, n)
    BY <2>3, <2>4, <2>5, SeatIs DEF WanSeat
  <2>7. WanLink(w, s, e)
    <3>1. W!TorLeafWired(w, n, s, v)
      <4>1. v < b
        BY <1>2, <2>1, SMTT(30) DEF Positive
      <4>2. \A y \in 2 .. 4 : n[y] = s[y]
        BY <2>5
      <4> QED BY <4>1, <4>2 DEF W!TorLeafWired
    <3>2. Wiring(w, n, s, v) /\ s # n
      BY <2>5, <3>1 DEF Wiring
    <3> QED BY <2>1, <2>6, <3>2, WanLinkIs
  <2>8. WanDown(w, s, n, dst)
    <3>1. Tier(n) = Tier(s) - 1
      BY <2>5, TierIs
    <3>2. WanCovers(w, n, dst)
      BY <2>5 DEF WanCovers, W!IsDstTorGroup, W!IsDstLeafGroup, W!IsDstDc, W!IsDstRegion
    <3> QED BY <3>1, <3>2 DEF WanDown
  <2> QED BY <2>7, <2>8
<1> QED BY <1>1, <1>3, <1>4

LEMMA SpineDownIs ==
  ASSUME NEW w, WanPositive(w), NEW s, WanSeat(w, s), s[1] = "SPINE", NEW dst \in Servers(w),
         WanCovers(w, s, dst), NEW h, h = W!SpineDown(w, s, dst), NEW l, l = h.links
  PROVE  /\ ~ h.shared /\ IsList(l)
         /\ \A i \in 1 .. Len(l) : WanLink(w, s, l[i]) /\ WanDown(w, s, l[i].to, dst)
<1> PICK g, q, r : g = W!LeafGroupOf(w, dst) /\ q = s[4] \div w.spines /\ r = s[4] % w.spines
  OBVIOUS
<1> PICK f, b, m : f = <<<<"LEAF", s[2], s[3], g, q>>>> /\ b = w.bundle[3] /\ m = 1
  OBVIOUS
<1>0. IsTuple(f, m) /\ \A k \in 1 .. m : f[k] = <<"LEAF", s[2], s[3], g, q>>
  BY DEF IsTuple
<1>1. l = W!LinksTo(s, f, b) /\ ~ h.shared
  BY DEF W!SpineDown, W!Down, W!Hops
<1>2. Positive(m) /\ Positive(b) /\ Positive(w.spines) /\ Positive(w.leafs)
  BY DEF WanPositive, Positive
<1>3. /\ IsList(l)
      /\ \A i \in 1 .. Len(l) :
           l[i] = Link(s, l[i].to, l[i].bundle)
           /\ (\E k \in 1 .. m : l[i].to = f[k]) /\ l[i].bundle \in 0 .. b - 1
  BY ONLY <1>0, <1>1, <1>2, LinksHave
<1>4. /\ Below(s[2], w.regions) /\ Below(s[3], w.dcs) /\ Below(s[4], W!SpinesPerDc(w))
      /\ Below(g, w.leafGroups)
  BY SeatIs, HostNumbers DEF WanSeat
<1>5. Below(q, w.leafs) /\ Below(r, w.spines) /\ s[4] = q * w.spines + r
  <2> PICK x, z, c : x = s[4] /\ z = w.leafs * w.spines /\ c = w.spines
    OBVIOUS
  <2>1. Positive(z)
    BY <1>2, Product
  <2>2. x \in Nat /\ x < z
    BY <1>4, <2>1 DEF Below, W!SpinesPerDc, Positive
  <2>3. Splits(x, c, q, r) /\ q <= w.leafs - 1
    BY <1>2, <2>2, DigitIs
  <2>4. q \in Nat /\ r \in Nat /\ r <= c - 1 /\ x = c * q + r /\ c \in Nat
    BY <2>3 DEF Splits
  <2>5. c * q = q * c
    BY ONLY <2>4
  <2> QED BY <1>2, <2>3, <2>4, <2>5, SMTT(30) DEF Below, Positive
<1>6. ASSUME NEW i \in 1 .. Len(l)
      PROVE  WanLink(w, s, l[i]) /\ WanDown(w, s, l[i].to, dst)
  <2> PICK e, n, v : e = l[i] /\ n = e.to /\ v = e.bundle
    OBVIOUS
  <2>1. e = Link(s, n, v) /\ n = <<"LEAF", s[2], s[3], g, q>> /\ v \in 0 .. b - 1
    BY <1>0, <1>3
  <2>2. n[1] = "LEAF" /\ n[2] = s[2] /\ n[3] = s[3] /\ n[4] = g /\ n[5] = q
    BY <2>1, SMTT(30)
  <2>3. WanSeat(w, n)
    BY <1>4, <1>5, <2>2, SeatIs DEF WanSeat
  <2>4. WanLink(w, s, e)
    <3>1. W!LeafSpineWired(w, n, s, v)
      <4>1. v < b
        BY <1>2, <2>1 DEF Positive
      <4>2. \A y \in 2 .. 3 : n[y] = s[y]
        BY <2>2
      <4>3. r \in 0 .. w.spines - 1 /\ s[4] = n[5] * w.spines + r
        BY <1>5, <2>2 DEF Below
      <4> QED BY <4>1, <4>2, <4>3 DEF W!LeafSpineWired
    <3>2. Wiring(w, n, s, v) /\ s # n
      BY <2>2, <3>1 DEF Wiring
    <3> QED BY <2>1, <2>3, <3>2, WanLinkIs
  <2>5. WanDown(w, s, n, dst)
    <3>1. Tier(n) = Tier(s) - 1
      BY <2>2, TierIs
    <3>2. WanCovers(w, n, dst)
      BY <2>2 DEF WanCovers, W!IsDstLeafGroup, W!IsDstDc, W!IsDstRegion
    <3> QED BY <3>1, <3>2 DEF WanDown
  <2> QED BY <2>4, <2>5
<1> QED BY <1>1, <1>3, <1>6

(* The spines below a region hub of batch c, the first N of them: u[n] are   *)
(* those below n.                                                            *)
SpinesBelow(w, c, N, u) ==
  u = [n \in 0 .. N |->
         IF n = 0 THEN <<>>
         ELSE IF W!RHBatchOfSpine(w, n - 1) = c THEN Append(u[n - 1], n - 1)
         ELSE u[n - 1]]

(* Every region hub has spines below it in each data centre.                 *)
LEMMA SpinesBelowExist ==
  ASSUME NEW w, NEW c, NEW N \in Nat
  PROVE  \E u : SpinesBelow(w, c, N, u)
<1> DEFINE Bad == {n \in Nat : ~ \E u : SpinesBelow(w, c, n, u)}
<1> SUFFICES ASSUME Bad # {} PROVE FALSE
  OBVIOUS
<1>1. PICK p \in Bad : \A q \in Bad : p <= q
  <2> PICK S : S = Bad
    OBVIOUS
  <2>1. S \in SUBSET Nat /\ S # {}
    OBVIOUS
  <2>2. \E p \in S : \A q \in S : p <= q
    BY ONLY <2>1, LeastExists
  <2> QED BY <2>2
<1>2. p \in Nat /\ ~ \E u : SpinesBelow(w, c, p, u)
  OBVIOUS
<1>3. p # 0
  <2> SUFFICES ASSUME p = 0 PROVE FALSE
    OBVIOUS
  <2> PICK u : u = [n \in 0 .. 0 |-> <<>>]
    OBVIOUS
  <2>1. SpinesBelow(w, c, 0, u)
    BY DEF SpinesBelow
  <2> QED BY <1>2, <2>1
<1>4. PICK u : SpinesBelow(w, c, p - 1, u)
  <2>1. p - 1 \in Nat /\ ~ (p <= p - 1)
    BY <1>2, <1>3
  <2>2. p - 1 \notin Bad
    <3> HIDE DEF Bad
    <3> QED BY <1>1, <2>1
  <2> QED BY <2>1, <2>2
<1> PICK x : x = IF W!RHBatchOfSpine(w, p - 1) = c THEN Append(u[p - 1], p - 1) ELSE u[p - 1]
  OBVIOUS
<1> PICK v : v = [n \in 0 .. p |-> IF n = p THEN x ELSE u[n]]
  OBVIOUS
<1>5. \A n \in 0 .. p - 1 :
        u[n] = IF n = 0 THEN <<>>
               ELSE IF W!RHBatchOfSpine(w, n - 1) = c THEN Append(u[n - 1], n - 1)
               ELSE u[n - 1]
  BY <1>4 DEF SpinesBelow
<1>6. \A n \in 0 .. p - 1 : v[n] = u[n]
  BY <1>2
<1>7. v[p] = x
  BY <1>2
<1>8. \A n \in 0 .. p :
        v[n] = IF n = 0 THEN <<>>
               ELSE IF W!RHBatchOfSpine(w, n - 1) = c THEN Append(v[n - 1], n - 1)
               ELSE v[n - 1]
  <2> TAKE n \in 0 .. p
  <2>1. CASE n = p
    <3>1. p - 1 \in 0 .. p - 1
      BY <1>2, <1>3
    <3>2. v[p - 1] = u[p - 1]
      BY <1>6, <3>1
    <3> QED BY <1>3, <1>7, <2>1, <3>2
  <2>2. CASE n # p
    <3>1. n \in 0 .. p - 1 /\ (n # 0 => n - 1 \in 0 .. p - 1)
      BY <1>2, <2>2
    <3> QED BY <1>5, <1>6, <3>1
  <2> QED BY <2>1, <2>2
<1>9. SpinesBelow(w, c, p, v)
  <2>1. v = [n \in 0 .. p |-> v[n]]
    OBVIOUS
  <2> QED BY <1>8, <2>1 DEF SpinesBelow
<1> QED BY <1>2, <1>9

OfBatch(w, c, N) == {x \in 0 .. N - 1 : W!RHBatchOfSpine(w, x) = c}

(* They are spines of the batch; when there is one the list is not empty.    *)
LEMMA SpinesBelowAre ==
  ASSUME NEW w, NEW c, NEW N \in Nat, NEW u, SpinesBelow(w, c, N, u),
         NEW S, S = OfBatch(w, c, N)
  PROVE  u[N] \in Seq(S) /\ (S # {} => Len(u[N]) >= 1)
<1>0. S = {x \in 0 .. N - 1 : W!RHBatchOfSpine(w, x) = c}
  BY DEF OfBatch
<1> DEFINE Fine(n) == u[n] \in Seq(S) /\ \A x \in S : x < n => Len(u[n]) >= 1
           Bad == {n \in 0 .. N : ~ Fine(n)}
<1>1. \A n \in 0 .. N :
        u[n] = IF n = 0 THEN <<>>
               ELSE IF W!RHBatchOfSpine(w, n - 1) = c THEN Append(u[n - 1], n - 1)
               ELSE u[n - 1]
  BY DEF SpinesBelow
<1>2. Bad = {}
  <2> SUFFICES ASSUME Bad # {} PROVE FALSE
    OBVIOUS
  <2>1. PICK p \in Bad : \A q \in Bad : p <= q
    <3> PICK T : T = Bad
      OBVIOUS
    <3>1. T \in SUBSET Nat /\ T # {}
      OBVIOUS
    <3>2. \E p \in T : \A q \in T : p <= q
      BY ONLY <3>1, LeastExists
    <3> QED BY <3>2
  <2>2. p \in 0 .. N /\ ~ Fine(p)
    OBVIOUS
  <2>3. p # 0
    <3>1. u[0] = <<>> /\ <<>> \in Seq(S)
      BY <1>1
    <3>2. \A x \in S : ~ (x < 0)
      BY <1>0
    <3>3. Fine(0)
      BY <3>1, <3>2
    <3> QED BY <2>2, <3>3
  <2> PICK q : q = p - 1
    OBVIOUS
  <2>4. q \in 0 .. N /\ ~ (p <= q) /\ p = q + 1
    BY <2>2, <2>3
  <2>5. Fine(q)
    <3>1. q \notin Bad
      <4> HIDE DEF Bad
      <4> QED BY <2>1, <2>4
    <3> QED BY <2>4, <3>1
  <2>6. u[p] = IF W!RHBatchOfSpine(w, q) = c THEN Append(u[q], q) ELSE u[q]
    BY <1>1, <2>2, <2>3
  <2>7. q \in S <=> W!RHBatchOfSpine(w, q) = c
    BY <1>0, <2>2, <2>4
  <2> PICK y : y = u[q]
    OBVIOUS
  <2>8. y \in Seq(S) /\ \A x \in S : x < q => Len(y) >= 1
    BY <2>5
  <2>9. CASE q \in S
    <3>1. u[p] = Append(y, q)
      BY <2>6, <2>7, <2>9
    <3>2. Append(y, q) \in Seq(S) /\ Len(Append(y, q)) = Len(y) + 1 /\ Len(y) \in Nat
      BY ONLY <2>8, <2>9
    <3>3. Len(u[p]) >= 1
      BY <3>1, <3>2
    <3> QED BY <2>2, <3>1, <3>2, <3>3
  <2>10. CASE q \notin S
    <3>1. u[p] = y
      BY <2>6, <2>7, <2>10
    <3>2. \A x \in S : x < p => x < q
      BY <1>0, <2>4, <2>10
    <3> QED BY <2>2, <2>8, <3>1, <3>2
  <2> QED BY <2>9, <2>10
<1>3. Fine(N)
  <2> SUFFICES ASSUME ~ Fine(N) PROVE FALSE
    OBVIOUS
  <2>1. N \in 0 .. N
    OBVIOUS
  <2> HIDE DEF Fine
  <2>2. N \in Bad
    BY <2>1
  <2> QED BY <1>2, <2>2
<1>4. \A x \in S : x < N
  BY <1>0
<1> QED BY <1>3, <1>4

(* Every region hub has a spine below it. *)
LEMMA HubHasSpine ==
  ASSUME NEW w, WanPositive(w), NEW c, Below(c, w.rhBatches)
  PROVE  \E x : Below(x, W!SpinesPerDc(w)) /\ W!RHBatchOfSpine(w, x) = c
<1> PICK n, m : n = w.spines /\ m = w.leafs
  OBVIOUS
<1>1. /\ n \in Nat /\ n >= 1 /\ Positive(n) /\ Positive(m) /\ m \in Nat
      /\ c \in Nat /\ c <= w.rhBatches - 1 /\ w.rhBatches \in Nat /\ w.rhBatches <= m
  BY DEF WanPositive, Positive, Below
<1> PICK x : x = c * n
  OBVIOUS
<1>2. Splits(x, n, c, 0)
  <2>1. c * n = n * c
    BY ONLY <1>1
  <2>2. n * c \in Nat
    BY ONLY <1>1
  <2> QED BY <1>1, <2>1, <2>2 DEF Splits
<1>3. x \in Nat /\ x \div n = c
  BY <1>2, DivModIs
<1>4. Below(x, W!SpinesPerDc(w))
  <2>1. Below(c, m) /\ Below(0, n) /\ x = c * n + 0 /\ W!SpinesPerDc(w) = m * n
    BY <1>1, <1>3 DEF Below, W!SpinesPerDc
  <2>2. \A r, z : r = 0 /\ z = m * n => Below(x, z)
    <3> TAKE r, z
    <3> HAVE r = 0 /\ z = m * n
    <3>1. Below(r, n) /\ x = c * n + r
      BY <2>1
    <3> QED BY <1>1, <2>1, <3>1, GroupNumber
  <2> QED BY <2>1, <2>2
<1>5. c % w.rhBatches = c
  <2> PICK k : k = w.rhBatches
    OBVIOUS
  <2>1. Splits(c, k, 0, c)
    BY <1>1 DEF Splits
  <2>2. c % k = c
    BY <2>1, DivModIs
  <2> QED BY <2>2
<1> QED BY <1>3, <1>4, <1>5 DEF W!RHBatchOfSpine

LEMMA SpineUpIs ==
  ASSUME NEW w, WanPositive(w), NEW s, WanSeat(w, s), s[1] = "SPINE",
         NEW h, h = W!SpineUp(w, s), NEW l, l = h.links
  PROVE  /\ h.shared /\ IsList(l)
         /\ \A i \in 1 .. Len(l) : WanLink(w, s, l[i]) /\ WanUp(w, s, l[i].to)
<1> PICK f, b, m, c, t : /\ c = W!RHBatchOfSpine(w, s[4]) /\ t = w.rhSwitches
                         /\ m = w.rhGroups * t
                         /\ f = [k \in 1 .. m |-> <<"RH", s[2], (k - 1) \div t, c, (k - 1) % t>>]
                         /\ b = w.bundle[4]
  OBVIOUS
<1>0. IsTuple(f, m)
  BY DEF IsTuple
<1>1. l = W!LinksTo(s, f, b) /\ h.shared
  BY DEF W!SpineUp, W!Up, W!Hops
<1>2. /\ Positive(m) /\ Positive(b) /\ Positive(t) /\ Positive(w.rhGroups)
      /\ Positive(w.rhBatches) /\ Positive(w.spines)
  BY Product DEF WanPositive
<1>3. /\ IsList(l)
      /\ \A i \in 1 .. Len(l) :
           l[i] = Link(s, l[i].to, l[i].bundle)
           /\ (\E k \in 1 .. m : l[i].to = f[k]) /\ l[i].bundle \in 0 .. b - 1
  BY ONLY <1>0, <1>1, <1>2, LinksHave
<1>4. Below(s[2], w.regions) /\ Below(s[4], W!SpinesPerDc(w))
  BY SeatIs DEF WanSeat
<1>5. Below(c, w.rhBatches)
  <2> PICK x, y, z : x = s[4] /\ y = x \div w.spines /\ z = w.rhBatches
    OBVIOUS
  <2>1. x \in Nat
    BY <1>4 DEF Below
  <2>2. y \in Nat
    BY <1>2, <2>1, DivMod DEF Positive
  <2>3. c = y % z
    BY DEF W!RHBatchOfSpine
  <2>4. c \in Nat /\ c <= z - 1
    <3>1. z \in Nat /\ z >= 1
      BY <1>2 DEF Positive
    <3> QED BY ONLY <2>2, <2>3, <3>1, DivMod
  <2> QED BY <1>2, <2>4 DEF Below, Positive
<1>6. ASSUME NEW i \in 1 .. Len(l)
      PROVE  WanLink(w, s, l[i]) /\ WanUp(w, s, l[i].to)
  <2> PICK e, n, v : e = l[i] /\ n = e.to /\ v = e.bundle
    OBVIOUS
  <2>1. e = Link(s, n, v) /\ (\E k \in 1 .. m : n = f[k]) /\ v \in 0 .. b - 1
    BY <1>3
  <2>2. PICK k \in 1 .. m : n = <<"RH", s[2], (k - 1) \div t, c, (k - 1) % t>>
    BY <2>1
  <2> PICK j, q, r : j = k - 1 /\ q = j \div t /\ r = j % t
    OBVIOUS
  <2>3. n[1] = "RH" /\ n[2] = s[2] /\ n[3] = q /\ n[4] = c /\ n[5] = r
    BY <2>2
  <2>4. Below(q, w.rhGroups) /\ Below(r, t)
    <3>1. j \in Nat /\ j < m
      BY <1>2 DEF Positive
    <3>2. Splits(j, t, q, r) /\ q <= w.rhGroups - 1
      BY <1>2, <3>1, DigitIs
    <3> QED BY <1>2, <3>2 DEF Splits, Below, Positive
  <2>5. WanSeat(w, n)
    BY <1>4, <1>5, <2>3, <2>4, SeatIs DEF WanSeat
  <2>6. WanLink(w, s, e)
    <3>1. v < b
      <4>1. b \in Nat
        BY <1>2 DEF Positive
      <4> QED BY ONLY <2>1, <4>1
    <3>2. W!SpineRHWired(w, s, n, v)
      BY <2>3, <3>1 DEF W!SpineRHWired
    <3>3. Wiring(w, s, n, v) /\ s # n
      BY <2>3, <3>2 DEF Wiring
    <3> QED BY <2>1, <2>5, <3>3, WanLinkIs
  <2>7. WanUp(w, s, n)
    <3>1. Tier(n) = Tier(s) + 1
      BY <2>3, TierIs
    <3>2. \A y : WanCovers(w, s, y) => WanCovers(w, n, y)
      BY <2>3 DEF WanCovers, W!IsDstRegion
    <3> QED BY <3>1, <3>2 DEF WanUp
  <2> QED BY <2>6, <2>7
<1> QED BY <1>1, <1>3, <1>6

LEMMA RHDownIs ==
  ASSUME NEW w, WanPositive(w), NEW s, WanSeat(w, s), s[1] = "RH", NEW dst \in Servers(w),
         WanCovers(w, s, dst), NEW h, h = W!RHDown(w, s, dst), NEW l, l = h.links
  PROVE  /\ ~ h.shared /\ IsList(l)
         /\ \A i \in 1 .. Len(l) : WanLink(w, s, l[i]) /\ WanDown(w, s, l[i].to, dst)
<1> PICK N, c, d : N = W!SpinesPerDc(w) /\ c = s[4] /\ d = W!DcOf(w, dst)
  OBVIOUS
<1>1. /\ Below(s[2], w.regions) /\ Below(c, w.rhBatches) /\ Below(d, w.dcs)
  BY SeatIs, HostNumbers DEF WanSeat
<1>2. Positive(N) /\ Positive(w.bundle[4])
  BY Product DEF WanPositive, W!SpinesPerDc
<1>3. N \in Nat
  BY <1>2 DEF Positive
<1> DEFINE below ==
             CHOOSE u : u = [n \in 0 .. W!SpinesPerDc(w) |->
                               IF n = 0 THEN <<>>
                               ELSE IF W!RHBatchOfSpine(w, n - 1) = s[4]
                                    THEN Append(u[n - 1], n - 1)
                               ELSE u[n - 1]]
           nodes(q) == [k \in 1 .. Len(q) |-> <<"SPINE", s[2], W!DcOf(w, dst), q[k]>>]
<1>a. h = W!Down(W!LinksTo(s, nodes(below[W!SpinesPerDc(w)]), w.bundle[4]))
  BY DEF W!RHDown
<1>b. below = CHOOSE u : SpinesBelow(w, s[4], W!SpinesPerDc(w), u)
  BY DEF SpinesBelow
<1> HIDE DEF below
<1>4. SpinesBelow(w, c, N, below)
  <2>1. \E u : SpinesBelow(w, c, N, u)
    BY <1>3, SpinesBelowExist
  <2> QED BY <1>b, <2>1
<1> PICK mine, m : mine = below[N] /\ m = Len(mine)
  OBVIOUS
<1> PICK f, b : f = nodes(mine) /\ b = w.bundle[4]
  OBVIOUS
<1>5. l = W!LinksTo(s, f, b) /\ ~ h.shared
  <2> HIDE DEF nodes
  <2>1. h = W!Down(W!LinksTo(s, f, b))
    BY <1>a
  <2> QED BY <2>1 DEF W!Down, W!Hops
<1>c. f = [k \in 1 .. m |-> <<"SPINE", s[2], d, mine[k]>>]
  OBVIOUS
<1> HIDE DEF nodes
<1> PICK S : S = OfBatch(w, c, N)
  OBVIOUS
<1>6. mine \in Seq(S) /\ (S # {} => m >= 1)
  <2> PICK u : u = below
    OBVIOUS
  <2>1. SpinesBelow(w, c, N, u)
    BY <1>4
  <2>2. u[N] \in Seq(S) /\ (S # {} => Len(u[N]) >= 1)
    BY <1>3, <2>1, SpinesBelowAre
  <2> QED BY <2>2
<1>7. S # {}
  BY <1>1, HubHasSpine DEF Below, OfBatch
<1>8. Positive(m) /\ Positive(b) /\ IsTuple(f, m)
  <2>1. m \in Nat
    BY <1>6
  <2>2. IsTuple(f, m)
    BY <1>c DEF IsTuple
  <2> QED BY <1>2, <1>6, <1>7, <2>1, <2>2 DEF Positive
<1>9. /\ IsList(l)
      /\ \A i \in 1 .. Len(l) :
           l[i] = Link(s, l[i].to, l[i].bundle)
           /\ (\E k \in 1 .. m : l[i].to = f[k]) /\ l[i].bundle \in 0 .. b - 1
  BY ONLY <1>5, <1>8, LinksHave
<1>10. ASSUME NEW i \in 1 .. Len(l)
       PROVE  WanLink(w, s, l[i]) /\ WanDown(w, s, l[i].to, dst)
  <2> PICK e, n, v : e = l[i] /\ n = e.to /\ v = e.bundle
    OBVIOUS
  <2>1. e = Link(s, n, v) /\ (\E k \in 1 .. m : n = f[k]) /\ v \in 0 .. b - 1
    BY <1>9
  <2>2. PICK k \in 1 .. m : n = <<"SPINE", s[2], d, mine[k]>>
    BY <1>c, <2>1
  <2> PICK x : x = mine[k]
    OBVIOUS
  <2>3. x \in S
    BY <1>6
  <2>4. Below(x, N) /\ W!RHBatchOfSpine(w, x) = c
    BY <2>3 DEF Below, OfBatch
  <2>5. n[1] = "SPINE" /\ n[2] = s[2] /\ n[3] = d /\ n[4] = x
    BY <2>2
  <2>6. WanSeat(w, n)
    BY <1>1, <2>4, <2>5, SeatIs DEF WanSeat
  <2>7. WanLink(w, s, e)
    <3>1. v < b
      BY <1>8, <2>1 DEF Positive
    <3>2. W!SpineRHWired(w, n, s, v)
      BY <2>4, <2>5, <3>1 DEF W!SpineRHWired
    <3>3. Wiring(w, n, s, v) /\ s # n
      BY <2>5, <3>2 DEF Wiring
    <3> QED BY <2>1, <2>6, <3>3, WanLinkIs
  <2>8. WanDown(w, s, n, dst)
    <3>1. Tier(n) = Tier(s) - 1
      BY <2>5, TierIs
    <3>2. WanCovers(w, n, dst)
      BY <2>5 DEF WanCovers, W!IsDstDc, W!IsDstRegion
    <3> QED BY <3>1, <3>2 DEF WanDown
  <2> QED BY <2>7, <2>8
<1> QED BY <1>5, <1>9, <1>10

LEMMA RHUpIs ==
  ASSUME NEW w, WanPositive(w), NEW s, WanSeat(w, s), s[1] = "RH",
         NEW h, h = W!RHUp(w, s), NEW l, l = h.links
  PROVE  /\ h.shared /\ IsList(l)
         /\ \A i \in 1 .. Len(l) : WanLink(w, s, l[i]) /\ WanUp(w, s, l[i].to)
<1> PICK f, b, m : /\ m = w.rwaSwitches /\ b = w.linksRhRwa
                   /\ f = [k \in 1 .. m |-> <<"RWA", s[2], s[3], k - 1>>]
  OBVIOUS
<1>0. IsTuple(f, m)
  BY DEF IsTuple
<1>1. l = W!LinksTo(s, f, b) /\ h.shared
  BY DEF W!RHUp, W!Up, W!Hops
<1>2. Positive(m) /\ Positive(b)
  BY DEF WanPositive
<1>3. /\ IsList(l)
      /\ \A i \in 1 .. Len(l) :
           l[i] = Link(s, l[i].to, l[i].bundle)
           /\ (\E k \in 1 .. m : l[i].to = f[k]) /\ l[i].bundle \in 0 .. b - 1
  BY ONLY <1>0, <1>1, <1>2, LinksHave
<1>4. ASSUME NEW i \in 1 .. Len(l)
      PROVE  WanLink(w, s, l[i]) /\ WanUp(w, s, l[i].to)
  <2> PICK e, n, v : e = l[i] /\ n = e.to /\ v = e.bundle
    OBVIOUS
  <2>1. e = Link(s, n, v) /\ (\E k \in 1 .. m : n = f[k]) /\ v \in 0 .. b - 1
    BY <1>3
  <2>2. PICK k \in 1 .. m : n = <<"RWA", s[2], s[3], k - 1>>
    BY <2>1
  <2>3. n[1] = "RWA" /\ n[2] = s[2] /\ n[3] = s[3] /\ n[4] = k - 1
    BY <2>2
  <2>4. Below(s[2], w.regions) /\ Below(s[3], w.rhGroups) /\ Below(k - 1, m)
    BY <1>2, SeatIs DEF WanSeat, Below, Positive
  <2>5. WanSeat(w, n)
    BY <2>3, <2>4, SeatIs DEF WanSeat
  <2>6. WanLink(w, s, e)
    <3>1. v < b
      BY <1>2, <2>1 DEF Positive
    <3>2. \A y \in 2 .. 3 : s[y] = n[y]
      BY <2>3
    <3>3. Wiring(w, s, n, v) /\ s # n
      BY <2>3, <3>1, <3>2 DEF Wiring, W!RHRWAWired
    <3> QED BY <2>1, <2>5, <3>3, WanLinkIs
  <2>7. WanUp(w, s, n)
    <3>1. Tier(n) = Tier(s) + 1
      BY <2>3, TierIs
    <3>2. \A y : WanCovers(w, s, y) => WanCovers(w, n, y)
      BY <2>3 DEF WanCovers, W!IsDstRegion
    <3> QED BY <3>1, <3>2 DEF WanUp
  <2> QED BY <2>6, <2>7
<1> QED BY <1>1, <1>3, <1>4

LEMMA RWADownIs ==
  ASSUME NEW w, WanPositive(w), NEW s, WanSeat(w, s), s[1] = "RWA", NEW dst \in Servers(w),
         WanCovers(w, s, dst),
         NEW h, h = W!RWADown(w, s), NEW l, l = h.links
  PROVE  /\ ~ h.shared /\ IsList(l)
         /\ \A i \in 1 .. Len(l) : WanLink(w, s, l[i]) /\ WanDown(w, s, l[i].to, dst)
<1> PICK m, b, t : t = w.rhSwitches /\ m = w.rhBatches * t /\ b = w.linksRhRwa
  OBVIOUS
<1> PICK f : f = [k \in 1 .. m |-> <<"RH", s[2], s[3], (k - 1) \div t, (k - 1) % t>>]
  OBVIOUS
<1>0. IsTuple(f, m)
  BY DEF IsTuple
<1>1. l = W!LinksTo(s, f, b) /\ ~ h.shared
  BY DEF W!RWADown, W!Down, W!Hops
<1>2. Positive(m) /\ Positive(b) /\ Positive(t) /\ Positive(w.rhBatches)
  BY Product DEF WanPositive, Positive
<1>3. /\ IsList(l)
      /\ \A i \in 1 .. Len(l) :
           l[i] = Link(s, l[i].to, l[i].bundle)
           /\ (\E k \in 1 .. m : l[i].to = f[k]) /\ l[i].bundle \in 0 .. b - 1
  BY ONLY <1>0, <1>1, <1>2, LinksHave
<1>4. ASSUME NEW i \in 1 .. Len(l)
      PROVE  WanLink(w, s, l[i]) /\ WanDown(w, s, l[i].to, dst)
  <2> PICK e, n, v : e = l[i] /\ n = e.to /\ v = e.bundle
    OBVIOUS
  <2>1. e = Link(s, n, v) /\ (\E k \in 1 .. m : n = f[k]) /\ v \in 0 .. b - 1
    BY <1>3
  <2>2. PICK k \in 1 .. m : n = <<"RH", s[2], s[3], (k - 1) \div t, (k - 1) % t>>
    BY <2>1
  <2> PICK j, q, r : j = k - 1 /\ q = j \div t /\ r = j % t
    OBVIOUS
  <2>3. n[1] = "RH" /\ n[2] = s[2] /\ n[3] = s[3] /\ n[4] = q /\ n[5] = r
    BY <2>2
  <2>4. /\ Below(s[2], w.regions) /\ Below(s[3], w.rhGroups) /\ Below(q, w.rhBatches)
        /\ Below(r, t)
    <3>1. j \in Nat /\ j < m
      BY <1>2, SMTT(30) DEF Positive
    <3>2. Splits(j, t, q, r) /\ q <= w.rhBatches - 1
      BY <1>2, <3>1, DigitIs
    <3>3. Below(q, w.rhBatches) /\ Below(r, t)
      BY <1>2, <3>2 DEF Splits, Below, Positive
    <3> QED BY <3>3, SeatIs DEF WanSeat
  <2>5. WanSeat(w, n)
    BY <2>3, <2>4, SeatIs DEF WanSeat
  <2>6. WanLink(w, s, e)
    <3>1. v < b
      <4>1. b \in Nat
        BY <1>2 DEF Positive
      <4> QED BY ONLY <2>1, <4>1
    <3>2. \A y \in 2 .. 3 : s[y] = n[y] /\ n[y] = s[y]
      BY <2>3, SMTT(30)
    <3>3. Wiring(w, n, s, v) /\ s # n
      BY <2>3, <3>1, <3>2 DEF Wiring, W!RHRWAWired
    <3> QED BY <2>1, <2>5, <3>3, WanLinkIs
  <2>7. WanDown(w, s, n, dst)
    <3>1. Tier(n) = Tier(s) - 1
      BY <2>3, TierIs
    <3>2. WanCovers(w, n, dst)
      BY <2>3 DEF WanCovers, W!IsDstRegion
    <3> QED BY <3>1, <3>2 DEF WanDown
  <2> QED BY <2>6, <2>7
<1> QED BY <1>1, <1>3, <1>4

LEMMA RWAUpIs ==
  ASSUME NEW w, WanPositive(w), NEW s, WanSeat(w, s), s[1] = "RWA",
         NEW h, h = W!RWAUp(w, s), NEW l, l = h.links
  PROVE  /\ h.shared /\ IsList(l)
         /\ \A i \in 1 .. Len(l) : WanLink(w, s, l[i]) /\ WanUp(w, s, l[i].to)
<1> PICK f, b, m : /\ m = w.owrSwitches /\ b = w.linksRwaOwr
                   /\ f = [k \in 1 .. m |-> <<"OWR", s[2], s[3], k - 1>>]
  OBVIOUS
<1>0. IsTuple(f, m)
  BY DEF IsTuple
<1>1. l = W!LinksTo(s, f, b) /\ h.shared
  BY DEF W!RWAUp, W!Up, W!Hops
<1>2. Positive(m) /\ Positive(b)
  BY Product DEF WanPositive, Positive
<1>3. /\ IsList(l)
      /\ \A i \in 1 .. Len(l) :
           l[i] = Link(s, l[i].to, l[i].bundle)
           /\ (\E k \in 1 .. m : l[i].to = f[k]) /\ l[i].bundle \in 0 .. b - 1
  BY ONLY <1>0, <1>1, <1>2, LinksHave
<1>4. ASSUME NEW i \in 1 .. Len(l)
      PROVE  WanLink(w, s, l[i]) /\ WanUp(w, s, l[i].to)
  <2> PICK e, n, v : e = l[i] /\ n = e.to /\ v = e.bundle
    OBVIOUS
  <2>1. e = Link(s, n, v) /\ (\E k \in 1 .. m : n = f[k]) /\ v \in 0 .. b - 1
    BY <1>3
  <2>2. PICK k \in 1 .. m : n = <<"OWR", s[2], s[3], k - 1>>
    BY <2>1
  <2>3. n[1] = "OWR" /\ n[2] = s[2] /\ n[3] = s[3] /\ n[4] = k - 1
    BY <2>2
  <2>4. Below(s[2], w.regions) /\ Below(s[3], w.rhGroups) /\ Below(k - 1, m)
    BY <1>2, SeatIs DEF WanSeat, Below, Positive
  <2>5. WanSeat(w, n)
    BY <2>3, <2>4, SeatIs DEF WanSeat
  <2>6. WanLink(w, s, e)
    <3>1. v < b
      <4>1. b \in Nat
        BY <1>2 DEF Positive
      <4> QED BY ONLY <2>1, <4>1
    <3>2. \A y \in 2 .. 3 : s[y] = n[y] /\ n[y] = s[y]
      BY <2>3
    <3>3. Wiring(w, s, n, v) /\ s # n
      BY <2>3, <3>1, <3>2 DEF Wiring, W!RWAOWRWired
    <3> QED BY <2>1, <2>5, <3>3, WanLinkIs
  <2>7. WanUp(w, s, n)
    <3>1. Tier(n) = Tier(s) + 1
      BY <2>3, TierIs
    <3>2. \A y : WanCovers(w, s, y) => WanCovers(w, n, y)
      BY <2>3 DEF WanCovers, W!IsDstRegion
    <3> QED BY <3>1, <3>2 DEF WanUp
  <2> QED BY <2>6, <2>7
<1> QED BY <1>1, <1>3, <1>4

LEMMA OWRDownIs ==
  ASSUME NEW w, WanPositive(w), NEW s, WanSeat(w, s), s[1] = "OWR", NEW dst \in Servers(w),
         WanCovers(w, s, dst),
         NEW h, h = W!OWRDown(w, s), NEW l, l = h.links
  PROVE  /\ ~ h.shared /\ IsList(l)
         /\ \A i \in 1 .. Len(l) : WanLink(w, s, l[i]) /\ WanDown(w, s, l[i].to, dst)
<1> PICK f, b, m : /\ m = w.rwaSwitches /\ b = w.linksRwaOwr
                   /\ f = [k \in 1 .. m |-> <<"RWA", s[2], s[3], k - 1>>]
  OBVIOUS
<1>0. IsTuple(f, m)
  BY DEF IsTuple
<1>1. l = W!LinksTo(s, f, b) /\ ~ h.shared
  BY DEF W!OWRDown, W!Down, W!Hops
<1>2. Positive(m) /\ Positive(b)
  BY Product DEF WanPositive, Positive
<1>3. /\ IsList(l)
      /\ \A i \in 1 .. Len(l) :
           l[i] = Link(s, l[i].to, l[i].bundle)
           /\ (\E k \in 1 .. m : l[i].to = f[k]) /\ l[i].bundle \in 0 .. b - 1
  BY ONLY <1>0, <1>1, <1>2, LinksHave
<1>4. ASSUME NEW i \in 1 .. Len(l)
      PROVE  WanLink(w, s, l[i]) /\ WanDown(w, s, l[i].to, dst)
  <2> PICK e, n, v : e = l[i] /\ n = e.to /\ v = e.bundle
    OBVIOUS
  <2>1. e = Link(s, n, v) /\ (\E k \in 1 .. m : n = f[k]) /\ v \in 0 .. b - 1
    BY <1>3
  <2>2. PICK k \in 1 .. m : n = <<"RWA", s[2], s[3], k - 1>>
    BY <2>1
  <2>3. n[1] = "RWA" /\ n[2] = s[2] /\ n[3] = s[3] /\ n[4] = k - 1
    BY <2>2
  <2>4. Below(s[2], w.regions) /\ Below(s[3], w.rhGroups) /\ Below(k - 1, m)
    BY <1>2, SeatIs DEF WanSeat, Below, Positive
  <2>5. WanSeat(w, n)
    BY <2>3, <2>4, SeatIs DEF WanSeat
  <2>6. WanLink(w, s, e)
    <3>1. v < b
      <4>1. b \in Nat
        BY <1>2 DEF Positive
      <4> QED BY ONLY <2>1, <4>1
    <3>2. \A y \in 2 .. 3 : s[y] = n[y] /\ n[y] = s[y]
      BY <2>3
    <3>3. Wiring(w, n, s, v) /\ s # n
      BY <2>3, <3>1, <3>2 DEF Wiring, W!RWAOWRWired
    <3> QED BY <2>1, <2>5, <3>3, WanLinkIs
  <2>7. WanDown(w, s, n, dst)
    <3>1. Tier(n) = Tier(s) - 1
      BY <2>3, TierIs
    <3>2. WanCovers(w, n, dst)
      BY <2>3 DEF WanCovers, W!IsDstRegion
    <3> QED BY <3>1, <3>2 DEF WanDown
  <2> QED BY <2>6, <2>7
<1> QED BY <1>1, <1>3, <1>4

LEMMA OWRUpIs ==
  ASSUME NEW w, WanPositive(w), NEW s, WanSeat(w, s), s[1] = "OWR", NEW dst \in Servers(w),
         ~ WanCovers(w, s, dst),
         NEW h, h = W!OWRUp(w, s, dst), NEW l, l = h.links
  PROVE  /\ h.shared /\ IsList(l)
         /\ \A i \in 1 .. Len(l) : WanLink(w, s, l[i]) /\ WanOver(w, s, l[i].to, dst)
<1> PICK f, b, m, g : /\ g = W!RegionOf(w, dst) /\ m = 1 /\ b = w.linksRegional
                      /\ f = <<<<"OWR", g, s[3], s[4]>>>>
  OBVIOUS
<1>0. IsTuple(f, m) /\ \A k \in 1 .. m : f[k] = <<"OWR", g, s[3], s[4]>>
  BY DEF IsTuple
<1>1. l = W!LinksTo(s, f, b) /\ h.shared
  BY DEF W!OWRUp, W!Up, W!Hops
<1>2. Positive(m) /\ Positive(b)
  BY Product DEF WanPositive, Positive
<1>3. /\ IsList(l)
      /\ \A i \in 1 .. Len(l) :
           l[i] = Link(s, l[i].to, l[i].bundle)
           /\ (\E k \in 1 .. m : l[i].to = f[k]) /\ l[i].bundle \in 0 .. b - 1
  BY ONLY <1>0, <1>1, <1>2, LinksHave
<1>4. ASSUME NEW i \in 1 .. Len(l)
      PROVE  WanLink(w, s, l[i]) /\ WanOver(w, s, l[i].to, dst)
  <2> PICK e, n, v : e = l[i] /\ n = e.to /\ v = e.bundle
    OBVIOUS
  <2>1. e = Link(s, n, v) /\ (\E k \in 1 .. m : n = f[k]) /\ v \in 0 .. b - 1
    BY <1>3
  <2>2. n = <<"OWR", g, s[3], s[4]>>
    BY <1>0, <2>1
  <2>3. n[1] = "OWR" /\ n[2] = g /\ n[3] = s[3] /\ n[4] = s[4]
    BY <2>2
  <2>4. /\ Below(g, w.regions) /\ Below(s[3], w.rhGroups) /\ Below(s[4], w.owrSwitches)
        /\ s[2] # g
    BY SeatIs, HostNumbers DEF WanSeat, WanCovers, W!IsDstRegion
  <2>5. WanSeat(w, n)
    BY <2>3, <2>4, SeatIs DEF WanSeat
  <2>6. WanLink(w, s, e)
    <3>1. v < b
      <4>1. b \in Nat
        BY <1>2 DEF Positive
      <4> QED BY ONLY <2>1, <4>1
    <3>2. \A y \in 3 .. 4 : s[y] = n[y] /\ n[y] = s[y]
      BY <2>3
    <3>3. Wiring(w, s, n, v) /\ s # n
      BY <2>4, <2>3, <3>1, <3>2 DEF Wiring, W!OWROWRWired
    <3> QED BY <2>1, <2>5, <3>3, WanLinkIs
  <2>7. WanOver(w, s, n, dst)
    <3>1. Tier(n) = 6 /\ Tier(s) = 6
      BY <2>3, TierIs
    <3>2. WanCovers(w, n, dst)
      BY <2>3 DEF WanCovers, W!IsDstRegion
    <3> QED BY <3>1, <3>2 DEF WanOver
  <2> QED BY <2>6, <2>7
<1> QED BY <1>1, <1>3, <1>4

(* What the table of a switch is made from: a ToR and a switch that is not   *)
(* above the destination share one list of links upwards, or to the region   *)
(* of the destination; the others have links downwards.                      *)
WanStep(w, s, n, dst) ==
  IF s[1] # "TOR" /\ WanCovers(w, s, dst) THEN WanDown(w, s, n, dst)
  ELSE IF s[1] = "OWR" THEN WanOver(w, s, n, dst) ELSE WanUp(w, s, n)

LEMMA WanHopsAre ==
  ASSUME NEW w, WanPositive(w), NEW s, WanSeat(w, s), NEW dst \in Servers(w),
         NEW h, h = W!WanHops(w, s, dst), NEW l, l = h.links
  PROVE  /\ IsList(l) /\ (s[1] = "TOR" => Apart(l))
         /\ h.shared <=> s[1] = "TOR" \/ ~ WanCovers(w, s, dst)
         /\ \A i \in 1 .. Len(l) : WanLink(w, s, l[i]) /\ WanStep(w, s, l[i].to, dst)
<1>1. CASE s[1] = "TOR"
  <2>1. h = W!ToRUp(w, s)
    BY <1>1 DEF W!WanHops
  <2>2. /\ h.shared /\ IsList(l) /\ Apart(l)
        /\ \A i \in 1 .. Len(l) : WanLink(w, s, l[i]) /\ WanUp(w, s, l[i].to)
    BY <1>1, <2>1, ToRUpIs
  <2> QED BY <1>1, <2>2 DEF WanStep
<1>2. ASSUME s[1] # "TOR", WanCovers(w, s, dst), IsList(l), ~ h.shared,
             \A i \in 1 .. Len(l) : WanLink(w, s, l[i]) /\ WanDown(w, s, l[i].to, dst)
      PROVE  /\ h.shared <=> s[1] = "TOR" \/ ~ WanCovers(w, s, dst)
             /\ \A i \in 1 .. Len(l) : WanLink(w, s, l[i]) /\ WanStep(w, s, l[i].to, dst)
  BY <1>2 DEF WanStep
<1>3. ASSUME s[1] \notin {"TOR", "OWR"}, ~ WanCovers(w, s, dst), IsList(l), h.shared,
             \A i \in 1 .. Len(l) : WanLink(w, s, l[i]) /\ WanUp(w, s, l[i].to)
      PROVE  /\ h.shared <=> s[1] = "TOR" \/ ~ WanCovers(w, s, dst)
             /\ \A i \in 1 .. Len(l) : WanLink(w, s, l[i]) /\ WanStep(w, s, l[i].to, dst)
  BY <1>3 DEF WanStep
<1>4. CASE s[1] = "LEAF"
  <2>1. WanCovers(w, s, dst) <=> W!IsDstLeafGroup(w, s, dst)
    BY <1>4 DEF WanCovers, W!IsDstLeafGroup, W!IsDstDc, W!IsDstRegion
  <2>2. CASE WanCovers(w, s, dst)
    <3>1. h = W!LeafDown(w, s, dst)
      BY <1>4, <2>1, <2>2 DEF W!WanHops
    <3>2. /\ ~ h.shared /\ IsList(l)
          /\ \A i \in 1 .. Len(l) : WanLink(w, s, l[i]) /\ WanDown(w, s, l[i].to, dst)
      BY <1>4, <2>2, <3>1, LeafDownIs
    <3> QED BY <1>2, <1>4, <2>2, <3>2
  <2>3. CASE ~ WanCovers(w, s, dst)
    <3>1. h = W!LeafUp(w, s)
      BY <1>4, <2>1, <2>3 DEF W!WanHops
    <3>2. /\ h.shared /\ IsList(l)
          /\ \A i \in 1 .. Len(l) : WanLink(w, s, l[i]) /\ WanUp(w, s, l[i].to)
      BY <1>4, <3>1, LeafUpIs
    <3> QED BY <1>3, <1>4, <2>3, <3>2
  <2> QED BY <2>2, <2>3
<1>5. CASE s[1] = "SPINE"
  <2>1. WanCovers(w, s, dst) <=> W!IsDstDc(w, s, dst)
    BY <1>5 DEF WanCovers, W!IsDstLeafGroup, W!IsDstDc, W!IsDstRegion
  <2>2. CASE WanCovers(w, s, dst)
    <3>1. h = W!SpineDown(w, s, dst)
      BY <1>5, <2>1, <2>2 DEF W!WanHops
    <3>2. /\ ~ h.shared /\ IsList(l)
          /\ \A i \in 1 .. Len(l) : WanLink(w, s, l[i]) /\ WanDown(w, s, l[i].to, dst)
      BY <1>5, <2>2, <3>1, SpineDownIs
    <3> QED BY <1>2, <1>5, <2>2, <3>2
  <2>3. CASE ~ WanCovers(w, s, dst)
    <3>1. h = W!SpineUp(w, s)
      BY <1>5, <2>1, <2>3 DEF W!WanHops
    <3>2. /\ h.shared /\ IsList(l)
          /\ \A i \in 1 .. Len(l) : WanLink(w, s, l[i]) /\ WanUp(w, s, l[i].to)
      BY <1>5, <3>1, SpineUpIs
    <3> QED BY <1>3, <1>5, <2>3, <3>2
  <2> QED BY <2>2, <2>3
<1>6. CASE s[1] = "RH"
  <2>1. WanCovers(w, s, dst) <=> W!IsDstRegion(w, s, dst)
    BY <1>6 DEF WanCovers, W!IsDstLeafGroup, W!IsDstDc, W!IsDstRegion
  <2>2. CASE WanCovers(w, s, dst)
    <3>1. h = W!RHDown(w, s, dst)
      BY <1>6, <2>1, <2>2 DEF W!WanHops
    <3>2. /\ ~ h.shared /\ IsList(l)
          /\ \A i \in 1 .. Len(l) : WanLink(w, s, l[i]) /\ WanDown(w, s, l[i].to, dst)
      BY <1>6, <2>2, <3>1, RHDownIs
    <3> QED BY <1>2, <1>6, <2>2, <3>2
  <2>3. CASE ~ WanCovers(w, s, dst)
    <3>1. h = W!RHUp(w, s)
      BY <1>6, <2>1, <2>3 DEF W!WanHops
    <3>2. /\ h.shared /\ IsList(l)
          /\ \A i \in 1 .. Len(l) : WanLink(w, s, l[i]) /\ WanUp(w, s, l[i].to)
      BY <1>6, <3>1, RHUpIs
    <3> QED BY <1>3, <1>6, <2>3, <3>2
  <2> QED BY <2>2, <2>3
<1>7. CASE s[1] = "RWA"
  <2>1. WanCovers(w, s, dst) <=> W!IsDstRegion(w, s, dst)
    BY <1>7 DEF WanCovers, W!IsDstLeafGroup, W!IsDstDc, W!IsDstRegion
  <2>2. CASE WanCovers(w, s, dst)
    <3>1. h = W!RWADown(w, s)
      BY <1>7, <2>1, <2>2 DEF W!WanHops
    <3>2. /\ ~ h.shared /\ IsList(l)
          /\ \A i \in 1 .. Len(l) : WanLink(w, s, l[i]) /\ WanDown(w, s, l[i].to, dst)
      BY <1>7, <2>2, <3>1, RWADownIs
    <3> QED BY <1>2, <1>7, <2>2, <3>2
  <2>3. CASE ~ WanCovers(w, s, dst)
    <3>1. h = W!RWAUp(w, s)
      BY <1>7, <2>1, <2>3 DEF W!WanHops
    <3>2. /\ h.shared /\ IsList(l)
          /\ \A i \in 1 .. Len(l) : WanLink(w, s, l[i]) /\ WanUp(w, s, l[i].to)
      BY <1>7, <3>1, RWAUpIs
    <3> QED BY <1>3, <1>7, <2>3, <3>2
  <2> QED BY <2>2, <2>3
<1>8. CASE s[1] = "OWR"
  <2>1. WanCovers(w, s, dst) <=> W!IsDstRegion(w, s, dst)
    BY <1>8 DEF WanCovers, W!IsDstLeafGroup, W!IsDstDc, W!IsDstRegion
  <2>2. CASE WanCovers(w, s, dst)
    <3>1. h = W!OWRDown(w, s)
      BY <1>8, <2>1, <2>2 DEF W!WanHops
    <3>2. /\ ~ h.shared /\ IsList(l)
          /\ \A i \in 1 .. Len(l) : WanLink(w, s, l[i]) /\ WanDown(w, s, l[i].to, dst)
      BY <1>8, <2>2, <3>1, OWRDownIs
    <3> QED BY <1>2, <1>8, <2>2, <3>2
  <2>3. CASE ~ WanCovers(w, s, dst)
    <3>1. h = W!OWRUp(w, s, dst)
      BY <1>8, <2>1, <2>3 DEF W!WanHops
    <3>2. /\ h.shared /\ IsList(l)
          /\ \A i \in 1 .. Len(l) : WanLink(w, s, l[i]) /\ WanOver(w, s, l[i].to, dst)
      BY <1>8, <2>3, <3>1, OWRUpIs
    <3> QED BY <1>8, <2>3, <3>2 DEF WanStep
  <2> QED BY <2>2, <2>3
<1> QED
  <2>1. s[1] \in {"TOR", "LEAF", "SPINE", "RH", "RWA", "OWR"}
    BY DEF WanSeat, W!WanExists
  <2> QED BY <1>1, <1>4, <1>5, <1>6, <1>7, <1>8, <2>1

-----------------------------------------------------------------------------
(* The lists of a tree *)

(* The switches of a tree *)
TreePlace(t, s) ==
  \/ \E i \in 0 .. t.tors - 1 : s = Tor(i)
  \/ \E i \in 0 .. t.aggs - 1 : s = Agg(i)
  \/ t.tiers = 3 /\ \E i \in 0 .. t.aggs - 1 : s \in UpperCores(t, i)

(* The link e leads from the switch s of a tree on the way to the host dst. *)
TreeStep(t, s, e, dst) ==
  \/ /\ s[1] = "TOR"
     /\ \E a \in PodAggs(t, s[2] \div t.torsPerPod), v \in 0 .. t.bundle[2] - 1 :
          e = Link(s, Agg(a), v)
  \/ /\ s[1] = "AGG" /\ (t.tiers = 2 \/ HOST_POD(t, dst) = AGG_SWITCH_POD_ID(t, s[2]))
     /\ \E v \in 0 .. t.bundle[2] - 1 : e = Link(s, Tor(HOST_POD_SWITCH(t, dst)), v)
  \/ /\ s[1] = "AGG" /\ t.tiers = 3 /\ HOST_POD(t, dst) # AGG_SWITCH_POD_ID(t, s[2])
     /\ \E n \in UpperCores(t, s[2]), v \in 0 .. t.bundle[3] - 1 : e = Link(s, n, v)
  \/ /\ s[1] = "CORE" /\ t.tiers = 3
     /\ \E v \in 0 .. t.bundle[3] - 1 :
          e = Link(s, Agg(MIN_POD_AGG_SWITCH(t, HOST_POD(t, dst)) + (s[2] % t.aggsPerPod)), v)

(* The number of a core switch above an aggregation switch                   *)
LEMMA CoreNumber ==
  ASSUME NEW t, Sound(t), t.tiers = 3, NEW i \in 0 .. t.aggs - 1, NEW s \in UpperCores(t, i)
  PROVE  /\ s[1] = "CORE" /\ s[2] \in Nat /\ s = Core(s[2])
         /\ i % t.aggsPerPod \in 0 .. t.aggsPerPod - 1
         /\ s[2] % t.aggsPerPod = i % t.aggsPerPod
<1> PICK k \in 0 .. (t.up[2] \div t.bundle[3]) - 1 :
      s = Core((i % t.aggsPerPod) + t.aggsPerPod * k)
  BY DEF UpperCores
<1> PICK a, r, x : a = t.aggsPerPod /\ r = i % a /\ x = r + a * k
  OBVIOUS
<1>1. i \in Nat /\ a \in Nat /\ a >= 1 /\ k \in Nat
  BY DEF Sound, Positive
<1>2. r \in Nat /\ r <= a - 1
  BY <1>1, DivMod
<1>3. x = a * k + r /\ a * k \in Nat
  BY ONLY <1>1, <1>2, x = r + a * k
<1>4. Splits(x, a, k, r)
  BY <1>1, <1>2, <1>3 DEF Splits
<1>5. x \in Nat /\ x % a = r
  BY <1>4, DivModIs
<1>6. s = Core(x)
  OBVIOUS
<1> QED BY <1>1, <1>2, <1>5, <1>6 DEF Core

(* The kinds and numbers of the switches of a tree                           *)
LEMMA PlaceIs ==
  ASSUME NEW t, Sound(t), NEW s, TreePlace(t, s)
  PROVE  /\ s[1] \in {"TOR", "AGG", "CORE"} /\ s[2] \in Nat
         /\ s[1] = "TOR" => s = Tor(s[2]) /\ s[2] \in 0 .. t.tors - 1
         /\ s[1] = "AGG" => s = Agg(s[2]) /\ s[2] \in 0 .. t.aggs - 1
         /\ s[1] = "CORE" => t.tiers = 3 /\ \E i \in 0 .. t.aggs - 1 : s \in UpperCores(t, i)
<1>1. CASE \E i \in 0 .. t.tors - 1 : s = Tor(i)
  BY <1>1 DEF Tor
<1>2. CASE \E i \in 0 .. t.aggs - 1 : s = Agg(i)
  BY <1>2 DEF Agg
<1>3. CASE t.tiers = 3 /\ \E i \in 0 .. t.aggs - 1 : s \in UpperCores(t, i)
  BY <1>3, CoreNumber
<1> QED BY <1>1, <1>2, <1>3 DEF TreePlace

(* The lists of a switch of a tree *)
LEMMA TreeListsAre ==
  ASSUME NEW t, Sound(t), NEW s, TreePlace(t, s), NEW dst \in 0 .. t.nodes - 1,
         NEW h, h = TreeHops(t, s, dst), NEW l, l = h.links
  PROVE  /\ IsList(l) /\ (s[1] = "TOR" => Apart(l))
         /\ h.shared <=> s[1] = "TOR"
         /\ \A i \in 1 .. Len(l) : TreeStep(t, s, l[i], dst)
<1>1. s[1] \in {"TOR", "AGG", "CORE"} /\ s[2] \in Nat /\ (s[1] = "CORE" => t.tiers = 3)
  BY PlaceIs
<1>2. ASSUME NEW S, NEW b, LinksInto(l, s, S, b)
      PROVE  IsList(l) /\ \A i \in 1 .. Len(l) : \E n \in S, v \in 0 .. b - 1 : l[i] = Link(s, n, v)
  BY <1>2 DEF LinksInto, IsList
<1>3. CASE s[1] = "TOR"
  <2> PICK S : S = {Agg(a) : a \in PodAggs(t, s[2] \div t.torsPerPod)}
    OBVIOUS
  <2>1. h = TorUp(t, s)
    BY <1>3, TreeHopsAre
  <2>2. h.shared /\ Apart(l) /\ LinksInto(l, s, S, t.bundle[2])
    BY <1>1, <2>1, TorUpIs
  <2>3. IsList(l) /\ \A i \in 1 .. Len(l) :
          \E n \in S, v \in 0 .. t.bundle[2] - 1 : l[i] = Link(s, n, v)
    BY <1>2, <2>2
  <2>4. \A n \in S : \E a \in PodAggs(t, s[2] \div t.torsPerPod) : n = Agg(a)
    OBVIOUS
  <2>5. \A i \in 1 .. Len(l) : TreeStep(t, s, l[i], dst)
    BY <1>3, <2>3, <2>4 DEF TreeStep
  <2> QED BY <1>3, <2>2, <2>3, <2>5
<1>4. CASE s[1] = "AGG" /\ (t.tiers = 2 \/ HOST_POD(t, dst) = AGG_SWITCH_POD_ID(t, s[2]))
  <2> PICK n : n = Tor(HOST_POD_SWITCH(t, dst))
    OBVIOUS
  <2>1. h = AggDown(t, s, dst)
    BY <1>4, TreeHopsAre
  <2>2. LinksInto(l, s, {n}, t.bundle[2]) /\ ~ h.shared
    BY <2>1, AggDownIs DEF AggDown, Hops
  <2>3. IsList(l) /\ \A i \in 1 .. Len(l) : \E v \in 0 .. t.bundle[2] - 1 : l[i] = Link(s, n, v)
    BY <1>2, <2>2
  <2>4. \A i \in 1 .. Len(l) : TreeStep(t, s, l[i], dst)
    BY <1>4, <2>3 DEF TreeStep
  <2> QED BY <1>4, <2>2, <2>3, <2>4
<1>5. CASE s[1] = "AGG" /\ ~ (t.tiers = 2 \/ HOST_POD(t, dst) = AGG_SWITCH_POD_ID(t, s[2]))
  <2> PICK S : S = UpperCores(t, s[2])
    OBVIOUS
  <2>1. h = AggUp(t, s) /\ t.tiers = 3
    BY <1>5, TreeHopsAre DEF Sound
  <2>2. LinksInto(l, s, S, t.bundle[3]) /\ ~ h.shared
    BY <1>1, <2>1, AggUpIs DEF AggUp, Hops
  <2>3. IsList(l) /\ \A i \in 1 .. Len(l) :
          \E n \in S, v \in 0 .. t.bundle[3] - 1 : l[i] = Link(s, n, v)
    BY <1>2, <2>2
  <2>4. \A i \in 1 .. Len(l) : TreeStep(t, s, l[i], dst)
    BY <1>5, <2>1, <2>3 DEF TreeStep
  <2> QED BY <1>5, <2>2, <2>3, <2>4
<1>6. CASE s[1] = "CORE"
  <2> PICK n : n = Agg(MIN_POD_AGG_SWITCH(t, HOST_POD(t, dst)) + (s[2] % t.aggsPerPod))
    OBVIOUS
  <2>1. h = CoreDown(t, s, dst) /\ t.tiers = 3
    BY <1>1, <1>6, TreeHopsAre
  <2>2. LinksInto(l, s, {n}, t.bundle[3])
    BY <2>1, CoreDownIs
  <2>a. ~ h.shared
    BY <2>1 DEF CoreDown, Hops
  <2>3. IsList(l) /\ \A i \in 1 .. Len(l) : \E v \in 0 .. t.bundle[3] - 1 : l[i] = Link(s, n, v)
    BY <1>2, <2>2
  <2>4. \A i \in 1 .. Len(l) : TreeStep(t, s, l[i], dst)
    BY <1>6, <2>1, <2>3 DEF TreeStep
  <2> QED BY <1>6, <2>a, <2>3, <2>4
<1> QED BY <1>1, <1>3, <1>4, <1>5, <1>6

(* How the numbers of a sound tree fit. *)
LEMMA HostSwitch ==
  ASSUME NEW t, Sound(t), NEW h \in 0 .. t.nodes - 1
  PROVE  /\ HOST_POD_SWITCH(t, h) \in 0 .. t.tors - 1
         /\ HOST_POD(t, h) \in Nat
         /\ t.tiers = 3 => /\ HOST_POD(t, h) \in 0 .. t.pods - 1
                           /\ HOST_POD_SWITCH(t, h) \div t.torsPerPod = HOST_POD(t, h)
         /\ t.tiers = 2 => HOST_POD(t, h) = 0
<1> PICK n, m, d : n = t.nodes /\ m = t.tors /\ d = t.down[1]
  OBVIOUS
<1>1. Positive(n) /\ Positive(m) /\ Positive(d) /\ n = m * d
  BY DEF Sound
<1>2. h \in Nat /\ h < n
  BY <1>1 DEF Positive
<1>3. h \div d \in 0 .. m - 1
  <2>1. h \div d \in Nat /\ h \div d <= m - 1
    BY <1>1, <1>2, DivLess DEF Positive
  <2> QED BY <1>1, <2>1 DEF Positive
<1>4. CASE t.tiers = 3
  <2> PICK p, a, b : p = t.pods /\ a = t.hostsPerPod /\ b = t.torsPerPod
    OBVIOUS
  <2>1. Positive(p) /\ Positive(a) /\ Positive(b) /\ n = p * a /\ a = d * b
    BY <1>4 DEF Sound
  <2>2. h \div a \in 0 .. p - 1
    <3>1. h \div a \in Nat /\ h \div a <= p - 1
      BY <1>2, <2>1, DivLess DEF Positive
    <3> QED BY <2>1, <3>1 DEF Positive
  <2>3. (h \div d) \div b = h \div a
    BY <1>1, <1>2, <2>1, DivTwice DEF Positive
  <2> QED BY <1>3, <1>4, <2>2, <2>3 DEF HOST_POD_SWITCH, HOST_POD
<1>5. CASE t.tiers = 2
  BY <1>3, <1>5 DEF HOST_POD_SWITCH, HOST_POD
<1> QED BY <1>4, <1>5 DEF Sound

(* The pods of the ToRs and of the aggregation switches, and back            *)
LEMMA PodOfTor ==
  ASSUME NEW t, Sound(t), NEW i \in 0 .. t.tors - 1
  PROVE  i \div t.torsPerPod \in Nat /\ (t.tiers = 3 => i \div t.torsPerPod \in 0 .. t.pods - 1)
<1> PICK n, b : n = t.tors /\ b = t.torsPerPod
  OBVIOUS
<1>1. Positive(n) /\ Positive(b) /\ i \in Nat /\ i < n
  BY DEF Sound, Positive
<1>2. i \div b \in Nat
  BY <1>1, DivMod DEF Positive
<1>3. CASE t.tiers = 3
  <2> PICK p : p = t.pods
    OBVIOUS
  <2>1. Positive(p) /\ n = p * b
    BY <1>3 DEF Sound
  <2>2. i \div b <= p - 1
    BY <1>1, <2>1, DivLess DEF Positive
  <2> QED BY <1>2, <2>1, <2>2 DEF Positive
<1> QED BY <1>2, <1>3

LEMMA PodOfAgg ==
  ASSUME NEW t, Sound(t), NEW i \in 0 .. t.aggs - 1, t.tiers = 3,
         NEW pod, pod = AGG_SWITCH_POD_ID(t, i)
  PROVE  pod \in Nat /\ i \in PodAggs(t, pod)
<1> PICK b, r, q : b = t.aggsPerPod /\ r = i % b /\ q = MIN_POD_AGG_SWITCH(t, pod)
  OBVIOUS
<1>1. Positive(b) /\ i \in Nat /\ pod = i \div b
  BY DEF Sound, Positive, AGG_SWITCH_POD_ID
<1>2. pod \in Nat /\ r \in Nat /\ r <= b - 1 /\ i = b * pod + r /\ b \in Nat
  BY <1>1, DivMod, ZenonT(30) DEF Positive
<1>3. q \in Nat /\ b * pod = q
  <2>1. q = pod * b
    BY DEF MIN_POD_AGG_SWITCH
  <2> QED BY ONLY <1>2, <2>1
<1>4. PodAggs(t, pod) = q .. q + b - 1
  <2>1. /\ q = IF t.tiers = 3 THEN MIN_POD_AGG_SWITCH(t, pod) ELSE 0
        /\ b = IF t.tiers = 3 THEN t.aggsPerPod ELSE t.aggs
    OBVIOUS
  <2>2. pod \in Nat
    BY <1>2
  <2> QED BY ONLY Sound(t), <2>1, <2>2, PodAggsAre
<1>5. i = q + r
  BY <1>2, <1>3
<1> QED BY ONLY <1>2, <1>3, <1>4, <1>5

LEMMA AggOfPod ==
  ASSUME NEW t, Sound(t), NEW pod \in Nat, t.tiers = 3 => pod \in 0 .. t.pods - 1,
         NEW r \in 0 .. t.aggsPerPod - 1, t.tiers = 3,
         NEW a, a = MIN_POD_AGG_SWITCH(t, pod) + r
  PROVE  /\ a \in 0 .. t.aggs - 1 /\ AGG_SWITCH_POD_ID(t, a) = pod /\ a % t.aggsPerPod = r
<1> PICK b, p : b = t.aggsPerPod /\ p = t.pods
  OBVIOUS
<1>1. Positive(b) /\ Positive(p) /\ t.aggs = p * b /\ Below(pod, p) /\ Below(r, b)
      /\ r \in Nat /\ r <= b - 1 /\ b \in Nat /\ b >= 1
  BY DEF Sound, Below, Positive
<1>2. a = pod * b + r
  BY DEF MIN_POD_AGG_SWITCH
<1>3. Below(a, t.aggs)
  BY <1>1, <1>2, GroupNumber
<1>4. Splits(a, b, pod, r)
  <2>1. pod * b = b * pod
    BY ONLY <1>1, pod \in Nat
  <2> QED BY <1>1, <1>2, <2>1 DEF Splits
<1>5. a \div b = pod /\ a % b = r
  BY <1>4, DivModIs
<1> QED BY <1>3, <1>5 DEF Below, AGG_SWITCH_POD_ID

LEMMA AggAbovePod ==
  ASSUME NEW t, Sound(t), NEW pod \in Nat, t.tiers = 3 => pod \in 0 .. t.pods - 1,
         NEW a \in PodAggs(t, pod)
  PROVE  /\ a \in 0 .. t.aggs - 1 /\ (t.tiers = 3 => AGG_SWITCH_POD_ID(t, a) = pod)
<1>1. CASE t.tiers = 3
  <2> PICK b, q : b = t.aggsPerPod /\ q = MIN_POD_AGG_SWITCH(t, pod)
    OBVIOUS
  <2>1. q \in Nat /\ Positive(b) /\ PodAggs(t, pod) = q .. q + b - 1
    BY <1>1, PodAggsAre, SMTT(30)
  <2> PICK r : r = a - q
    OBVIOUS
  <2>2. r \in 0 .. b - 1 /\ a = q + r
    BY <2>1 DEF Positive
  <2> QED BY <1>1, <2>2, AggOfPod
<1>2. CASE t.tiers = 2
  BY <1>2 DEF PodAggs
<1> QED BY <1>1, <1>2 DEF Sound

-----------------------------------------------------------------------------
(* Steps in a tree *)

(* The hosts below a switch of a tree *)
TreeCovers(t, s, h) ==
  /\ s[1] = "TOR" => HOST_POD_SWITCH(t, h) = s[2]
  /\ s[1] = "AGG" => t.tiers = 2 \/ HOST_POD(t, h) = AGG_SWITCH_POD_ID(t, s[2])

(* A link of a tree between switches, the lower one first *)
TreePair(t, a, b, v) ==
  \/ a[1] = "HOST" /\ b[1] = "TOR" /\ HostWired(t, a[2], b[2], v)
  \/ a[1] = "TOR" /\ b[1] = "AGG" /\ TorAggWired(t, a[2], b[2], v)
  \/ a[1] = "AGG" /\ b[1] = "CORE" /\ AggCoreWired(t, a[2], b[2], v)

(* The wiring of a tree works in both directions.                            *)
LEMMA TreeWiredIs ==
  ASSUME NEW t, NEW s, NEW n, NEW v, NEW e, e = Link(s, n, v),
         TreePair(t, s, n, v) \/ TreePair(t, n, s, v)
  PROVE  TreeWired(t, e)
<1>1. e.from = s /\ e.to = n /\ e.bundle = v
  BY DEF Link
<1>2. ASSUME NEW a, NEW b, TreePair(t, a, b, v), <<a, b>> \in {<<e.from, e.to>>, <<e.to, e.from>>}
      PROVE  TreeWired(t, e)
  <2> PICK ends : ends = <<a, b>>
    OBVIOUS
  <2>1. ends[1] = a /\ ends[2] = b /\ ends \in {<<e.from, e.to>>, <<e.to, e.from>>}
    BY <1>2
  <2>2. LET lo == ends[1]
            hi == ends[2]
        IN  CASE <<lo[1], hi[1]>> = <<"HOST", "TOR">> -> HostWired(t, lo[2], hi[2], e.bundle)
              [] <<lo[1], hi[1]>> = <<"TOR", "AGG">>  -> TorAggWired(t, lo[2], hi[2], e.bundle)
              [] <<lo[1], hi[1]>> = <<"AGG", "CORE">> -> AggCoreWired(t, lo[2], hi[2], e.bundle)
              [] OTHER -> FALSE
    BY <1>1, <1>2, <2>1 DEF TreePair
  <2> QED BY <2>1, <2>2 DEF TreeWired
<1>3. CASE TreePair(t, s, n, v)
  BY <1>1, <1>2, <1>3
<1>4. CASE TreePair(t, n, s, v)
  BY <1>1, <1>2, <1>4
<1> QED BY <1>3, <1>4

(* A step from a switch of a tree goes over a link that exists to a switch   *)
(* above all the hosts so far, or to one below that has the destination.     *)
TreeUp(t, s, n) ==
  /\ Tier(n) = Tier(s) + 1
  /\ \A h \in 0 .. t.nodes - 1 : TreeCovers(t, s, h) => TreeCovers(t, n, h)
TreeDown(t, s, n, dst) == Tier(n) = Tier(s) - 1 /\ TreeCovers(t, n, dst)

(* Every step is up over a link that exists, or down towards the destination. *)
LEMMA TreeStepIs ==
  ASSUME NEW t, Sound(t), NEW s, TreePlace(t, s), NEW dst \in 0 .. t.nodes - 1,
         NEW e, TreeStep(t, s, e, dst), NEW n, n = e.to
  PROVE  /\ e = Link(s, n, e.bundle) /\ TreePlace(t, n) /\ TreeWired(t, e)
         /\ IF s[1] = "TOR" \/ ~ TreeCovers(t, s, dst) THEN TreeUp(t, s, n)
            ELSE TreeDown(t, s, n, dst)
<1> PICK v : v = e.bundle
  OBVIOUS
<1>1. \A x, y : e = Link(s, x, y) => x = n /\ y = v
  BY DEF Link
<1>2. /\ s[1] \in {"TOR", "AGG", "CORE"} /\ s[2] \in Nat
      /\ s[1] = "TOR" => s = Tor(s[2]) /\ s[2] \in 0 .. t.tors - 1
      /\ s[1] = "AGG" => s = Agg(s[2]) /\ s[2] \in 0 .. t.aggs - 1
      /\ s[1] = "CORE" => t.tiers = 3 /\ \E i \in 0 .. t.aggs - 1 : s \in UpperCores(t, i)
  BY PlaceIs
<1>3. /\ HOST_POD_SWITCH(t, dst) \in 0 .. t.tors - 1
      /\ HOST_POD(t, dst) \in Nat
      /\ t.tiers = 3 => /\ HOST_POD(t, dst) \in 0 .. t.pods - 1
                        /\ HOST_POD_SWITCH(t, dst) \div t.torsPerPod = HOST_POD(t, dst)
  BY HostSwitch
<1>4. t.tiers \in {2, 3}
  BY DEF Sound
<1>5. CASE s[1] = "TOR"
  <2> PICK i, pod : i = s[2] /\ pod = i \div t.torsPerPod
    OBVIOUS
  <2>1. PICK a \in PodAggs(t, pod), w \in 0 .. t.bundle[2] - 1 : e = Link(s, Agg(a), w)
    BY <1>5 DEF TreeStep
  <2>2. n = Agg(a) /\ v = w
    BY <1>1, <2>1
  <2>3. s = Tor(i) /\ i \in 0 .. t.tors - 1
    BY <1>2, <1>5
  <2>4. pod \in Nat /\ (t.tiers = 3 => pod \in 0 .. t.pods - 1)
    BY <2>3, PodOfTor
  <2>5. a \in 0 .. t.aggs - 1 /\ (t.tiers = 3 => AGG_SWITCH_POD_ID(t, a) = pod)
    BY <2>4, AggAbovePod
  <2>6. n[1] = "AGG" /\ n[2] = a
    BY <2>2 DEF Agg
  <2>7. TreePlace(t, n)
    BY <2>2, <2>5 DEF TreePlace
  <2>8. TorAggWired(t, i, a, v)
    BY <2>1, <2>2, <2>3 DEF TorAggWired, PodAggs
  <2>9. TreeWired(t, e)
    <3>1. TreePair(t, s, n, v)
      BY <1>5, <2>6, <2>8 DEF TreePair
    <3> QED BY <2>1, <2>2, <3>1, TreeWiredIs
  <2>10. TreeUp(t, s, n)
    <3>1. Tier(n) = Tier(s) + 1
      BY <1>5, <2>6, TierIs
    <3>2. ASSUME NEW h \in 0 .. t.nodes - 1, TreeCovers(t, s, h) PROVE TreeCovers(t, n, h)
      <4>1. HOST_POD_SWITCH(t, h) = i
        BY <1>5, <3>2 DEF TreeCovers
      <4>2. t.tiers = 3 => HOST_POD(t, h) = pod
        BY <4>1, HostSwitch
      <4> QED BY <1>4, <2>5, <2>6, <4>2 DEF TreeCovers
    <3> QED BY <3>1, <3>2 DEF TreeUp
  <2> QED BY <1>5, <2>1, <2>2, <2>7, <2>9, <2>10
<1>6. CASE s[1] = "AGG" /\ (t.tiers = 2 \/ HOST_POD(t, dst) = AGG_SWITCH_POD_ID(t, s[2]))
  <2> PICK i, x : i = s[2] /\ x = HOST_POD_SWITCH(t, dst)
    OBVIOUS
  <2>1. PICK w \in 0 .. t.bundle[2] - 1 : e = Link(s, Tor(x), w)
    BY <1>4, <1>6 DEF TreeStep
  <2>2. n = Tor(x) /\ v = w
    BY <1>1, <2>1
  <2>3. s = Agg(i) /\ i \in 0 .. t.aggs - 1 /\ x \in 0 .. t.tors - 1
    BY <1>2, <1>3, <1>6
  <2>4. n[1] = "TOR" /\ n[2] = x
    BY <2>2 DEF Tor
  <2>5. TreePlace(t, n)
    BY <2>2, <2>3 DEF TreePlace
  <2>6. t.tiers = 3 => i \in PodAggs(t, x \div t.torsPerPod)
    BY <1>3, <1>6, <2>3, PodOfAgg
  <2>7. TorAggWired(t, x, i, v)
    BY <1>4, <2>1, <2>2, <2>3, <2>6 DEF TorAggWired, PodAggs
  <2>8. TreeWired(t, e)
    <3>1. TreePair(t, n, s, v)
      BY <1>6, <2>4, <2>7 DEF TreePair
    <3> QED BY <2>1, <2>2, <3>1, TreeWiredIs
  <2>9. TreeCovers(t, s, dst)
    BY <1>6 DEF TreeCovers
  <2>10. TreeDown(t, s, n, dst)
    <3>1. Tier(n) = Tier(s) - 1
      BY <1>6, <2>4, TierIs
    <3>2. TreeCovers(t, n, dst)
      BY <2>4 DEF TreeCovers
    <3> QED BY <3>1, <3>2 DEF TreeDown
  <2> QED BY <1>6, <2>1, <2>2, <2>5, <2>8, <2>9, <2>10
<1>7. CASE s[1] = "AGG" /\ ~ (t.tiers = 2 \/ HOST_POD(t, dst) = AGG_SWITCH_POD_ID(t, s[2]))
  <2> PICK i : i = s[2]
    OBVIOUS
  <2>1. PICK x \in UpperCores(t, i), w \in 0 .. t.bundle[3] - 1 : e = Link(s, x, w)
    BY <1>7 DEF TreeStep
  <2>2. n = x /\ v = w
    BY <1>1, <2>1
  <2>3. s = Agg(i) /\ i \in 0 .. t.aggs - 1 /\ t.tiers = 3
    BY <1>2, <1>4, <1>7
  <2>4. n[1] = "CORE" /\ n = Core(n[2])
    BY <2>1, <2>2, <2>3, CoreNumber
  <2>5. TreePlace(t, n)
    BY <2>1, <2>2, <2>3 DEF TreePlace
  <2>6. AggCoreWired(t, i, n[2], v)
    <3>1. PICK k \in 0 .. (t.up[2] \div t.bundle[3]) - 1 :
            n = Core((i % t.aggsPerPod) + t.aggsPerPod * k)
      BY <2>1, <2>2 DEF UpperCores
    <3>2. n[2] = (i % t.aggsPerPod) + t.aggsPerPod * k
      BY <3>1 DEF Core
    <3> QED BY <2>1, <2>2, <2>3, <3>2 DEF AggCoreWired
  <2>7. TreeWired(t, e)
    <3>1. TreePair(t, s, n, v)
      BY <1>7, <2>4, <2>6 DEF TreePair
    <3> QED BY <2>1, <2>2, <3>1, TreeWiredIs
  <2>8. ~ TreeCovers(t, s, dst)
    BY <1>7 DEF TreeCovers
  <2>9. TreeUp(t, s, n)
    <3>1. Tier(n) = Tier(s) + 1
      BY <1>7, <2>4, TierIs
    <3>2. \A h \in 0 .. t.nodes - 1 : TreeCovers(t, n, h)
      BY <2>4 DEF TreeCovers
    <3> QED BY <3>1, <3>2 DEF TreeUp
  <2> QED BY <1>7, <2>1, <2>2, <2>5, <2>7, <2>8, <2>9
<1>8. CASE s[1] = "CORE"
  <2> PICK r, pod, a : /\ pod = HOST_POD(t, dst) /\ r = s[2] % t.aggsPerPod
                       /\ a = MIN_POD_AGG_SWITCH(t, pod) + r
    OBVIOUS
  <2>1. PICK w \in 0 .. t.bundle[3] - 1 : e = Link(s, Agg(a), w)
    BY <1>8 DEF TreeStep
  <2>2. n = Agg(a) /\ v = w
    BY <1>1, <2>1
  <2>3. t.tiers = 3 /\ \E i \in 0 .. t.aggs - 1 : s \in UpperCores(t, i)
    BY <1>2, <1>8
  <2>4. PICK i \in 0 .. t.aggs - 1 : s \in UpperCores(t, i)
    BY <2>3
  <2>5. r \in 0 .. t.aggsPerPod - 1 /\ r = i % t.aggsPerPod
    BY <2>3, <2>4, CoreNumber
  <2>6. a \in 0 .. t.aggs - 1 /\ AGG_SWITCH_POD_ID(t, a) = pod /\ a % t.aggsPerPod = r
    BY <1>3, <2>3, <2>5, AggOfPod
  <2>7. n[1] = "AGG" /\ n[2] = a
    BY <2>2 DEF Agg
  <2>8. TreePlace(t, n)
    BY <2>2, <2>6 DEF TreePlace
  <2>9. AggCoreWired(t, a, s[2], v)
    <3>1. PICK k \in 0 .. (t.up[2] \div t.bundle[3]) - 1 :
            s = Core((i % t.aggsPerPod) + t.aggsPerPod * k)
      BY <2>4 DEF UpperCores
    <3>2. s[2] = (a % t.aggsPerPod) + t.aggsPerPod * k
      BY <2>5, <2>6, <3>1 DEF Core
    <3> QED BY <2>1, <2>2, <2>3, <2>6, <3>2 DEF AggCoreWired
  <2>10. TreeWired(t, e)
    <3>1. TreePair(t, n, s, v)
      BY <1>8, <2>7, <2>9 DEF TreePair
    <3> QED BY <2>1, <2>2, <3>1, TreeWiredIs
  <2>11. TreeCovers(t, s, dst)
    BY <1>8 DEF TreeCovers
  <2>12. TreeDown(t, s, n, dst)
    <3>1. Tier(n) = Tier(s) - 1
      BY <1>8, <2>7, TierIs
    <3>2. TreeCovers(t, n, dst)
      BY <2>6, <2>7 DEF TreeCovers
    <3> QED BY <3>1, <3>2 DEF TreeDown
  <2> QED BY <1>8, <2>1, <2>2, <2>8, <2>10, <2>11, <2>12
<1> QED BY <1>2, <1>5, <1>6, <1>7, <1>8

-----------------------------------------------------------------------------
(* Steps towards a destination *)

(* The two kinds of topologies together *)
Placed(s) == IF IsTree THEN TreePlace(topo, s) ELSE WanSeat(topo, s)
Covers(s, h) == IF IsTree THEN TreeCovers(topo, s, h) ELSE WanCovers(topo, s, h)

(* A link of the list that the switch s makes for dst *)
Step(s, e, dst) ==
  IF IsTree THEN TreeStep(topo, s, e, dst)
  ELSE WanLink(topo, s, e) /\ WanStep(topo, s, e.to, dst)

(* What the tests of the constructors leave of the topologies                *)
LEMMA TopoIs ==
  ASSUME topo \in Topologies
  PROVE  /\ IsTree => Sound(topo) /\ HostsOf(topo) = 0 .. topo.nodes - 1
         /\ ~ IsTree => WanPositive(topo) /\ HostsOf(topo) = Servers(topo)
         /\ HostsOf(topo) \subseteq Nat
<1>1. \/ topo.kind = "fattree" /\ TreeIsBuilt(topo)
      \/ topo.kind = "ai" /\ W!WanIsSound(topo)
  BY TopologiesAssumption
<1>2. CASE topo.kind = "fattree"
  <2>1. Sound(topo)
    BY <1>1, <1>2, TreesAreSound
  <2>2. HostsOf(topo) = 0 .. topo.nodes - 1
    BY <1>2 DEF HostsOf
  <2>3. HostsOf(topo) \subseteq Nat
    BY <2>1, <2>2 DEF Sound, Positive
  <2> QED BY <1>2, <2>1, <2>2, <2>3 DEF IsTree
<1>3. CASE topo.kind = "ai"
  <2>1. WanPositive(topo)
    BY <1>1, <1>3, WanIsPositive
  <2>2. HostsOf(topo) = Servers(topo)
    BY <1>3 DEF HostsOf, Servers
  <2>3. Positive(topo.regions * W!PerRegion(topo))
    BY <2>1, PerIs, Product DEF WanPositive
  <2>4. HostsOf(topo) \subseteq Nat
    BY <2>2, <2>3 DEF Servers, Positive
  <2> QED BY <1>3, <2>1, <2>2, <2>4 DEF IsTree
<1> QED BY <1>1, <1>2, <1>3

(* Every list is one the table can keep, and every link of it is a step.     *)
LEMMA HopsAre ==
  ASSUME topo \in Topologies, NEW s, Placed(s), NEW d \in HostsOf(topo),
         NEW l, l = NextHops(s, d).links
  PROVE  /\ Usable(s, d)
         /\ NextHops(s, d).shared <=> s[1] = "TOR" \/ (~ IsTree /\ ~ Covers(s, d))
         /\ \A i \in 1 .. Len(l) : Step(s, l[i], d)
<1>1. CASE IsTree
  <2>1. Sound(topo) /\ TreePlace(topo, s) /\ d \in 0 .. topo.nodes - 1
    BY <1>1, TopoIs DEF Placed
  <2> PICK h : h = TreeHops(topo, s, d)
    OBVIOUS
  <2>2. h = NextHops(s, d) /\ l = h.links
    BY <1>1 DEF NextHops
  <2>3. /\ IsList(l) /\ (s[1] = "TOR" => Apart(l))
        /\ h.shared <=> s[1] = "TOR"
        /\ \A i \in 1 .. Len(l) : TreeStep(topo, s, l[i], d)
    BY <2>1, <2>2, TreeListsAre
  <2> QED BY <1>1, <2>2, <2>3 DEF Usable, IsList, Step
<1>2. CASE ~ IsTree
  <2>1. WanPositive(topo) /\ WanSeat(topo, s) /\ d \in Servers(topo)
    BY <1>2, TopoIs DEF Placed
  <2> PICK h : h = W!WanHops(topo, s, d)
    OBVIOUS
  <2>2. h = NextHops(s, d) /\ l = h.links
    BY <1>2 DEF NextHops
  <2>3. /\ IsList(l) /\ (s[1] = "TOR" => Apart(l))
        /\ h.shared <=> s[1] = "TOR" \/ ~ WanCovers(topo, s, d)
        /\ \A i \in 1 .. Len(l) : WanLink(topo, s, l[i]) /\ WanStep(topo, s, l[i].to, d)
    BY <2>1, <2>2, WanHopsAre
  <2>4. h.shared <=> s[1] = "TOR" \/ ~ Covers(s, d)
    BY <1>2, <2>3 DEF Covers
  <2>5. \A i \in 1 .. Len(l) : Step(s, l[i], d)
    BY <1>2, <2>3 DEF Step
  <2> QED BY <1>2, <2>2, <2>3, <2>4, <2>5 DEF Usable, IsList
<1> QED BY <1>1, <1>2

(* A destination is local to the ToRs above it.                              *)
LEMMA LocalIs ==
  ASSUME topo \in Topologies, NEW s, Placed(s), NEW d
  PROVE  IsLocal(s, d) <=> s[1] = "TOR" /\ Covers(s, d)
<1>1. CASE IsTree
  BY <1>1 DEF IsLocal, TreeLocal, Covers, TreeCovers
<1>2. CASE ~ IsTree
  BY <1>2 DEF IsLocal, W!WanLocal, Covers, WanCovers, W!IsDstTorGroup, W!IsDstLeafGroup,
              W!IsDstDc, W!IsDstRegion
<1> QED BY <1>1, <1>2

(* A WAN of at most two regions *)
TwoRegions == IsTree \/ topo.regions <= 2

(* The link e brings a packet for dst from the switch s nearer to it: down   *)
(* to a switch above dst, up to one above whatever is below s, or over to    *)
(* another region.                                                           *)
Up(s, n) == Tier(n) = Tier(s) + 1 /\ \A h \in HostsOf(topo) : Covers(s, h) => Covers(n, h)
Down(s, n, dst) == Tier(n) = Tier(s) - 1 /\ Covers(n, dst)
Over(s, n, dst) == Tier(n) = 6 /\ Tier(s) = 6 /\ (TwoRegions => Covers(n, dst))
Nears(s, e, dst) ==
  /\ e = Link(s, e.to, e.bundle) /\ Placed(e.to) /\ Wired(e)
  /\ IF Covers(s, dst) THEN Down(s, e.to, dst) ELSE Up(s, e.to) \/ Over(s, e.to, dst)
  /\ IsTree => TreeStep(topo, s, e, dst)

(* A link of a list brings a packet nearer to its destination, also when the list *)
(* was made for another destination that shares it.                          *)
LEMMA TreeNears ==
  ASSUME topo \in Topologies, IsTree, NEW s, Placed(s), NEW d \in HostsOf(topo),
         ~ IsLocal(s, d), NEW e, TreeStep(topo, s, e, d)
  PROVE  Nears(s, e, d)
<1>1. Sound(topo) /\ TreePlace(topo, s) /\ HostsOf(topo) = 0 .. topo.nodes - 1
  BY TopoIs DEF Placed
<1> PICK n : n = e.to
  OBVIOUS
<1>2. /\ e = Link(s, n, e.bundle) /\ TreePlace(topo, n) /\ TreeWired(topo, e)
      /\ IF s[1] = "TOR" \/ ~ TreeCovers(topo, s, d) THEN TreeUp(topo, s, n)
         ELSE TreeDown(topo, s, n, d)
  BY <1>1, TreeStepIs
<1>3. s[1] = "TOR" => ~ Covers(s, d)
  BY LocalIs
<1>4. \A x, h : Covers(x, h) <=> TreeCovers(topo, x, h)
  BY DEF Covers
<1>5. IF Covers(s, d) THEN Down(s, n, d) ELSE Up(s, n)
  BY <1>1, <1>2, <1>3, <1>4 DEF TreeUp, TreeDown, Up, Down
<1> QED BY <1>2, <1>5 DEF Nears, Placed, Wired

LEMMA WanNears ==
  ASSUME topo \in Topologies, ~ IsTree, NEW s, Placed(s), NEW d \in HostsOf(topo),
         ~ IsLocal(s, d), NEW e, WanLink(topo, s, e),
         NEW x \in HostsOf(topo), WanStep(topo, s, e.to, x),
         IF s[1] # "TOR" /\ Covers(s, d) THEN x = d ELSE s[1] = "TOR" \/ ~ Covers(s, x)
  PROVE  Nears(s, e, d)
<1>1. WanPositive(topo) /\ WanSeat(topo, s) /\ HostsOf(topo) = Servers(topo)
  BY TopoIs DEF Placed
<1> PICK n : n = e.to
  OBVIOUS
<1>2. e = Link(s, n, e.bundle) /\ WanSeat(topo, n) /\ W!WanWired(topo, e)
  BY DEF WanLink
<1>3. s[1] = "TOR" => ~ Covers(s, d)
  BY LocalIs
<1>4. \A y, h : Covers(y, h) <=> WanCovers(topo, y, h)
  BY DEF Covers
<1>5. CASE Covers(s, d)
  <2>1. WanDown(topo, s, n, d)
    BY <1>3, <1>4, <1>5 DEF WanStep
  <2> QED BY <1>2, <1>4, <1>5, <2>1 DEF Nears, Placed, Wired, WanDown, Down
<1>6. CASE ~ Covers(s, d) /\ s[1] # "OWR"
  <2>1. WanUp(topo, s, n)
    BY <1>4, <1>6 DEF WanStep
  <2>2. Up(s, n)
    BY <1>4, <2>1 DEF WanUp, Up
  <2> QED BY <1>2, <1>6, <2>2 DEF Nears, Placed, Wired
<1>7. CASE ~ Covers(s, d) /\ s[1] = "OWR"
  <2>1. WanOver(topo, s, n, x)
    BY <1>4, <1>7 DEF WanStep
  <2>2. WanCovers(topo, n, x) /\ ~ WanCovers(topo, s, x) /\ ~ WanCovers(topo, s, d)
        /\ Tier(n) = 6 /\ Tier(s) = 6
    BY <1>4, <1>7, <2>1 DEF WanOver
  <2>3. n[1] = "OWR"
    BY <1>2, <2>2, TierIs DEF WanSeat
  <2>4. /\ n[2] = W!RegionOf(topo, x) /\ s[2] # W!RegionOf(topo, x)
        /\ s[2] # W!RegionOf(topo, d)
    BY <1>7, <2>2 DEF WanCovers, W!IsDstRegion
  <2>5. /\ Below(s[2], topo.regions) /\ Below(W!RegionOf(topo, x), topo.regions)
        /\ Below(W!RegionOf(topo, d), topo.regions)
    BY <1>1, <1>7, SeatIs, HostNumbers DEF WanSeat
  <2>6. topo.regions <= 2 => W!RegionOf(topo, x) = W!RegionOf(topo, d)
    <3> PICK a, b, c, m : /\ a = s[2] /\ b = W!RegionOf(topo, x) /\ c = W!RegionOf(topo, d)
                          /\ m = topo.regions
      OBVIOUS
    <3>1. a \in 0 .. m - 1 /\ b \in 0 .. m - 1 /\ c \in 0 .. m - 1 /\ a # b /\ a # c
      BY <2>4, <2>5 DEF Below
    <3>2. m \in Nat
      BY <1>1 DEF WanPositive, Positive
    <3>3. m <= 2 => b = c
      BY ONLY <3>1, <3>2
    <3> QED BY <3>3
  <2>7. TwoRegions => Covers(n, d)
    BY <1>4, <2>3, <2>4, <2>6 DEF TwoRegions, WanCovers, W!IsDstRegion
  <2>8. Over(s, n, d)
    BY <2>2, <2>7 DEF Over
  <2> QED BY <1>2, <1>7, <2>8 DEF Nears, Placed, Wired
<1> QED BY <1>5, <1>6, <1>7

LEMMA LeadsNear ==
  ASSUME topo \in Topologies, NEW s, Placed(s), NEW d \in HostsOf(topo), ~ IsLocal(s, d),
         NEW e, Leads(s, d, e)
  PROVE  Nears(s, e, d)
<1>1. PICK x \in HostsOf(topo) :
        /\ Name(s, x) = Name(s, d)
        /\ \E j \in 1 .. Len(NextHops(s, x).links) : e = NextHops(s, x).links[j]
  BY DEF Leads
<1>2. /\ NextHops(s, x).shared <=> s[1] = "TOR" \/ (~ IsTree /\ ~ Covers(s, x))
      /\ Step(s, e, x)
  BY <1>1, HopsAre
<1>3. NextHops(s, d).shared <=> s[1] = "TOR" \/ (~ IsTree /\ ~ Covers(s, d))
  BY HopsAre
<1>4. NextHops(s, d).shared => NextHops(s, x).shared
  <2>1. d \in Nat /\ x \in Nat
    BY TopoIs
  <2> QED BY <1>1, <2>1 DEF Name, UP
<1>5. ~ NextHops(s, d).shared => x = d
  <2>1. d \in Nat
    BY TopoIs
  <2> QED BY <1>1, <2>1 DEF Name, UP
<1>6. CASE IsTree
  <2>1. TreeStep(topo, s, e, x)
    BY <1>2, <1>6 DEF Step
  <2>2. TreeStep(topo, s, e, d)
    <3>1. CASE s[1] = "TOR"
      BY <2>1, <3>1 DEF TreeStep
    <3>2. CASE s[1] # "TOR"
      BY <1>3, <1>5, <1>6, <2>1, <3>2
    <3> QED BY <3>1, <3>2
  <2> QED BY <1>6, <2>2, TreeNears
<1>7. CASE ~ IsTree
  <2>1. WanLink(topo, s, e) /\ WanStep(topo, s, e.to, x)
    BY <1>2, <1>7 DEF Step
  <2>2. IF s[1] # "TOR" /\ Covers(s, d) THEN x = d ELSE s[1] = "TOR" \/ ~ Covers(s, x)
    BY <1>2, <1>3, <1>4, <1>5, <1>7
  <2> QED BY <1>7, <2>1, <2>2, WanNears
<1> QED BY <1>6, <1>7

(* A host and the ToR it is attached to *)
LEMMA HostLink ==
  ASSUME topo \in Topologies, NEW h \in HostsOf(topo), NEW s, Placed(s), s[1] = "TOR",
         Covers(s, h)
  PROVE  Wired(Link(Host(h), s, 0)) /\ Wired(Link(s, Host(h), 0)) /\ Attached(s, h) = h
<1> PICK x, v : x = Host(h) /\ v = 0
  OBVIOUS
<1>1. x[1] = "HOST" /\ x[2] = h
  BY DEF Host
<1>2. CASE IsTree
  <2> PICK d, q, r : d = topo.down[1] /\ q = h \div d /\ r = h % d
    OBVIOUS
  <2>1. Sound(topo) /\ h \in 0 .. topo.nodes - 1 /\ TreePlace(topo, s)
    BY <1>2, TopoIs DEF Placed
  <2>2. s[2] \in 0 .. topo.tors - 1 /\ s[2] = q
    <3>1. s[2] \in 0 .. topo.tors - 1
      BY <2>1, PlaceIs
    <3> QED BY <1>2, <3>1 DEF Covers, TreeCovers, HOST_POD_SWITCH
  <2>3. d \in Nat /\ d >= 1 /\ h \in Nat
    BY <2>1 DEF Sound, Positive
  <2>4. q \in Nat /\ r \in Nat /\ r <= d - 1 /\ h = d * q + r
    BY <2>3, DivMod
  <2>5. h = q * d + r /\ r \in 0 .. d - 1
    <3>1. d * q = q * d
      BY ONLY <2>3, <2>4
    <3> QED BY <2>3, <2>4, <3>1
  <2>6. HostWired(topo, h, s[2], v)
    BY <2>2, <2>5 DEF HostWired
  <2>7. TreePair(topo, x, s, v)
    BY <1>1, <2>6 DEF TreePair
  <2>8. TreeWired(topo, Link(x, s, v)) /\ TreeWired(topo, Link(s, x, v))
    BY <2>7, TreeWiredIs
  <2> QED BY <1>2, <2>8 DEF Wired, Attached
<1>3. CASE ~ IsTree
  <2>1. WanPositive(topo) /\ h \in Servers(topo) /\ WanSeat(topo, s)
    BY <1>3, TopoIs DEF Placed
  <2>2. W!IsDstTorGroup(topo, s, h)
    BY <1>3 DEF Covers, WanCovers
  <2>3. W!WanExists(topo, x)
    BY <1>1, <2>1, SeatIs DEF Servers, Below
  <2>4. W!ServerTorWired(topo, x, s, v)
    BY <1>1, <2>1, <2>2 DEF W!ServerTorWired, WanPositive, Positive
  <2>5. Wiring(topo, x, s, v)
    BY <1>1, <2>4 DEF Wiring
  <2>6. W!WanWired(topo, Link(x, s, v)) /\ W!WanWired(topo, Link(s, x, v))
    BY <1>1, <2>1, <2>3, <2>5, WanWiredIs DEF WanSeat
  <2>7. W!HostAt(topo, s, W!RelativeServer(topo, h)) = h
    <3>1. /\ s[2] = W!RegionOf(topo, h) /\ s[3] = W!DcOf(topo, h)
          /\ s[4] = W!LeafGroupOf(topo, h) /\ s[5] = W!TorGroupOf(topo, h)
      BY <2>2 DEF W!IsDstTorGroup, W!IsDstLeafGroup, W!IsDstDc, W!IsDstRegion
    <3> QED BY <2>1, <3>1, HostNumbers DEF W!HostAt
  <2> QED BY <1>3, <2>6, <2>7 DEF Wired, Attached
<1> QED BY <1>2, <1>3

(* A source is attached to a ToR above it.                                   *)
LEMMA EntryIs ==
  ASSUME topo \in Topologies, NEW h \in HostsOf(topo), NEW s \in EntryToRs(h)
  PROVE  Placed(s) /\ s[1] = "TOR" /\ Covers(s, h)
<1>1. CASE IsTree
  <2>1. s = Tor(HOST_POD_SWITCH(topo, h))
    BY <1>1 DEF EntryToRs, Tor
  <2>2. s[1] = "TOR" /\ s[2] = HOST_POD_SWITCH(topo, h)
    BY <2>1 DEF Tor
  <2>3. HOST_POD_SWITCH(topo, h) \in 0 .. topo.tors - 1
    BY <1>1, TopoIs, HostSwitch
  <2> QED BY <1>1, <2>1, <2>2, <2>3 DEF Placed, TreePlace, Covers, TreeCovers
<1>2. CASE ~ IsTree
  <2>1. PICK i \in 0 .. topo.tors - 1 :
          s = <<"TOR", W!RegionOf(topo, h), W!DcOf(topo, h), W!LeafGroupOf(topo, h),
                W!TorGroupOf(topo, h), i>>
    BY <1>2 DEF EntryToRs
  <2>2. /\ s[1] = "TOR" /\ s[2] = W!RegionOf(topo, h) /\ s[3] = W!DcOf(topo, h)
        /\ s[4] = W!LeafGroupOf(topo, h) /\ s[5] = W!TorGroupOf(topo, h) /\ s[6] = i
    BY <2>1
  <2>3. WanPositive(topo) /\ h \in Servers(topo)
    BY <1>2, TopoIs
  <2>4. WanSeat(topo, s)
    <3>1. /\ Below(s[2], topo.regions) /\ Below(s[3], topo.dcs) /\ Below(s[4], topo.leafGroups)
          /\ Below(s[5], topo.torGroups) /\ Below(s[6], topo.tors)
      BY <2>2, <2>3, HostNumbers DEF Below
    <3> QED BY <2>2, <3>1, SeatIs DEF WanSeat
  <2>5. WanCovers(topo, s, h)
    BY <2>2 DEF WanCovers, W!IsDstTorGroup, W!IsDstLeafGroup, W!IsDstDc, W!IsDstRegion
  <2> QED BY <1>2, <2>2, <2>4, <2>5 DEF Placed, Covers
<1> QED BY <1>1, <1>2

-----------------------------------------------------------------------------
SwitchesAreRight ==
  \A s \in DOMAIN sw :
    Placed(s) /\ TableIsRight(s, sw[s]) /\ (s[1] = "TOR" => Even(sw[s]))

(* A packet has crossed links that exist and is at a switch or a host. *)
Trip(p) ==
  /\ IsPacket(p) /\ p.flow \in flows
  /\ IsSeq(p.trail) /\ Len(p.trail) >= 1
  /\ \A i \in 1 .. Len(p.trail) : Wired(p.trail[i])
  /\ At(p)[1] # "HOST" => Placed(At(p))

FlowsAreRight ==
  /\ topo \in Topologies
  /\ flows \subseteq HostsOf(topo) \X HostsOf(topo)
  /\ \A f \in flows : entry[f] \in EntryToRs(f[1])

Base ==
  /\ FlowsAreRight
  /\ \A k \in DOMAIN hash : hash[k] \in Nat
  /\ SwitchesAreRight
  /\ \A p \in net : Trip(p)

(* None of this depends on the state of the network.                         *)
LEMMA SameRight ==
  ASSUME topo' = topo, strategy' = strategy, flows' = flows, entry' = entry, NEW s, NEW r
  PROVE  /\ TableIsRight(s, r)' <=> TableIsRight(s, r)
         /\ Even(r)' <=> Even(r)
         /\ Placed(s)' <=> Placed(s)
         /\ Wired(s)' <=> Wired(s)
         /\ FlowsAreRight' <=> FlowsAreRight
<1>1. IsTree' <=> IsTree
  BY DEF IsTree
<1>2. TableIsRight(s, r)' <=> TableIsRight(s, r)
  <2>1. \A d : NextHops(s, d)' = NextHops(s, d)
    BY SameTopology
  <2> QED BY <2>1 DEF TableIsRight, Name, Usable
<1>3. Even(r)' <=> Even(r)
  <2>1. Rounds' = Rounds
    BY <1>1 DEF Rounds
  <2> QED BY <2>1 DEF Even
<1>4. Placed(s)' <=> Placed(s)
  BY <1>1 DEF Placed
<1>5. Wired(s)' <=> Wired(s)
  BY <1>1 DEF Wired
<1>6. FlowsAreRight' <=> FlowsAreRight
  <2>1. \A h : EntryToRs(h)' = EntryToRs(h)
    BY <1>1 DEF EntryToRs
  <2> QED BY <2>1 DEF FlowsAreRight
<1> QED BY <1>2, <1>3, <1>4, <1>5, <1>6

(* What is known of a switch holds also before its first packet.             *)
LEMMA SwitchIsRight ==
  ASSUME SwitchesAreRight, NEW s
  PROVE  TableIsRight(s, Switch(s)) /\ (s[1] = "TOR" => Even(Switch(s)))
<1>1. CASE s \in DOMAIN sw
  BY <1>1 DEF Switch, SwitchesAreRight
<1>2. CASE s \notin DOMAIN sw
  <2>1. Switch(s) = NewSwitch
    BY <1>2 DEF Switch
  <2>2. Even(NewSwitch)
    BY DEF Even, NewSwitch
  <2> QED BY <2>1, <2>2, NewTableIsRight
<1> QED BY <1>1, <1>2

-----------------------------------------------------------------------------
(* What a step does *)

LEMMA PlacedIsSwitch == \A s : topo \in Topologies /\ Placed(s) => s[1] # "HOST"
<1> SUFFICES ASSUME topo \in Topologies, NEW s, Placed(s) PROVE s[1] # "HOST"
  OBVIOUS
<1>1. CASE IsTree
  BY <1>1, TopoIs, PlaceIs DEF Placed
<1>2. CASE ~ IsTree
  BY <1>2 DEF Placed, WanSeat
<1> QED BY <1>1, <1>2

(* What is known of the packets of the network                               *)
LEMMA PacketIs ==
  ASSUME Base, NEW p \in net
  PROVE  /\ topo \in Topologies /\ IsPacket(p) /\ p.flow \in flows
         /\ p.flow[1] \in HostsOf(topo) /\ p.flow[2] \in HostsOf(topo)
         /\ IsSeq(p.trail) /\ Len(p.trail) \in Nat /\ Len(p.trail) >= 1
         /\ At(p) = p.trail[Len(p.trail)].to
         /\ At(p)[1] # "HOST" => Placed(At(p))
<1>1. Trip(p) /\ topo \in Topologies /\ flows \subseteq HostsOf(topo) \X HostsOf(topo)
  BY DEF Base, FlowsAreRight
<1>2. p.flow[1] \in HostsOf(topo) /\ p.flow[2] \in HostsOf(topo)
  BY <1>1 DEF Trip
<1>3. Len(p.trail) \in Nat
  BY <1>1, SeqIs DEF Trip
<1>4. At(p) = p.trail[Len(p.trail)].to
  BY DEF At, Last
<1> QED BY <1>1, <1>2, <1>3, <1>4 DEF Trip

(* What the switch of a packet finds *)
LEMMA LookupIs ==
  ASSUME Base, NEW p \in net, AtSwitch(p), NEW s, s = At(p), NEW d, d = p.flow[2],
         NEW r \in Filled(Switch(s), s, d), NEW l, l = List(r, d)
  PROVE  /\ Placed(s) /\ Usable(s, d) /\ TableIsRight(s, r) /\ d \in DOMAIN r.table
         /\ s[1] = "TOR" => Even(r) /\ Name(s, d) = UP
         /\ Len(l) \in Nat /\ Len(l) >= 1 /\ \A i \in 1 .. Len(l) : Leads(s, d, l[i])
<1>1. topo \in Topologies /\ d \in HostsOf(topo) /\ Placed(s)
  BY PacketIs DEF AtSwitch
<1>2. Usable(s, d)
  BY <1>1, HopsAre
<1>3. TableIsRight(s, Switch(s)) /\ (s[1] = "TOR" => Even(Switch(s)))
  BY SwitchIsRight DEF Base
<1>4. TableIsRight(s, r) /\ d \in DOMAIN r.table
  BY <1>1, <1>2, <1>3, FilledIsRight
<1>5. s[1] = "TOR" => Even(r) /\ Name(s, d) = UP
  BY <1>1, <1>2, <1>3, FilledStaysEven, TorName
<1>6. Len(l) \in Nat /\ Len(l) >= 1 /\ \A i \in 1 .. Len(l) : Leads(s, d, l[i])
  BY <1>4, ListIs
<1> QED BY <1>1, <1>2, <1>4, <1>5, <1>6

(* A switch of the network forwards a packet: what it becomes and the link. *)
Forwarded(p, t, link) ==
  /\ AtSwitch(p)
  /\ TableIsRight(At(p), t) /\ (At(p)[1] = "TOR" => Even(t))
  /\ Leads(At(p), p.flow[2], link)
  /\ sw' = SetAt(sw, At(p), t)
  /\ net' = (net \ {p}) \cup {Longer(p, link)}

(* Every way of forwarding is over a link of the list that the table keeps.  *)
LEMMA ForwardIs ==
  ASSUME Base, NEW p \in net,
         ForwardFirst(p) \/ ForwardByHash(p) \/ ForwardInTurn(p) \/ ForwardAdaptively(p)
  PROVE  /\ \E t, link : Forwarded(p, t, link)
         /\ \A k \in DOMAIN hash' : hash'[k] \in Nat
         /\ UNCHANGED <<topo, strategy, flows, entry>>
<1> PICK s : s = At(p)
  OBVIOUS
<1> PICK d : d = p.flow[2]
  OBVIOUS
<1>0. \A k \in DOMAIN hash : hash[k] \in Nat
  BY DEF Base
<1>1. CASE ForwardFirst(p)
  <2>1. PICK r \in Filled(Switch(s), s, d) :
          sw' = SetAt(sw, s, r) /\ Move(p, List(r, d)[1])
    BY <1>1 DEF ForwardFirst
  <2>2. AtSwitch(p) /\ UNCHANGED <<topo, strategy, flows, entry, hash>>
    BY <1>1 DEF ForwardFirst
  <2> PICK l : l = List(r, d)
    OBVIOUS
  <2>3. /\ TableIsRight(s, r) /\ (s[1] = "TOR" => Even(r))
        /\ Len(l) \in Nat /\ Len(l) >= 1 /\ \A i \in 1 .. Len(l) : Leads(s, d, l[i])
    BY <2>2, LookupIs
  <2>4. Leads(s, d, l[1])
    BY <2>3
  <2>5. net' = (net \ {p}) \cup {Longer(p, l[1])}
    BY <2>1 DEF Move, Longer
  <2>6. Forwarded(p, r, l[1])
    BY <2>1, <2>2, <2>3, <2>4, <2>5 DEF Forwarded
  <2> QED BY <1>0, <2>2, <2>6
<1>2. CASE ForwardByHash(p)
  <2> PICK k : k = HashKey(s, p)
    OBVIOUS
  <2>1. PICK r \in Filled(Switch(s), s, d), v \in HashValues(k) :
          /\ sw' = SetAt(sw, s, r)
          /\ hash' = SetAt(hash, k, v)
          /\ Move(p, List(r, d)[(v % Len(List(r, d))) + 1])
    BY <1>2 DEF ForwardByHash
  <2>2. AtSwitch(p) /\ UNCHANGED <<topo, strategy, flows, entry>>
    BY <1>2 DEF ForwardByHash
  <2> PICK l, i : l = List(r, d) /\ i = (v % Len(l)) + 1
    OBVIOUS
  <2>3. /\ TableIsRight(s, r) /\ (s[1] = "TOR" => Even(r))
        /\ Len(l) \in Nat /\ Len(l) >= 1 /\ \A j \in 1 .. Len(l) : Leads(s, d, l[j])
    BY <2>2, LookupIs
  <2>4. v \in Nat
    BY <1>0, HashAssumption DEF HashValues
  <2>5. Leads(s, d, l[i])
    <3>1. v % Len(l) \in Nat /\ v % Len(l) <= Len(l) - 1
      BY <2>3, <2>4, DivMod
    <3>2. i \in 1 .. Len(l)
      BY <2>3, <3>1
    <3> QED BY <2>3, <3>2
  <2>6. net' = (net \ {p}) \cup {Longer(p, l[i])}
    BY <2>1 DEF Move, Longer
  <2>7. Forwarded(p, r, l[i])
    BY <2>1, <2>2, <2>3, <2>5, <2>6 DEF Forwarded
  <2>8. \A x \in DOMAIN hash' : hash'[x] \in Nat
    BY <1>0, <2>1, <2>4 DEF SetAt
  <2> QED BY <2>2, <2>7, <2>8
<1>3. CASE ForwardAdaptively(p)
  <2>1. PICK r \in Filled(Switch(s), s, d) :
          /\ sw' = SetAt(sw, s, r)
          /\ \E i \in 1 .. Len(List(r, d)) : Move(p, List(r, d)[i])
    BY <1>3 DEF ForwardAdaptively
  <2>2. AtSwitch(p) /\ UNCHANGED <<topo, strategy, flows, entry, hash>>
    BY <1>3 DEF ForwardAdaptively
  <2> PICK l : l = List(r, d)
    OBVIOUS
  <2>3. PICK i \in 1 .. Len(l) : Move(p, l[i])
    BY <2>1
  <2>4. /\ TableIsRight(s, r) /\ (s[1] = "TOR" => Even(r)) /\ Leads(s, d, l[i])
    BY <2>2, LookupIs
  <2>5. net' = (net \ {p}) \cup {Longer(p, l[i])}
    BY <2>3 DEF Move, Longer
  <2>6. Forwarded(p, r, l[i])
    BY <2>1, <2>2, <2>4, <2>5 DEF Forwarded
  <2> QED BY <1>0, <2>2, <2>6
<1>4. CASE ForwardInTurn(p)
  <2>1. PICK r \in Filled(Switch(s), s, d) : \E q \in Rewound(r, d) :
          /\ sw' = SetAt(sw, s, TakeTurn(q, d).switch)
          /\ Move(p, TakeTurn(q, d).link)
    BY <1>4 DEF ForwardInTurn
  <2>2. PICK q \in Rewound(r, d) : /\ sw' = SetAt(sw, s, TakeTurn(q, d).switch)
                                  /\ Move(p, TakeTurn(q, d).link)
    BY <2>1
  <2>3. AtSwitch(p) /\ UNCHANGED <<topo, strategy, flows, entry, hash>>
    BY <1>4 DEF ForwardInTurn
  <2> PICK t, link : t = TakeTurn(q, d).switch /\ link = TakeTurn(q, d).link
    OBVIOUS
  <2>4. /\ TableIsRight(s, r) /\ d \in DOMAIN r.table
        /\ s[1] = "TOR" => Even(r) /\ Name(s, d) = UP
    BY <2>3, LookupIs
  <2>5. TableIsRight(s, q) /\ d \in DOMAIN q.table
    BY <2>4, RewoundIsRight
  <2>6. TableIsRight(s, t) /\ Leads(s, d, link)
    BY <2>5, TurnIs
  <2>7. s[1] = "TOR" => Even(t)
    BY <2>4, TurnStaysEven
  <2>8. net' = (net \ {p}) \cup {Longer(p, link)}
    BY <2>2 DEF Move, Longer
  <2>9. Forwarded(p, t, link)
    BY <2>2, <2>3, <2>6, <2>7, <2>8 DEF Forwarded
  <2> QED BY <1>0, <2>3, <2>9
<1> QED BY <1>1, <1>2, <1>3, <1>4

(* A packet that its source gives to a ToR *)
Fresh(q) ==
  /\ IsPacket(q) /\ q.flow \in flows
  /\ q.trail = <<Link(Host(q.flow[1]), entry[q.flow], 0)>>

(* A switch sends the packet on over the link. *)
Goes(p, link) ==
  /\ At(p)[1] # "HOST"
  /\ IF IsLocal(At(p), p.flow[2]) THEN link = Link(At(p), Host(p.flow[2]), 0)
     ELSE Nears(At(p), link, p.flow[2])

(* What a step does to the packets *)
NetStep ==
  \/ \E q : Fresh(q) /\ net' = net \cup {q}
  \/ \E p \in net : \E link : Goes(p, link) /\ net' = (net \ {p}) \cup {Longer(p, link)}
  \/ net' \subseteq net

(* A step gives a packet to a ToR, moves one a link on, or takes one away.   *)
LEMMA StepIs ==
  ASSUME Base, [Next]_vars
  PROVE  NetStep /\ UNCHANGED <<topo, strategy, flows, entry>>
<1>1. CASE UNCHANGED vars
  BY <1>1 DEF vars, NetStep
<1>2. ASSUME NEW f \in flows, NEW path \in PathIds, NEW size \in PacketSizes(strategy),
             SendPacket(f, path, size)
      PROVE  NetStep /\ UNCHANGED <<topo, strategy, flows, entry>>
  <2> PICK l : l = Link(Host(f[1]), entry[f], 0)
    OBVIOUS
  <2> DEFINE q == [flow |-> f, path |-> path, size |-> size, trail |-> <<l>>]
  <2>1. net' = net \cup {q} /\ UNCHANGED <<topo, strategy, flows, entry>>
    BY <1>2 DEF SendPacket
  <2>2. IsPacket(q) /\ q.flow = f /\ q.trail = <<l>>
    BY DEF IsPacket
  <2> HIDE DEF q
  <2>3. Fresh(q)
    BY <2>2 DEF Fresh
  <2> QED BY <2>1, <2>3 DEF NetStep
<1>3. ASSUME NEW p \in net, ForwardToHost(p)
      PROVE  NetStep /\ UNCHANGED <<topo, strategy, flows, entry>>
  <2> PICK s, d : s = At(p) /\ d = p.flow[2]
    OBVIOUS
  <2> PICK link : link = Link(s, Host(Attached(s, d)), 0)
    OBVIOUS
  <2>1. /\ s[1] # "HOST" /\ IsLocal(s, d)
        /\ net' = (net \ {p}) \cup {Longer(p, link)}
        /\ UNCHANGED <<topo, strategy, flows, entry>>
    BY <1>3 DEF ForwardToHost, Move, Longer
  <2>2. topo \in Topologies /\ Placed(s) /\ d \in HostsOf(topo)
    BY <2>1, PacketIs
  <2>3. Attached(s, d) = d
    BY <2>1, <2>2, LocalIs, HostLink
  <2>4. Goes(p, link)
    BY <2>1, <2>3 DEF Goes
  <2> QED BY <2>1, <2>4 DEF NetStep
<1>4. ASSUME NEW p \in net,
             ForwardFirst(p) \/ ForwardByHash(p) \/ ForwardInTurn(p) \/ ForwardAdaptively(p)
      PROVE  NetStep /\ UNCHANGED <<topo, strategy, flows, entry>>
  <2>1. UNCHANGED <<topo, strategy, flows, entry>>
    BY <1>4, ForwardIs
  <2>2. PICK t, link : Forwarded(p, t, link)
    BY <1>4, ForwardIs
  <2>3. AtSwitch(p) /\ Leads(At(p), p.flow[2], link) /\ net' = (net \ {p}) \cup {Longer(p, link)}
    BY <2>2 DEF Forwarded
  <2>4. At(p)[1] # "HOST" /\ ~ IsLocal(At(p), p.flow[2])
    BY <2>3 DEF AtSwitch
  <2>5. topo \in Topologies /\ Placed(At(p)) /\ p.flow[2] \in HostsOf(topo)
    BY <2>4, PacketIs
  <2>6. Nears(At(p), link, p.flow[2])
    BY <2>3, <2>4, <2>5, LeadsNear
  <2> QED BY <2>1, <2>3, <2>4, <2>6 DEF Goes, NetStep
<1>5. ASSUME NEW p \in net, Receive(p)
      PROVE  NetStep /\ UNCHANGED <<topo, strategy, flows, entry>>
  BY <1>5 DEF Receive, NetStep
<1> QED BY <1>1, <1>2, <1>3, <1>4, <1>5 DEF Next

(* The packet q is the packet p, of a trail of n links, after one more link. *)
Extends(q, p, link, n) ==
  /\ IsPacket(q) /\ q.flow = p.flow /\ IsSeq(q.trail)
  /\ n \in Nat /\ n >= 1 /\ Len(q.trail) = n + 1 /\ q.trail[n + 1] = link
  /\ At(q) = link.to
  /\ \A i \in 1 .. n : q.trail[i] = p.trail[i]

(* The trail of a packet that goes on                                        *)
LEMMA GoesIs ==
  ASSUME Base, NEW p \in net, NEW link
  PROVE  Extends(Longer(p, link), p, link, Len(p.trail))
<1> PICK q, n : q = Longer(p, link) /\ n = Len(p.trail)
  OBVIOUS
<1>1. IsPacket(p) /\ IsSeq(p.trail) /\ n \in Nat /\ n >= 1
  BY PacketIs
<1>2. IsPacket(q) /\ q.flow = p.flow /\ q.trail = Append(p.trail, link)
  BY <1>1, LongerIs
<1>3. /\ IsSeq(q.trail) /\ Len(q.trail) = n + 1 /\ q.trail[n + 1] = link
      /\ \A i \in 1 .. n : q.trail[i] = p.trail[i]
  BY <1>1, <1>2, AppendIs
<1>4. At(q) = link.to
  BY <1>3 DEF At, Last
<1> QED BY <1>1, <1>2, <1>3, <1>4 DEF Extends

(* The first link of a packet exists.                                        *)
LEMMA FreshIs ==
  ASSUME FlowsAreRight, NEW q, Fresh(q)
  PROVE  /\ topo \in Topologies /\ q.flow[1] \in HostsOf(topo) /\ q.flow[2] \in HostsOf(topo)
         /\ IsSeq(q.trail) /\ Len(q.trail) = 1
         /\ q.trail[1] = Link(Host(q.flow[1]), At(q), 0)
         /\ Placed(At(q)) /\ At(q)[1] = "TOR" /\ Covers(At(q), q.flow[1])
         /\ Wired(q.trail[1])
<1> PICK f, s, l : f = q.flow /\ s = entry[f] /\ l = Link(Host(f[1]), s, 0)
  OBVIOUS
<1>1. topo \in Topologies /\ f[1] \in HostsOf(topo) /\ f[2] \in HostsOf(topo)
      /\ s \in EntryToRs(f[1])
  BY DEF FlowsAreRight, Fresh
<1>2. Placed(s) /\ s[1] = "TOR" /\ Covers(s, f[1])
  BY <1>1, EntryIs
<1>3. q.trail = <<l>>
  BY DEF Fresh
<1>4. IsSeq(q.trail) /\ Len(q.trail) = 1 /\ q.trail[1] = l
  BY <1>3, SingleIs
<1>5. At(q) = s
  BY <1>4 DEF At, Last, Link
<1> QED BY <1>1, <1>2, <1>4, <1>5, HostLink

LEMMA GoesWired ==
  ASSUME Base, NEW p \in net, NEW link, Goes(p, link)
  PROVE  Wired(link) /\ (link.to[1] # "HOST" => Placed(link.to))
<1> PICK s, d : s = At(p) /\ d = p.flow[2]
  OBVIOUS
<1>1. topo \in Topologies /\ Placed(s) /\ d \in HostsOf(topo)
  BY PacketIs DEF Goes
<1>2. CASE IsLocal(s, d)
  <2>1. Wired(Link(s, Host(d), 0))
    BY <1>1, <1>2, LocalIs, HostLink
  <2>2. link = Link(s, Host(d), 0)
    BY <1>2 DEF Goes
  <2>3. link.to[1] = "HOST"
    BY <2>2 DEF Link, Host
  <2> QED BY <2>1, <2>2, <2>3
<1>3. CASE ~ IsLocal(s, d)
  BY <1>3 DEF Goes, Nears
<1> QED BY <1>2, <1>3

(* Packets cross links that exist from switch to switch.                     *)
LEMMA TripsGoOn == Base /\ [Next]_vars => \A q \in net' : Trip(q)'
<1> SUFFICES ASSUME Base, [Next]_vars, NEW q \in net' PROVE Trip(q)'
  OBVIOUS
<1>1. NetStep /\ UNCHANGED <<topo, strategy, flows, entry>>
  BY StepIs
<1>2. /\ \A s : Placed(s)' <=> Placed(s)
      /\ \A e : Wired(e)' <=> Wired(e)
  BY <1>1, SameRight
<1>3. Trip(q)' <=> Trip(q)
  BY <1>1, <1>2 DEF Trip, IsPacket, At, Last
<1>4. CASE q \in net
  BY <1>3, <1>4 DEF Base
<1>5. ASSUME NEW r, Fresh(r), q = r PROVE Trip(q)
  <2>1. FlowsAreRight
    BY DEF Base
  <2>2. /\ IsSeq(q.trail) /\ Len(q.trail) = 1 /\ Wired(q.trail[1]) /\ Placed(At(q))
    BY <1>5, <2>1, FreshIs
  <2>3. \A i \in 1 .. Len(q.trail) : Wired(q.trail[i])
    <3>1. \A i \in 1 .. Len(q.trail) : i = 1
      BY <2>2
    <3> QED BY <2>2, <3>1
  <2>4. IsPacket(q) /\ q.flow \in flows
    BY <1>5 DEF Fresh
  <2> QED BY <2>2, <2>3, <2>4 DEF Trip
<1>6. ASSUME NEW p \in net, NEW link, Goes(p, link), q = Longer(p, link) PROVE Trip(q)
  <2> PICK n : n = Len(p.trail)
    OBVIOUS
  <2>0. Extends(q, p, link, n)
    BY <1>6, GoesIs
  <2>1. /\ IsPacket(q) /\ q.flow = p.flow /\ IsSeq(q.trail)
        /\ n \in Nat /\ n >= 1 /\ Len(q.trail) = n + 1 /\ q.trail[n + 1] = link
        /\ At(q) = link.to
        /\ \A i \in 1 .. n : q.trail[i] = p.trail[i]
    BY <2>0 DEF Extends
  <2>2. Wired(link) /\ (link.to[1] # "HOST" => Placed(link.to))
    BY <1>6, GoesWired
  <2>3. /\ \A i \in 1 .. n : Wired(p.trail[i])
        /\ p.flow \in flows
    BY DEF Base, Trip
  <2>4. \A i \in 1 .. Len(q.trail) : Wired(q.trail[i])
    <3>1. \A i \in 1 .. Len(q.trail) : i \in 1 .. n \/ i = n + 1
      BY <2>1
    <3> QED BY <2>1, <2>2, <2>3, <3>1
  <2>5. Len(q.trail) >= 1
    BY <2>1
  <2> QED BY <2>1, <2>2, <2>3, <2>4, <2>5 DEF Trip
<1> QED BY <1>1, <1>3, <1>4, <1>5, <1>6 DEF NetStep

(* The tables stay right and round robin stays even.                         *)
LEMMA SwitchesStayRight ==
  Base /\ [Next]_vars => /\ SwitchesAreRight'
                         /\ \A k \in DOMAIN hash' : hash'[k] \in Nat
<1> SUFFICES ASSUME Base, [Next]_vars
             PROVE  /\ SwitchesAreRight'
                    /\ \A k \in DOMAIN hash' : hash'[k] \in Nat
  OBVIOUS
<1>1. UNCHANGED <<topo, strategy, flows, entry>>
  BY StepIs
<1>2. \A s, r : /\ TableIsRight(s, r)' <=> TableIsRight(s, r)
                /\ Even(r)' <=> Even(r)
                /\ Placed(s)' <=> Placed(s)
  BY <1>1, SameRight
<1>3. /\ \A s \in DOMAIN sw :
           Placed(s) /\ TableIsRight(s, sw[s]) /\ (s[1] = "TOR" => Even(sw[s]))
      /\ \A k \in DOMAIN hash : hash[k] \in Nat
  BY DEF Base, SwitchesAreRight
<1>0. ASSUME NEW s, NEW r, r = sw'[s], TableIsRight(s, r), s[1] = "TOR" => Even(r), Placed(s)
      PROVE  (Placed(s) /\ TableIsRight(s, sw[s]) /\ (s[1] = "TOR" => Even(sw[s])))'
  <2>1. TableIsRight(s, r)' /\ (s[1] = "TOR" => Even(r)') /\ Placed(s)'
    BY <1>0, <1>2
  <2>2. TableIsRight(s, sw[s])'
    BY <1>0, <2>1 DEF TableIsRight
  <2>3. s[1] = "TOR" => Even(sw[s])'
    BY <1>0, <2>1 DEF Even, Ahead, Used, Apart
  <2> QED BY <2>1, <2>2, <2>3
<1>4. CASE sw' = sw /\ hash' = hash
  <2>1. \A s \in DOMAIN sw' : (Placed(s) /\ TableIsRight(s, sw[s]) /\ (s[1] = "TOR" => Even(sw[s])))'
    <3> TAKE s \in DOMAIN sw'
    <3> PICK r : r = sw'[s]
      OBVIOUS
    <3>1. TableIsRight(s, r) /\ (s[1] = "TOR" => Even(r)) /\ Placed(s)
      BY <1>3, <1>4
    <3> QED BY <1>0, <3>1
  <2> QED BY <1>3, <1>4, <2>1 DEF SwitchesAreRight
<1>5. ASSUME NEW p \in net,
             ForwardFirst(p) \/ ForwardByHash(p) \/ ForwardInTurn(p) \/ ForwardAdaptively(p)
      PROVE  /\ SwitchesAreRight'
             /\ \A k \in DOMAIN hash' : hash'[k] \in Nat
  <2>1. \A k \in DOMAIN hash' : hash'[k] \in Nat
    BY <1>5, ForwardIs
  <2>2. PICK t, link : Forwarded(p, t, link)
    BY <1>5, ForwardIs
  <2> PICK x : x = At(p)
    OBVIOUS
  <2>3. /\ AtSwitch(p) /\ TableIsRight(x, t) /\ (x[1] = "TOR" => Even(t))
        /\ sw' = SetAt(sw, x, t)
    BY <2>2 DEF Forwarded
  <2>4. Placed(x)
    BY <2>3, PacketIs DEF AtSwitch
  <2>5. DOMAIN sw' = DOMAIN sw \cup {x} /\ sw'[x] = t
        /\ \A s \in DOMAIN sw : s # x => sw'[s] = sw[s]
    BY <2>3 DEF SetAt
  <2>6. ASSUME NEW s \in DOMAIN sw', NEW r, r = sw'[s]
        PROVE  TableIsRight(s, r) /\ (s[1] = "TOR" => Even(r)) /\ Placed(s)
    BY <1>3, <2>3, <2>4, <2>5, <2>6
  <2>7. \A s \in DOMAIN sw' : (Placed(s) /\ TableIsRight(s, sw[s]) /\ (s[1] = "TOR" => Even(sw[s])))'
    <3> TAKE s \in DOMAIN sw'
    <3> PICK r : r = sw'[s]
      OBVIOUS
    <3>1. TableIsRight(s, r) /\ (s[1] = "TOR" => Even(r)) /\ Placed(s)
      BY <2>6
    <3> QED BY <1>0, <3>1
  <2> QED BY <2>1, <2>7 DEF SwitchesAreRight
<1>6. CASE \E f \in flows, path \in PathIds, size \in PacketSizes(strategy) :
             SendPacket(f, path, size)
  BY <1>4, <1>6 DEF SendPacket
<1>7. ASSUME NEW p \in net, ForwardToHost(p) \/ Receive(p)
      PROVE  sw' = sw /\ hash' = hash
  BY <1>7 DEF ForwardToHost, Receive
<1>8. CASE UNCHANGED vars
  BY <1>4, <1>8 DEF vars
<1> QED BY <1>4, <1>5, <1>6, <1>7, <1>8 DEF Next

LEMMA BaseInit == Init => Base
<1> SUFFICES ASSUME Init PROVE Base
  OBVIOUS
<1>1. DOMAIN sw = {} /\ DOMAIN hash = {} /\ net = {}
  BY DEF Init
<1>2. topo \in Topologies /\ strategy \in Strategies(topo) /\ flows \in FlowSets(topo, strategy)
      /\ \A f \in flows : entry[f] \in EntryToRs(f[1])
  BY DEF Init
<1>3. flows \subseteq HostsOf(topo) \X HostsOf(topo)
  BY <1>2, FlowsAssumption
<1> QED BY <1>1, <1>2, <1>3 DEF Base, FlowsAreRight, SwitchesAreRight

LEMMA BaseNext == Base /\ [Next]_vars => Base'
<1> SUFFICES ASSUME Base, [Next]_vars PROVE Base'
  OBVIOUS
<1>1. UNCHANGED <<topo, strategy, flows, entry>>
  BY StepIs
<1>2. FlowsAreRight'
  BY <1>1, SameRight DEF Base
<1>3. /\ SwitchesAreRight'
      /\ \A k \in DOMAIN hash' : hash'[k] \in Nat
  BY SwitchesStayRight
<1>4. \A q \in net' : Trip(q)'
  BY TripsGoOn
<1> QED BY <1>2, <1>3, <1>4 DEF Base

(* The invariant that the next theorems rest on                              *)
LEMMA BaseHolds == Spec => []Base
BY BaseInit, BaseNext, PTL DEF Spec

(* Round robin at a ToR spreads the packets evenly over its uplinks on every *)
(* topology, for every order in which destinations are first looked up and   *)
(* lists are shuffled.                                                       *)
THEOREM RoundRobinIsEven == Spec => []SpreadsEvenly
<1>1. Base => SpreadsEvenly
  <2> SUFFICES ASSUME Base, NEW s \in DOMAIN sw, s[1] = "TOR"
               PROVE  \A a, b \in DOMAIN sw[s].uses : sw[s].uses[a] <= sw[s].uses[b] + 1
    BY DEF SpreadsEvenly
  <2>1. Even(sw[s])
    BY DEF Base, SwitchesAreRight
  <2> QED BY <2>1, EvenIsBalanced
<1> QED BY <1>1, BaseHolds, PTL

-----------------------------------------------------------------------------
(* Packets go straight *)

LEMMA TierRange ==
  ASSUME topo \in Topologies, NEW s, Placed(s)
  PROVE  Tier(s) \in 1 .. 6
<1>1. CASE IsTree
  BY <1>1, TopoIs, PlaceIs, TierIs DEF Placed
<1>2. CASE ~ IsTree
  BY <1>2, TierIs DEF Placed, WanSeat
<1> QED BY <1>1, <1>2

(* A switch above the source of a flow but not above its destination is      *)
(* below the tier at which the two meet.                                     *)
LEMMA MeetIs ==
  ASSUME topo \in Topologies, NEW f, f[1] \in HostsOf(topo), f[2] \in HostsOf(topo)
  PROVE  /\ MeetingTier(f) \in 1 .. 6
         /\ \A s : Placed(s) /\ Covers(s, f[1]) /\ ~ Covers(s, f[2])
                     => IF Tier(s) = 6 THEN MeetingTier(f) = 6 ELSE Tier(s) < MeetingTier(f)
<1> PICK a, b : a = f[1] /\ b = f[2]
  OBVIOUS
<1>1. CASE IsTree
  <2>1. Sound(topo) /\ a \in 0 .. topo.nodes - 1 /\ b \in 0 .. topo.nodes - 1
    BY <1>1, TopoIs
  <2>2. MeetingTier(f) = IF HOST_POD_SWITCH(topo, a) = HOST_POD_SWITCH(topo, b) THEN 1
                         ELSE IF HOST_POD(topo, a) = HOST_POD(topo, b) THEN 2 ELSE 3
    BY <1>1 DEF MeetingTier
  <2>3. HOST_POD_SWITCH(topo, a) = HOST_POD_SWITCH(topo, b) => HOST_POD(topo, a) = HOST_POD(topo, b)
    BY <2>1, HostSwitch DEF Sound
  <2>4. ASSUME NEW s, Placed(s), Covers(s, a), ~ Covers(s, b)
        PROVE  IF Tier(s) = 6 THEN MeetingTier(f) = 6 ELSE Tier(s) < MeetingTier(f)
    <3>1. TreeCovers(topo, s, a) /\ ~ TreeCovers(topo, s, b) /\ TreePlace(topo, s)
      BY <1>1, <2>4 DEF Covers, Placed
    <3>2. s[1] \in {"TOR", "AGG", "CORE"}
      BY <2>1, <3>1, PlaceIs
    <3>3. CASE s[1] = "TOR"
      BY <2>2, <3>1, <3>3, TierIs DEF TreeCovers
    <3>4. CASE s[1] = "AGG"
      <4>1. HOST_POD(topo, a) # HOST_POD(topo, b)
        BY <3>1, <3>4 DEF TreeCovers
      <4> QED BY <2>2, <2>3, <3>4, <4>1, TierIs
    <3>5. CASE s[1] = "CORE"
      BY <3>1, <3>5 DEF TreeCovers
    <3> QED BY <3>2, <3>3, <3>4, <3>5
  <2> QED BY <2>2, <2>4
<1>2. CASE ~ IsTree
  <2> PICK tor : tor = CHOOSE t \in EntryToRs(a) : TRUE
    OBVIOUS
  <2>1. tor \in EntryToRs(a)
    <3>1. WanPositive(topo)
      BY <1>2, TopoIs
    <3>2. 0 \in 0 .. topo.tors - 1
      BY <3>1 DEF WanPositive, Positive
    <3>3. EntryToRs(a) # {}
      BY <1>2, <3>2 DEF EntryToRs
    <3> QED BY <3>3
  <2>2. MeetingTier(f) = IF W!IsDstTorGroup(topo, tor, b) THEN 1
                         ELSE IF W!IsDstLeafGroup(topo, tor, b) THEN 2
                         ELSE IF W!IsDstDc(topo, tor, b) THEN 3
                         ELSE IF W!IsDstRegion(topo, tor, b) THEN 4 ELSE 6
    BY <1>2 DEF MeetingTier
  <2>3. W!IsDstTorGroup(topo, tor, a)
    <3>1. Covers(tor, a) /\ tor[1] = "TOR"
      BY <2>1, EntryIs
    <3> QED BY <1>2, <3>1 DEF Covers, WanCovers
  <2>4. ASSUME NEW s, Placed(s), Covers(s, a), ~ Covers(s, b)
        PROVE  IF Tier(s) = 6 THEN MeetingTier(f) = 6 ELSE Tier(s) < MeetingTier(f)
    <3>1. WanCovers(topo, s, a) /\ ~ WanCovers(topo, s, b) /\ WanSeat(topo, s)
      BY <1>2, <2>4 DEF Covers, Placed
    <3>2. s[1] \in {"TOR", "LEAF", "SPINE", "RH", "RWA", "OWR"}
      BY <3>1 DEF WanSeat
    <3>3. CASE s[1] = "TOR"
      <4>1. ~ W!IsDstTorGroup(topo, tor, b)
        BY <2>3, <3>1, <3>3
           DEF WanCovers, W!IsDstTorGroup, W!IsDstLeafGroup, W!IsDstDc, W!IsDstRegion
      <4> QED BY <2>2, <3>3, <4>1, TierIs
    <3>4. CASE s[1] = "LEAF"
      <4>1. ~ W!IsDstLeafGroup(topo, tor, b) /\ ~ W!IsDstTorGroup(topo, tor, b)
        BY <2>3, <3>1, <3>4
           DEF WanCovers, W!IsDstTorGroup, W!IsDstLeafGroup, W!IsDstDc, W!IsDstRegion
      <4> QED BY <2>2, <3>4, <4>1, TierIs
    <3>5. CASE s[1] = "SPINE"
      <4>1. /\ ~ W!IsDstDc(topo, tor, b) /\ ~ W!IsDstLeafGroup(topo, tor, b)
            /\ ~ W!IsDstTorGroup(topo, tor, b)
        BY <2>3, <3>1, <3>5
           DEF WanCovers, W!IsDstTorGroup, W!IsDstLeafGroup, W!IsDstDc, W!IsDstRegion
      <4> QED BY <2>2, <3>5, <4>1, TierIs
    <3>6. CASE s[1] \in {"RH", "RWA", "OWR"}
      <4>1. /\ ~ W!IsDstRegion(topo, tor, b) /\ ~ W!IsDstDc(topo, tor, b)
            /\ ~ W!IsDstLeafGroup(topo, tor, b) /\ ~ W!IsDstTorGroup(topo, tor, b)
        BY <2>3, <3>1, <3>6
           DEF WanCovers, W!IsDstTorGroup, W!IsDstLeafGroup, W!IsDstDc, W!IsDstRegion
      <4>2. MeetingTier(f) = 6
        BY <2>2, <4>1
      <4>3. Tier(s) \in {4, 5, 6}
        BY <3>6, TierIs
      <4> QED BY <4>2, <4>3
    <3> QED BY <3>2, <3>3, <3>4, <3>5, <3>6
  <2> QED BY <2>2, <2>4
<1> QED BY <1>1, <1>2

-----------------------------------------------------------------------------
(* The link e of a trail, after the link b unless it is the first, leads no   *)
(* higher than the meeting tier, and never up once the trail has gone down.   *)
Fine(f, e) ==
  /\ Tier(e.from) \in Nat /\ Tier(e.to) \in Nat
  /\ Tier(e.to) <= MeetingTier(f)
  /\ Tier(e.from) = Tier(e.to) => Tier(e.from) = 6
After(b, e) == e.from = b.to /\ (Tier(b.from) >= Tier(b.to) => Tier(e.from) > Tier(e.to))

(* A packet that has gone straight: while it goes up, its switch is above    *)
(* the source, and from then on above the destination.                       *)
Straight(p) ==
  /\ \A i \in 1 .. Len(p.trail) : Fine(p.flow, p.trail[i])
  /\ \A i \in 1 .. Len(p.trail) - 1 : After(p.trail[i], p.trail[i + 1])
  /\ IF At(p)[1] = "HOST" THEN At(p) = Host(p.flow[2])
     ELSE LET last == p.trail[Len(p.trail)]
          IN  IF Tier(last.from) < Tier(last.to) THEN Covers(At(p), p.flow[1])
              ELSE Covers(At(p), p.flow[2])

(* A packet at the ToR of its source has gone straight.                      *)
LEMMA FreshIsStraight ==
  ASSUME FlowsAreRight, NEW q, Fresh(q)
  PROVE  Straight(q)
<1> PICK f, s, e : f = q.flow /\ s = At(q) /\ e = q.trail[1]
  OBVIOUS
<1>1. /\ topo \in Topologies /\ f[1] \in HostsOf(topo) /\ f[2] \in HostsOf(topo)
      /\ Len(q.trail) = 1 /\ e = Link(Host(f[1]), s, 0)
      /\ Placed(s) /\ s[1] = "TOR" /\ Covers(s, f[1])
  BY FreshIs
<1>2. e.from = Host(f[1]) /\ e.to = s
  BY <1>1 DEF Link
<1>3. Tier(e.from) = 0 /\ Tier(e.to) = 1
  <2>1. Host(f[1])[1] = "HOST"
    BY DEF Host
  <2> QED BY <1>1, <1>2, <2>1, TierIs
<1>4. MeetingTier(f) \in 1 .. 6
  BY <1>1, MeetIs
<1>5. Fine(f, e)
  BY <1>3, <1>4 DEF Fine
<1>6. /\ \A i \in 1 .. Len(q.trail) : i = 1
      /\ \A i \in 1 .. Len(q.trail) - 1 : FALSE
  BY <1>1
<1>7. s[1] # "HOST" /\ Tier(e.from) < Tier(e.to)
  BY <1>1, <1>3
<1> QED BY <1>1, <1>5, <1>6, <1>7 DEF Straight

(* The next link of a packet that has gone straight is straight.             *)
LEMMA NextIsStraight ==
  ASSUME Base, TwoRegions, NEW p \in net, Straight(p), NEW e, Goes(p, e),
         NEW b, b = p.trail[Len(p.trail)], NEW f, f = p.flow
  PROVE  /\ Fine(f, e) /\ After(b, e)
         /\ IF e.to[1] = "HOST" THEN e.to = Host(f[2])
            ELSE IF Tier(e.from) < Tier(e.to) THEN Covers(e.to, f[1]) ELSE Covers(e.to, f[2])
<1> PICK s, n, m : s = At(p) /\ n = e.to /\ m = MeetingTier(f)
  OBVIOUS
<1>1. /\ topo \in Topologies /\ f[1] \in HostsOf(topo) /\ f[2] \in HostsOf(topo)
      /\ Len(p.trail) \in 1 .. Len(p.trail) /\ s = b.to /\ s[1] # "HOST" /\ Placed(s)
  BY PacketIs DEF Goes
<1>2. Tier(s) \in 1 .. 6 /\ m \in 1 .. 6
  BY <1>1, TierRange, MeetIs
<1>3. /\ Tier(b.from) \in Nat /\ Tier(s) <= m
      /\ IF Tier(b.from) < Tier(s) THEN Covers(s, f[1]) ELSE Covers(s, f[2])
  <2>1. Fine(f, b)
    BY <1>1 DEF Straight
  <2> QED BY <1>1, <2>1 DEF Fine, Straight
<1>4. CASE IsLocal(s, f[2])
  <2>1. e = Link(s, Host(f[2]), 0) /\ s[1] = "TOR"
    BY <1>1, <1>4, LocalIs DEF Goes
  <2>2. e.from = s /\ n = Host(f[2]) /\ n[1] = "HOST"
    BY <2>1 DEF Link, Host
  <2>3. Tier(s) = 1 /\ Tier(n) = 0
    BY <2>1, <2>2, TierIs
  <2> QED BY <1>1, <1>2, <2>2, <2>3 DEF Fine, After
<1>5. CASE ~ IsLocal(s, f[2])
  <2>1. /\ e = Link(s, n, e.bundle) /\ Placed(n)
        /\ IF Covers(s, f[2]) THEN Down(s, n, f[2]) ELSE Up(s, n) \/ Over(s, n, f[2])
    BY <1>5 DEF Goes, Nears
  <2>2. e.from = s /\ n[1] # "HOST" /\ Tier(n) \in 1 .. 6
    BY <1>1, <2>1, TierRange, PlacedIsSwitch DEF Link
  <2>3. CASE Covers(s, f[2])
    <3>1. Tier(n) = Tier(s) - 1 /\ Covers(n, f[2])
      BY <2>1, <2>3 DEF Down
    <3>2. Tier(n) < Tier(s) /\ Tier(n) <= m
      BY <1>2, <1>3, <2>2, <3>1
    <3> QED BY <1>1, <1>2, <2>2, <3>1, <3>2 DEF Fine, After
  <2>4. CASE ~ Covers(s, f[2])
    <3>1. Tier(b.from) < Tier(s) /\ Covers(s, f[1])
      BY <1>3, <2>4
    <3>2. IF Tier(s) = 6 THEN m = 6 ELSE Tier(s) < m
      BY <1>1, <2>4, <3>1, MeetIs
    <3>3. CASE Up(s, n)
      <4>1. Tier(n) = Tier(s) + 1 /\ Covers(n, f[1])
        BY <1>1, <3>1, <3>3 DEF Up
      <4>2. Tier(s) < Tier(n) /\ Tier(n) <= m /\ ~ (Tier(b.from) >= Tier(s))
        BY <1>2, <1>3, <2>2, <3>1, <3>2, <4>1
      <4> QED BY <1>1, <1>2, <2>2, <4>1, <4>2 DEF Fine, After
    <3>4. CASE Over(s, n, f[2])
      <4>1. Tier(n) = 6 /\ Tier(s) = 6 /\ Covers(n, f[2])
        BY <3>4 DEF Over
      <4>2. m = 6 /\ ~ (Tier(b.from) >= Tier(s))
        BY <1>2, <1>3, <3>1, <3>2, <4>1
      <4> QED BY <1>1, <1>2, <2>2, <4>1, <4>2 DEF Fine, After
    <3> QED BY <2>1, <2>4, <3>3, <3>4
  <2> QED BY <2>3, <2>4
<1> QED BY <1>4, <1>5

StraightInv == Base /\ \A p \in net : Straight(p)

LEMMA SameStraight ==
  ASSUME topo' = topo, NEW q
  PROVE  Straight(q)' <=> Straight(q)
<1>1. IsTree' <=> IsTree
  BY DEF IsTree
<1>2. \A h : EntryToRs(h)' = EntryToRs(h)
  BY <1>1 DEF EntryToRs
<1>3. \A f : MeetingTier(f)' = MeetingTier(f)
  BY <1>1, <1>2 DEF MeetingTier
<1>4. \A f, e : Fine(f, e)' <=> Fine(f, e)
  BY <1>3 DEF Fine
<1>5. \A s, h : Covers(s, h)' <=> Covers(s, h)
  BY <1>1 DEF Covers
<1>6. At(q)' = At(q)
  BY DEF At
<1> QED BY <1>4, <1>5, <1>6 DEF Straight

(* Every step keeps packets straight.                                        *)
LEMMA StraightNext ==
  ASSUME StraightInv, TwoRegions, [Next]_vars
  PROVE  StraightInv'
<1>1. NetStep /\ topo' = topo
  BY StepIs DEF StraightInv
<1>2. ASSUME NEW q \in net' PROVE Straight(q)
  <2>1. CASE q \in net
    BY <2>1 DEF StraightInv
  <2>2. CASE Fresh(q)
    BY <2>2, FreshIsStraight DEF StraightInv, Base
  <2>3. ASSUME NEW p \in net, NEW e, Goes(p, e), q = Longer(p, e) PROVE Straight(q)
    <3> PICK f, n, b : f = p.flow /\ n = Len(p.trail) /\ b = p.trail[n]
      OBVIOUS
    <3>1. Base /\ Straight(p)
      BY DEF StraightInv
    <3>2. /\ Fine(f, e) /\ After(b, e)
          /\ IF e.to[1] = "HOST" THEN e.to = Host(f[2])
             ELSE IF Tier(e.from) < Tier(e.to) THEN Covers(e.to, f[1]) ELSE Covers(e.to, f[2])
      BY <2>3, <3>1, NextIsStraight
    <3>3. Extends(q, p, e, n)
      BY <2>3, <3>1, GoesIs
    <3>4. /\ q.flow = f /\ n \in Nat /\ n >= 1 /\ Len(q.trail) = n + 1 /\ q.trail[n + 1] = e
          /\ At(q) = e.to /\ \A i \in 1 .. n : q.trail[i] = p.trail[i]
      BY <3>3 DEF Extends
    <3>5. /\ \A i \in 1 .. n : Fine(f, p.trail[i])
          /\ \A i \in 1 .. n - 1 : After(p.trail[i], p.trail[i + 1])
      BY <3>1 DEF Straight
    <3>6. \A i \in 1 .. Len(q.trail) : Fine(f, q.trail[i])
      <4>1. \A i \in 1 .. Len(q.trail) : i \in 1 .. n \/ i = n + 1
        BY <3>4
      <4> QED BY <3>2, <3>4, <3>5, <4>1
    <3>7. \A i \in 1 .. Len(q.trail) - 1 : After(q.trail[i], q.trail[i + 1])
      <4> TAKE i \in 1 .. Len(q.trail) - 1
      <4>1. i \in 1 .. n /\ (i = n \/ (i \in 1 .. n - 1 /\ i + 1 \in 1 .. n))
        BY <3>4
      <4>2. CASE i = n
        BY <3>2, <3>4, <4>1, <4>2
      <4>3. CASE i \in 1 .. n - 1 /\ i + 1 \in 1 .. n
        BY <3>4, <3>5, <4>1, <4>3
      <4> QED BY <4>1, <4>2, <4>3
    <3>8. q.trail[Len(q.trail)] = e
      BY <3>4
    <3> QED BY <3>2, <3>4, <3>6, <3>7, <3>8 DEF Straight
  <2> QED BY <1>1, <2>1, <2>2, <2>3 DEF NetStep
<1>3. \A q \in net' : Straight(q)'
  BY <1>1, <1>2, SameStraight
<1>4. Base'
  BY BaseNext DEF StraightInv
<1> QED BY <1>3, <1>4 DEF StraightInv

(* Packets that have gone straight make no detour.                           *)
LEMMA StraightIsNoDetour == StraightInv => NoDetour
<1> SUFFICES ASSUME StraightInv, NEW p \in net
             PROVE  /\ \A i \in DOMAIN p.trail :
                         /\ Wired(p.trail[i])
                         /\ Tier(p.trail[i].to) <= MeetingTier(p.flow)
                         /\ Tier(p.trail[i].from) = Tier(p.trail[i].to) => Tier(p.trail[i].from) = 6
                         /\ i > 1 => /\ p.trail[i].from = p.trail[i - 1].to
                                     /\ Tier(p.trail[i - 1].from) >= Tier(p.trail[i - 1].to)
                                          => Tier(p.trail[i].from) > Tier(p.trail[i].to)
                    /\ At(p)[1] = "HOST" => At(p) = Host(p.flow[2])
  BY DEF NoDetour
<1> PICK n, t : n = Len(p.trail) /\ t = p.trail
  OBVIOUS
<1>1. /\ n \in Nat /\ DOMAIN t = 1 .. n
      /\ \A i \in 1 .. n : Wired(t[i])
  <2>1. Base /\ Trip(p)
    BY DEF StraightInv, Base
  <2>2. IsSeq(t)
    BY <2>1 DEF Trip
  <2> QED BY <2>1, <2>2, SeqIs DEF Trip
<1>2. /\ \A i \in 1 .. n : Fine(p.flow, t[i])
      /\ \A i \in 1 .. n - 1 : After(t[i], t[i + 1])
      /\ At(p)[1] = "HOST" => At(p) = Host(p.flow[2])
  BY DEF StraightInv, Straight
<1>3. ASSUME NEW i \in 1 .. n, i > 1 PROVE After(t[i - 1], t[i])
  <2>1. i - 1 \in 1 .. n - 1 /\ (i - 1) + 1 = i
    BY <1>1, <1>3
  <2> QED BY <1>2, <2>1
<1> QED BY <1>1, <1>2, <1>3 DEF Fine, After

(* Packets go over links that exist straight up to the tier where their two  *)
(* hosts meet, and straight down to their own destination, on every fat tree *)
(* and on every WAN of at most two regions.                                  *)
THEOREM PacketsGoStraight ==
  ASSUME \A t \in Topologies : t.kind = "ai" => t.regions <= 2
  PROVE  Spec => []NoDetour
<1>1. Init => StraightInv
  <2>1. Init => net = {}
    BY DEF Init
  <2> QED BY <2>1, BaseInit DEF StraightInv
<1>2. Base => TwoRegions
  <2> SUFFICES ASSUME Base PROVE TwoRegions
    OBVIOUS
  <2>1. topo \in Topologies
    BY DEF Base, FlowsAreRight
  <2> QED BY <2>1, TopologiesAssumption DEF TwoRegions, IsTree
<1>3. StraightInv /\ [Next]_vars => StraightInv'
  BY <1>2, StraightNext DEF StraightInv
<1> QED BY <1>1, <1>3, StraightIsNoDetour, PTL DEF Spec

-----------------------------------------------------------------------------
(* Packets follow the routes of a source *)

(* The link e leads on from the switch s of a tree. *)
TreeGoes(t, s, e, dst) ==
  IF TreeLocal(t, s, dst) THEN e = Link(s, Host(dst), 0) ELSE TreeStep(t, s, e, dst)

(* The routes of a source in terms of the choices along them *)
PodRoute(t, src, dst, a, u, d) ==
  <<FirstLink(t, src),
    Link(Tor(HOST_POD_SWITCH(t, src)), Agg(a), u),
    Link(Agg(a), Tor(HOST_POD_SWITCH(t, dst)), d),
    LastLink(t, dst)>>
Above(t, a, l) == (a % t.aggsPerPod) + t.aggsPerPod * l
Beside(t, dst, c) == MIN_POD_AGG_SWITCH(t, HOST_POD(t, dst)) + (c % t.aggsPerPod)
CoreRoute(t, src, dst, a, l, u, v, w, x) ==
  <<FirstLink(t, src),
    Link(Tor(HOST_POD_SWITCH(t, src)), Agg(a), u),
    Link(Agg(a), Core(Above(t, a, l)), v),
    Link(Core(Above(t, a, l)), Agg(Beside(t, dst, Above(t, a, l))), w),
    Link(Agg(Beside(t, dst, Above(t, a, l))), Tor(HOST_POD_SWITCH(t, dst)), x),
    LastLink(t, dst)>>

Uppers(t, src) ==
  MIN_POD_AGG_SWITCH(t, HOST_POD(t, src)) .. MAX_POD_AGG_SWITCH(t, HOST_POD(t, src))
Bundle(t, i) == 0 .. t.bundle[i] - 1
Cores1(t) == 0 .. (t.up[2] \div t.bundle[3]) - 1

(* The sets of routes by the choices along them                              *)
LEMMA PodRoutesAre ==
  ASSUME NEW t, NEW src, NEW dst
  PROVE  /\ \A r \in SamePodRoutes(t, src, dst) :
              \E a \in Uppers(t, src), u \in Bundle(t, 2), d \in Bundle(t, 2) :
                r = PodRoute(t, src, dst, a, u, d)
         /\ \A a \in Uppers(t, src), u \in Bundle(t, 2), d \in Bundle(t, 2) :
              PodRoute(t, src, dst, a, u, d) \in SamePodRoutes(t, src, dst)
BY DEF SamePodRoutes, PodRoute, Uppers, Bundle

LEMMA CoreRoutesAre ==
  ASSUME NEW t, NEW src, NEW dst
  PROVE  /\ \A r \in OtherPodRoutes(t, src, dst) :
              \E a \in Uppers(t, src), l \in Cores1(t), u \in Bundle(t, 2), v \in Bundle(t, 3),
                 w \in Bundle(t, 3), x \in Bundle(t, 2) :
                r = CoreRoute(t, src, dst, a, l, u, v, w, x)
         /\ \A a \in Uppers(t, src), l \in Cores1(t), u \in Bundle(t, 2), v \in Bundle(t, 3),
               w \in Bundle(t, 3), x \in Bundle(t, 2) :
              CoreRoute(t, src, dst, a, l, u, v, w, x) \in OtherPodRoutes(t, src, dst)
<1> DEFINE core(a, l) == (a % t.aggsPerPod) + t.aggsPerPod * l
           upper2(c) == MIN_POD_AGG_SWITCH(t, HOST_POD(t, dst)) + (c % t.aggsPerPod)
           route(upper, l, b1, b2) ==
             <<FirstLink(t, src),
               Link(Tor(HOST_POD_SWITCH(t, src)), Agg(upper), b1[1]),
               Link(Agg(upper), Core(core(upper, l)), b2[1]),
               Link(Core(core(upper, l)), Agg(upper2(core(upper, l))), b2[2]),
               Link(Agg(upper2(core(upper, l))), Tor(HOST_POD_SWITCH(t, dst)), b1[2]),
               LastLink(t, dst)>>
<1>1. OtherPodRoutes(t, src, dst) =
        {route(a, l, b1, b2) :
           a \in Uppers(t, src), l \in Cores1(t),
           b1 \in Bundle(t, 2) \X Bundle(t, 2), b2 \in Bundle(t, 3) \X Bundle(t, 3)}
  BY DEF OtherPodRoutes, Uppers, Bundle, Cores1
<1>2. \A a, l, b1, b2 :
        route(a, l, b1, b2) = CoreRoute(t, src, dst, a, l, b1[1], b2[1], b2[2], b1[2])
  BY DEF CoreRoute, Above, Beside
<1> HIDE DEF route
<1>3. ASSUME NEW r \in OtherPodRoutes(t, src, dst)
      PROVE  \E a \in Uppers(t, src), l \in Cores1(t), u \in Bundle(t, 2), v \in Bundle(t, 3),
                w \in Bundle(t, 3), x \in Bundle(t, 2) :
               r = CoreRoute(t, src, dst, a, l, u, v, w, x)
  <2>1. PICK a \in Uppers(t, src), l \in Cores1(t),
             b1 \in Bundle(t, 2) \X Bundle(t, 2), b2 \in Bundle(t, 3) \X Bundle(t, 3) :
          r = route(a, l, b1, b2)
    BY <1>1
  <2>2. r = CoreRoute(t, src, dst, a, l, b1[1], b2[1], b2[2], b1[2])
    BY <1>2, <2>1
  <2>3. b1[1] \in Bundle(t, 2) /\ b1[2] \in Bundle(t, 2) /\ b2[1] \in Bundle(t, 3)
        /\ b2[2] \in Bundle(t, 3)
    OBVIOUS
  <2> QED BY <2>2, <2>3
<1>4. ASSUME NEW a \in Uppers(t, src), NEW l \in Cores1(t), NEW u \in Bundle(t, 2),
             NEW v \in Bundle(t, 3), NEW w \in Bundle(t, 3), NEW x \in Bundle(t, 2)
      PROVE  CoreRoute(t, src, dst, a, l, u, v, w, x) \in OtherPodRoutes(t, src, dst)
  <2> PICK b1, b2 : b1 = <<u, x>> /\ b2 = <<v, w>>
    OBVIOUS
  <2>1. /\ b1 \in Bundle(t, 2) \X Bundle(t, 2) /\ b2 \in Bundle(t, 3) \X Bundle(t, 3)
        /\ b1[1] = u /\ b1[2] = x /\ b2[1] = v /\ b2[2] = w
    OBVIOUS
  <2>2. route(a, l, b1, b2) = CoreRoute(t, src, dst, a, l, u, v, w, x)
    BY <1>2, <2>1
  <2>3. route(a, l, b1, b2) \in OtherPodRoutes(t, src, dst)
    BY <1>1, <2>1
  <2> QED BY <2>2, <2>3
<1> QED BY <1>3, <1>4

(* The trail t agrees with the route r as far as it goes. *)
Along(t, r) == Len(t) <= Len(r) /\ \A i \in 1 .. Len(t) : t[i] = r[i]
(* The routes q and r agree on n links, after which q has e. *)
Branches(q, r, n, e) == n + 1 <= Len(q) /\ (\A i \in 1 .. n : q[i] = r[i]) /\ q[n + 1] = e

(* Wherever the switches lead a packet that has followed a route so far, it  *)
(* follows a route, in the three cases of get_bidir_paths.                   *)
LEMMA TorRouteGoesOn ==
  ASSUME NEW t, NEW src, NEW dst, HOST_POD_SWITCH(t, src) = HOST_POD_SWITCH(t, dst),
         NEW r \in SameTorRoutes(t, src, dst), NEW n \in 1 .. Len(r),
         NEW s, s = r[n].to, s[1] # "HOST", NEW e, TreeGoes(t, s, e, dst)
  PROVE  Branches(r, r, n, e)
<1> PICK a, b : a = FirstLink(t, src) /\ b = LastLink(t, dst)
  OBVIOUS
<1>1. r = <<a, b>>
  BY DEF SameTorRoutes
<1>2. Len(r) = 2 /\ r[1] = a /\ r[2] = b
  BY <1>1
<1>3. n = 1
  <2>1. b.to[1] = "HOST"
    BY DEF LastLink, Link, Host
  <2>2. n \in {1, 2}
    BY <1>2
  <2> QED BY <1>2, <2>1, <2>2
<1>4. s = Tor(HOST_POD_SWITCH(t, src))
  BY <1>2, <1>3 DEF FirstLink, Link
<1>5. TreeLocal(t, s, dst)
  BY <1>4 DEF TreeLocal, Tor
<1>6. e = b
  BY <1>4, <1>5 DEF TreeGoes, LastLink
<1> QED BY <1>2, <1>3, <1>6 DEF Branches

(* The aggregation switches of the pod of a source                           *)
LEMMA UppersAre ==
  ASSUME NEW t, Sound(t), Routable(t), NEW src \in 0 .. t.nodes - 1
  PROVE  /\ PodAggs(t, HOST_POD_SWITCH(t, src) \div t.torsPerPod) = Uppers(t, src)
         /\ \A a \in Uppers(t, src) :
              a \in 0 .. t.aggs - 1 /\ (t.tiers = 3 => AGG_SWITCH_POD_ID(t, a) = HOST_POD(t, src))
<1> PICK i, pod : i = HOST_POD_SWITCH(t, src) /\ pod = i \div t.torsPerPod
  OBVIOUS
<1>1. /\ i \in 0 .. t.tors - 1
      /\ t.tiers = 3 => pod = HOST_POD(t, src)
      /\ t.tiers = 2 => HOST_POD(t, src) = 0
  BY HostSwitch
<1>2. pod \in Nat /\ (t.tiers = 3 => pod \in 0 .. t.pods - 1)
  BY <1>1, PodOfTor
<1>3. PodAggs(t, pod) = Uppers(t, src)
  <2>1. CASE t.tiers = 3
    BY <1>1, <2>1 DEF PodAggs, Uppers
  <2>2. CASE t.tiers = 2
    <3> PICK c : c = t.aggsPerPod
      OBVIOUS
    <3>1. c \in Nat /\ t.aggs = c
      BY <2>2 DEF Sound, Positive, Routable
    <3>2. 0 * c = 0 /\ (0 + 1) * c - 1 = c - 1
      BY <3>1
    <3>3. Uppers(t, src) = 0 .. c - 1
      BY <1>1, <2>2, <3>2 DEF Uppers, MIN_POD_AGG_SWITCH, MAX_POD_AGG_SWITCH
    <3> QED BY <2>2, <3>1, <3>3 DEF PodAggs
  <2> QED BY <2>1, <2>2 DEF Sound
<1>4. \A a \in PodAggs(t, pod) :
        a \in 0 .. t.aggs - 1 /\ (t.tiers = 3 => AGG_SWITCH_POD_ID(t, a) = pod)
  BY <1>2, AggAbovePod
<1> QED BY <1>1, <1>3, <1>4

(* From the ToR of the source to any switch above it *)
LEMMA FirstHop ==
  ASSUME NEW t, Sound(t), Routable(t), NEW src \in 0 .. t.nodes - 1, NEW dst,
         HOST_POD_SWITCH(t, src) # HOST_POD_SWITCH(t, dst),
         NEW s, s = Tor(HOST_POD_SWITCH(t, src)), NEW e, TreeGoes(t, s, e, dst)
  PROVE  \E a \in Uppers(t, src), u \in Bundle(t, 2) : e = Link(s, Agg(a), u)
<1>1. s[1] = "TOR" /\ s[2] = HOST_POD_SWITCH(t, src)
  BY DEF Tor
<1>2. TreeStep(t, s, e, dst)
  BY <1>1 DEF TreeGoes, TreeLocal
<1>3. \E a \in PodAggs(t, s[2] \div t.torsPerPod), u \in 0 .. t.bundle[2] - 1 : e = Link(s, Agg(a), u)
  BY <1>1, <1>2 DEF TreeStep
<1> QED BY <1>1, <1>3, UppersAre DEF Bundle

(* From a switch above the destination down to its ToR, and to the host *)
LEMMA LowerHop ==
  ASSUME NEW t, NEW dst, NEW s, s[1] = "AGG",
         t.tiers = 2 \/ HOST_POD(t, dst) = AGG_SWITCH_POD_ID(t, s[2]),
         NEW e, TreeGoes(t, s, e, dst)
  PROVE  \E d \in Bundle(t, 2) : e = Link(s, Tor(HOST_POD_SWITCH(t, dst)), d)
<1>1. TreeStep(t, s, e, dst)
  BY DEF TreeGoes, TreeLocal
<1> QED BY <1>1 DEF TreeStep, Bundle

LEMMA LastHop ==
  ASSUME NEW t, NEW dst, NEW s, s = Tor(HOST_POD_SWITCH(t, dst)), NEW e, TreeGoes(t, s, e, dst)
  PROVE  e = LastLink(t, dst)
<1>1. TreeLocal(t, s, dst)
  BY DEF TreeLocal, Tor
<1> QED BY <1>1 DEF TreeGoes, LastLink

LEMMA PodRouteGoesOn ==
  ASSUME NEW t, Sound(t), Routable(t), NEW src \in 0 .. t.nodes - 1, NEW dst \in 0 .. t.nodes - 1,
         HOST_POD_SWITCH(t, src) # HOST_POD_SWITCH(t, dst), HOST_POD(t, src) = HOST_POD(t, dst),
         NEW r \in SamePodRoutes(t, src, dst), NEW n \in 1 .. Len(r),
         NEW s, s = r[n].to, s[1] # "HOST", NEW e, TreeGoes(t, s, e, dst)
  PROVE  \E q \in SamePodRoutes(t, src, dst) : Branches(q, r, n, e)
<1> PICK first, last, x, y : /\ first = FirstLink(t, src) /\ last = LastLink(t, dst)
                             /\ x = Tor(HOST_POD_SWITCH(t, src))
                             /\ y = Tor(HOST_POD_SWITCH(t, dst))
  OBVIOUS
<1>0. /\ \A b, c, v : Link(b, c, v).to = c
      /\ first.to = x /\ last.to[1] = "HOST"
  BY DEF FirstLink, LastLink, Link, Host
<1>1. PICK a \in Uppers(t, src), u \in Bundle(t, 2), d \in Bundle(t, 2) :
        r = PodRoute(t, src, dst, a, u, d)
  BY PodRoutesAre
<1>2. /\ Len(r) = 4 /\ r[1] = first /\ r[2] = Link(x, Agg(a), u) /\ r[3] = Link(Agg(a), y, d)
      /\ r[4] = last
  BY <1>1 DEF PodRoute
<1>3. n \in {1, 2, 3}
  <2>1. n \in {1, 2, 3, 4}
    BY <1>2
  <2>2. n # 4
    BY <1>0, <1>2
  <2> QED BY <2>1, <2>2
<1>4. CASE n = 1
  <2>1. PICK b \in Uppers(t, src), v \in Bundle(t, 2) : e = Link(x, Agg(b), v)
    BY <1>0, <1>2, <1>4, FirstHop
  <2> PICK q : q = PodRoute(t, src, dst, b, v, d)
    OBVIOUS
  <2>2. q \in SamePodRoutes(t, src, dst)
    BY PodRoutesAre
  <2>3. Len(q) = 4 /\ q[1] = first /\ q[2] = Link(x, Agg(b), v)
    BY DEF PodRoute
  <2>4. Branches(q, r, n, e)
    BY <1>2, <1>4, <2>1, <2>3 DEF Branches
  <2> QED BY <2>2, <2>4
<1>5. CASE n = 2
  <2>1. t.tiers = 2 \/ HOST_POD(t, dst) = AGG_SWITCH_POD_ID(t, a)
    BY UppersAre DEF Sound
  <2>2. s = Agg(a)
    BY <1>0, <1>2, <1>5
  <2>3. PICK v \in Bundle(t, 2) : e = Link(s, y, v)
    <3>1. s[1] = "AGG" /\ s[2] = a
      BY <2>2 DEF Agg
    <3> QED BY <2>1, <3>1, LowerHop
  <2> PICK q : q = PodRoute(t, src, dst, a, u, v)
    OBVIOUS
  <2>4. q \in SamePodRoutes(t, src, dst)
    BY PodRoutesAre
  <2>5. Len(q) = 4 /\ q[1] = first /\ q[2] = Link(x, Agg(a), u) /\ q[3] = Link(Agg(a), y, v)
    BY DEF PodRoute
  <2>6. Branches(q, r, n, e)
    <3>1. \A i \in 1 .. 2 : i = 1 \/ i = 2
      OBVIOUS
    <3> QED BY <1>2, <1>5, <2>2, <2>3, <2>5, <3>1 DEF Branches
  <2> QED BY <2>4, <2>6
<1>6. CASE n = 3
  <2>1. s = y
    BY <1>0, <1>2, <1>6
  <2>2. e = last
    BY <2>1, LastHop
  <2>3. Branches(r, r, n, e)
    BY <1>2, <1>6, <2>2 DEF Branches
  <2> QED BY <2>3
<1> QED BY <1>3, <1>4, <1>5, <1>6

LEMMA CoreRouteGoesOn ==
  ASSUME NEW t, Sound(t), Routable(t), NEW src \in 0 .. t.nodes - 1, NEW dst \in 0 .. t.nodes - 1,
         HOST_POD_SWITCH(t, src) # HOST_POD_SWITCH(t, dst), HOST_POD(t, src) # HOST_POD(t, dst),
         NEW r \in OtherPodRoutes(t, src, dst), NEW n \in 1 .. Len(r),
         NEW s, s = r[n].to, s[1] # "HOST", NEW e, TreeGoes(t, s, e, dst)
  PROVE  \E q \in OtherPodRoutes(t, src, dst) : Branches(q, r, n, e)
<1> PICK first, last, x, y : /\ first = FirstLink(t, src) /\ last = LastLink(t, dst)
                             /\ x = Tor(HOST_POD_SWITCH(t, src))
                             /\ y = Tor(HOST_POD_SWITCH(t, dst))
  OBVIOUS
<1>0. /\ \A b, c, v : Link(b, c, v).to = c
      /\ first.to = x /\ last.to[1] = "HOST"
  BY DEF FirstLink, LastLink, Link, Host
<1>1. PICK a \in Uppers(t, src), l \in Cores1(t), u \in Bundle(t, 2), v \in Bundle(t, 3),
           w \in Bundle(t, 3), z \in Bundle(t, 2) :
        r = CoreRoute(t, src, dst, a, l, u, v, w, z)
  BY CoreRoutesAre
<1> PICK c : c = Above(t, a, l)
  OBVIOUS
<1> PICK b : b = Beside(t, dst, c)
  OBVIOUS
<1>2. /\ Len(r) = 6 /\ r[1] = first /\ r[2] = Link(x, Agg(a), u) /\ r[3] = Link(Agg(a), Core(c), v)
      /\ r[4] = Link(Core(c), Agg(b), w) /\ r[5] = Link(Agg(b), y, z) /\ r[6] = last
  BY <1>1 DEF CoreRoute
<1>3. n \in {1, 2, 3, 4, 5}
  <2>1. n \in {1, 2, 3, 4, 5, 6}
    BY <1>2
  <2>2. n # 6
    BY <1>0, <1>2
  <2> QED BY <2>1, <2>2
<1>4. t.tiers = 3
  BY HostSwitch DEF Sound
<1>5. a \in 0 .. t.aggs - 1 /\ AGG_SWITCH_POD_ID(t, a) # HOST_POD(t, dst)
  BY <1>4, UppersAre
<1>6. ASSUME NEW k \in Cores1(t) PROVE Core(Above(t, a, k)) \in UpperCores(t, a)
  BY DEF UpperCores, Above, Cores1
<1>7. CASE n = 1
  <2>1. PICK h \in Uppers(t, src), i \in Bundle(t, 2) : e = Link(x, Agg(h), i)
    BY <1>0, <1>2, <1>7, FirstHop
  <2> PICK q : q = CoreRoute(t, src, dst, h, l, i, v, w, z)
    OBVIOUS
  <2>2. q \in OtherPodRoutes(t, src, dst)
    BY CoreRoutesAre
  <2>3. Len(q) = 6 /\ q[1] = first /\ q[2] = Link(x, Agg(h), i)
    BY DEF CoreRoute
  <2>4. Branches(q, r, n, e)
    BY <1>2, <1>7, <2>1, <2>3 DEF Branches
  <2> QED BY <2>2, <2>4
<1>8. CASE n = 2
  <2>1. s = Agg(a) /\ s[1] = "AGG" /\ s[2] = a
    BY <1>0, <1>2, <1>8 DEF Agg
  <2>2. TreeStep(t, s, e, dst)
    BY <2>1 DEF TreeGoes, TreeLocal
  <2>3. PICK m \in UpperCores(t, a), i \in Bundle(t, 3) : e = Link(s, m, i)
    BY <1>4, <1>5, <2>1, <2>2 DEF TreeStep, Bundle
  <2>4. PICK k \in Cores1(t) : m = Core(Above(t, a, k))
    BY DEF UpperCores, Above, Cores1
  <2> PICK q : q = CoreRoute(t, src, dst, a, k, u, i, w, z)
    OBVIOUS
  <2>5. q \in OtherPodRoutes(t, src, dst)
    BY CoreRoutesAre
  <2>6. Len(q) = 6 /\ q[1] = first /\ q[2] = Link(x, Agg(a), u) /\ q[3] = Link(Agg(a), m, i)
    BY <2>4 DEF CoreRoute
  <2>7. Branches(q, r, n, e)
    <3>1. \A j \in 1 .. 2 : j = 1 \/ j = 2
      OBVIOUS
    <3> QED BY <1>2, <1>8, <2>1, <2>3, <2>6, <3>1 DEF Branches
  <2> QED BY <2>5, <2>7
<1>9. CASE n = 3
  <2>1. s = Core(c) /\ s[1] = "CORE" /\ s[2] = c
    BY <1>0, <1>2, <1>9 DEF Core
  <2>2. TreeStep(t, s, e, dst)
    BY <2>1 DEF TreeGoes, TreeLocal
  <2>3. PICK i \in Bundle(t, 3) : e = Link(s, Agg(b), i)
    BY <2>1, <2>2 DEF TreeStep, Bundle, Beside
  <2> PICK q : q = CoreRoute(t, src, dst, a, l, u, v, i, z)
    OBVIOUS
  <2>4. q \in OtherPodRoutes(t, src, dst)
    BY CoreRoutesAre
  <2>5. /\ Len(q) = 6 /\ q[1] = first /\ q[2] = Link(x, Agg(a), u)
        /\ q[3] = Link(Agg(a), Core(c), v) /\ q[4] = Link(Core(c), Agg(b), i)
    BY DEF CoreRoute
  <2>6. Branches(q, r, n, e)
    <3>1. \A j \in 1 .. 3 : j = 1 \/ j = 2 \/ j = 3
      OBVIOUS
    <3> QED BY <1>2, <1>9, <2>1, <2>3, <2>5, <3>1 DEF Branches
  <2> QED BY <2>4, <2>6
<1>10. CASE n = 4
  <2>1. s = Agg(b) /\ s[1] = "AGG" /\ s[2] = b
    BY <1>0, <1>2, <1>10 DEF Agg
  <2>2. HOST_POD(t, dst) = AGG_SWITCH_POD_ID(t, b)
    <3> PICK j, k : j = Core(c) /\ k = c % t.aggsPerPod
      OBVIOUS
    <3>1. j \in UpperCores(t, a) /\ j[2] = c
      BY <1>6 DEF Core
    <3>2. k \in 0 .. t.aggsPerPod - 1
      BY <1>4, <1>5, <3>1, CoreNumber
    <3>3. HOST_POD(t, dst) \in Nat /\ HOST_POD(t, dst) \in 0 .. t.pods - 1
      BY <1>4, HostSwitch
    <3>4. b = MIN_POD_AGG_SWITCH(t, HOST_POD(t, dst)) + k
      BY DEF Beside
    <3> QED BY <1>4, <3>2, <3>3, <3>4, AggOfPod
  <2>3. PICK i \in Bundle(t, 2) : e = Link(s, y, i)
    BY <2>1, <2>2, LowerHop
  <2> PICK q : q = CoreRoute(t, src, dst, a, l, u, v, w, i)
    OBVIOUS
  <2>4. q \in OtherPodRoutes(t, src, dst)
    BY CoreRoutesAre
  <2>5. /\ Len(q) = 6 /\ q[1] = first /\ q[2] = Link(x, Agg(a), u)
        /\ q[3] = Link(Agg(a), Core(c), v) /\ q[4] = Link(Core(c), Agg(b), w)
        /\ q[5] = Link(Agg(b), y, i)
    BY DEF CoreRoute
  <2>6. Branches(q, r, n, e)
    <3>1. \A j \in 1 .. 4 : j = 1 \/ j = 2 \/ j = 3 \/ j = 4
      OBVIOUS
    <3> QED BY <1>2, <1>10, <2>1, <2>3, <2>5, <3>1 DEF Branches
  <2> QED BY <2>4, <2>6
<1>11. CASE n = 5
  <2>1. s = y
    BY <1>0, <1>2, <1>11
  <2>2. e = last
    BY <2>1, LastHop
  <2>3. Branches(r, r, n, e)
    BY <1>2, <1>11, <2>2 DEF Branches
  <2> QED BY <2>3
<1> QED BY <1>3, <1>7, <1>8, <1>9, <1>10, <1>11

(* The three cases together                                                  *)
LEMMA RouteGoesOn ==
  ASSUME NEW t, Sound(t), Routable(t), NEW src \in 0 .. t.nodes - 1, NEW dst \in 0 .. t.nodes - 1,
         NEW r \in SourceRoutes(t, src, dst), NEW n \in 1 .. Len(r),
         NEW s, s = r[n].to, s[1] # "HOST", NEW e, TreeGoes(t, s, e, dst)
  PROVE  \E q \in SourceRoutes(t, src, dst) : Branches(q, r, n, e)
<1>1. CASE HOST_POD_SWITCH(t, src) = HOST_POD_SWITCH(t, dst)
  BY <1>1, TorRouteGoesOn DEF SourceRoutes
<1>2. CASE HOST_POD_SWITCH(t, src) # HOST_POD_SWITCH(t, dst) /\ HOST_POD(t, src) = HOST_POD(t, dst)
  BY <1>2, PodRouteGoesOn DEF SourceRoutes
<1>3. CASE HOST_POD_SWITCH(t, src) # HOST_POD_SWITCH(t, dst) /\ HOST_POD(t, src) # HOST_POD(t, dst)
  BY <1>3, CoreRouteGoesOn DEF SourceRoutes
<1> QED BY <1>1, <1>2, <1>3

(* Every source has a route, and all its routes have the same first link. *)
LEMMA RoutesStart ==
  ASSUME NEW t, Sound(t), Routable(t), NEW src \in 0 .. t.nodes - 1, NEW dst \in 0 .. t.nodes - 1
  PROVE  \E r \in SourceRoutes(t, src, dst) : Len(r) >= 1 /\ r[1] = FirstLink(t, src)
<1> PICK i, b2, b3 : i = HOST_POD_SWITCH(t, src) /\ b2 = t.bundle[2] /\ b3 = t.bundle[3]
  OBVIOUS
<1>1. 0 \in Bundle(t, 2)
  BY DEF Sound, Positive, Bundle
<1>2. PICK a : a \in Uppers(t, src)
  <2>1. i \in 0 .. t.tors - 1
    BY HostSwitch
  <2> PICK pod, low, m : /\ pod = i \div t.torsPerPod
                         /\ low = IF t.tiers = 3 THEN MIN_POD_AGG_SWITCH(t, pod) ELSE 0
                         /\ m = IF t.tiers = 3 THEN t.aggsPerPod ELSE t.aggs
    OBVIOUS
  <2>2. pod \in Nat
    BY <2>1, PodOfTor
  <2>3. low \in Nat /\ Positive(m) /\ PodAggs(t, pod) = low .. low + m - 1
    BY <2>2, PodAggsAre
  <2>4. low \in PodAggs(t, pod)
    BY <2>3 DEF Positive
  <2> QED BY <2>4, UppersAre
<1>3. CASE HOST_POD_SWITCH(t, src) = HOST_POD_SWITCH(t, dst)
  BY <1>3 DEF SourceRoutes, SameTorRoutes
<1>4. CASE HOST_POD_SWITCH(t, src) # HOST_POD_SWITCH(t, dst) /\ HOST_POD(t, src) = HOST_POD(t, dst)
  <2> PICK r : r = PodRoute(t, src, dst, a, 0, 0)
    OBVIOUS
  <2>1. r \in SourceRoutes(t, src, dst)
    BY <1>1, <1>2, <1>4, PodRoutesAre DEF SourceRoutes
  <2>2. Len(r) = 4 /\ r[1] = FirstLink(t, src)
    BY DEF PodRoute
  <2> QED BY <2>1, <2>2
<1>5. CASE HOST_POD_SWITCH(t, src) # HOST_POD_SWITCH(t, dst) /\ HOST_POD(t, src) # HOST_POD(t, dst)
  <2>1. t.tiers = 3
    BY <1>5, HostSwitch DEF Sound
  <2>2. 0 \in Bundle(t, 3) /\ 0 \in Cores1(t)
    BY <2>1 DEF Sound, Positive, Bundle, Cores1
  <2> PICK r : r = CoreRoute(t, src, dst, a, 0, 0, 0, 0, 0)
    OBVIOUS
  <2>3. r \in SourceRoutes(t, src, dst)
    BY <1>1, <1>2, <1>5, <2>2, CoreRoutesAre DEF SourceRoutes
  <2>4. Len(r) = 6 /\ r[1] = FirstLink(t, src)
    BY DEF CoreRoute
  <2> QED BY <2>3, <2>4
<1> QED BY <1>3, <1>4, <1>5

LEMMA RoutesAreSeqs ==
  ASSUME NEW t, NEW src, NEW dst, NEW r \in SourceRoutes(t, src, dst)
  PROVE  IsSeq(r)
<1>1. CASE r \in SameTorRoutes(t, src, dst)
  <2> PICK a, b : a = FirstLink(t, src) /\ b = LastLink(t, dst)
    OBVIOUS
  <2>1. r = <<a, b>>
    BY <1>1 DEF SameTorRoutes
  <2>2. r \in Seq({a, b})
    BY <2>1
  <2> QED BY <2>2 DEF IsSeq
<1>2. CASE r \in SamePodRoutes(t, src, dst)
  <2>1. PICK a, u, d : r = PodRoute(t, src, dst, a, u, d)
    BY <1>2, PodRoutesAre
  <2>2. PICK b, c, e, f : r = <<b, c, e, f>>
    BY <2>1 DEF PodRoute
  <2>3. r \in Seq({b, c, e, f})
    BY <2>2
  <2> QED BY <2>3 DEF IsSeq
<1>3. CASE r \in OtherPodRoutes(t, src, dst)
  <2>1. PICK a, l, u, v, w, x : r = CoreRoute(t, src, dst, a, l, u, v, w, x)
    BY <1>3, CoreRoutesAre
  <2>2. PICK b, c, d, e, f, g : r = <<b, c, d, e, f, g>>
    BY <2>1 DEF CoreRoute
  <2>3. r \in Seq({b, c, d, e, f, g})
    BY <2>2
  <2> QED BY <2>3 DEF IsSeq
<1> QED BY <1>1, <1>2, <1>3 DEF SourceRoutes

(* The trail is a prefix of the route.                                       *)
LEMMA AlongIsPrefix ==
  ASSUME NEW t, IsSeq(t), NEW r, IsSeq(r), Along(t, r)
  PROVE  IsPrefix(t, r)
<1> PICK n, m : n = Len(t) /\ m = Len(r)
  OBVIOUS
<1>1. n \in Nat /\ m \in Nat /\ n <= m /\ \A i \in 1 .. n : t[i] = r[i]
  BY SeqIs DEF Along
<1>2. PICK S : t \in Seq(S)
  BY DEF IsSeq
<1>3. PICK T : r \in Seq(T)
  BY DEF IsSeq
<1>4. /\ SubSeq(t, 1, n) = [i \in 1 .. n |-> t[i]]
      /\ SubSeq(r, 1, n) = [i \in 1 .. n |-> r[i]]
  BY <1>1, <1>2, <1>3
<1>5. SubSeq(t, 1, n) = SubSeq(r, 1, n)
  BY <1>1, <1>4
<1> QED BY <1>1, <1>5 DEF IsPrefix

(* The packet has followed one of the routes of its source so far. *)
OnRoute(p) == \E r \in SourceRoutes(topo, p.flow[1], p.flow[2]) : Along(p.trail, r)

RouteInv == Base /\ (IsTree /\ Routable(topo) => \A p \in net : OnRoute(p))

(* A packet at the ToR of its source is on a route, and each link keeps it on one. *)
LEMMA FreshIsOnRoute ==
  ASSUME FlowsAreRight, IsTree, Routable(topo), NEW q, Fresh(q)
  PROVE  OnRoute(q)
<1> PICK a, b, s : a = q.flow[1] /\ b = q.flow[2] /\ s = At(q)
  OBVIOUS
<1>1. /\ topo \in Topologies /\ a \in HostsOf(topo) /\ b \in HostsOf(topo)
      /\ Len(q.trail) = 1 /\ q.trail[1] = Link(Host(a), s, 0)
  BY FreshIs
<1>2. Sound(topo) /\ HostsOf(topo) = 0 .. topo.nodes - 1
  BY <1>1, TopoIs
<1>3. s = Tor(HOST_POD_SWITCH(topo, a))
  <2>1. entry[q.flow] \in EntryToRs(a)
    BY DEF FlowsAreRight, Fresh
  <2>2. q.trail[1] = Link(Host(a), entry[q.flow], 0)
    <3> PICK l : l = Link(Host(a), entry[q.flow], 0)
      OBVIOUS
    <3>1. q.trail = <<l>>
      BY DEF Fresh
    <3> QED BY <3>1
  <2>3. s = entry[q.flow]
    BY <1>1, <2>2 DEF Link
  <2> QED BY <2>1, <2>3 DEF EntryToRs, Tor
<1>4. q.trail[1] = FirstLink(topo, a)
  BY <1>1, <1>3 DEF FirstLink
<1>5. PICK r \in SourceRoutes(topo, a, b) : Len(r) >= 1 /\ r[1] = FirstLink(topo, a)
  BY <1>1, <1>2, RoutesStart
<1>6. \A i \in 1 .. Len(q.trail) : i = 1
  BY <1>1
<1>7. Along(q.trail, r)
  BY <1>1, <1>4, <1>5, <1>6 DEF Along
<1> QED BY <1>5, <1>7 DEF OnRoute

LEMMA NextIsOnRoute ==
  ASSUME Base, IsTree, Routable(topo), NEW p \in net, OnRoute(p), NEW e, Goes(p, e),
         NEW q, q = Longer(p, e)
  PROVE  OnRoute(q)
<1> PICK a, b, s, n : a = p.flow[1] /\ b = p.flow[2] /\ s = At(p) /\ n = Len(p.trail)
  OBVIOUS
<1>1. /\ topo \in Topologies /\ a \in HostsOf(topo) /\ b \in HostsOf(topo)
      /\ s[1] # "HOST" /\ s = p.trail[n].to /\ Placed(s)
  BY PacketIs DEF Goes
<1>2. Sound(topo) /\ HostsOf(topo) = 0 .. topo.nodes - 1
  BY <1>1, TopoIs
<1>3. Extends(q, p, e, n)
  BY GoesIs
<1>4. /\ q.flow = p.flow /\ n \in Nat /\ n >= 1 /\ Len(q.trail) = n + 1 /\ q.trail[n + 1] = e
      /\ \A i \in 1 .. n : q.trail[i] = p.trail[i]
  BY <1>3 DEF Extends
<1>5. PICK r \in SourceRoutes(topo, a, b) : Along(p.trail, r)
  BY DEF OnRoute
<1>6. /\ IsSeq(r) /\ Len(r) \in Nat /\ n \in 1 .. Len(r)
      /\ \A i \in 1 .. n : p.trail[i] = r[i]
  <2>1. IsSeq(r) /\ Len(r) \in Nat
    BY RoutesAreSeqs, SeqIs
  <2> QED BY <1>4, <1>5, <2>1 DEF Along
<1>7. s = r[n].to
  BY <1>1, <1>4, <1>6
<1>8. TreeGoes(topo, s, e, b)
  <2>1. IsLocal(s, b) <=> TreeLocal(topo, s, b)
    BY DEF IsLocal
  <2>2. CASE IsLocal(s, b)
    BY <2>1, <2>2 DEF Goes, TreeGoes
  <2>3. CASE ~ IsLocal(s, b)
    <3>1. Nears(s, e, b)
      BY <2>3 DEF Goes
    <3> QED BY <2>1, <2>3, <3>1 DEF Nears, TreeGoes
  <2> QED BY <2>2, <2>3
<1>9. PICK o \in SourceRoutes(topo, a, b) : Branches(o, r, n, e)
  BY <1>1, <1>2, <1>6, <1>7, <1>8, RouteGoesOn
<1>10. Along(q.trail, o)
  <2>1. \A i \in 1 .. n + 1 : i \in 1 .. n \/ i = n + 1
    BY <1>4
  <2> QED BY <1>4, <1>6, <1>9, <2>1 DEF Branches, Along
<1> QED BY <1>4, <1>9, <1>10 DEF OnRoute

(* A packet that the switches of a tree route follows one of the routes that *)
(* its source could have chosen, on every tree that the constructors build.  *)
THEOREM SwitchesFollowRoutes == Spec => []FollowsSourceRoute
<1>1. Init => RouteInv
  <2>1. Init => net = {}
    BY DEF Init
  <2> QED BY <2>1, BaseInit DEF RouteInv
<1>2. RouteInv /\ [Next]_vars => RouteInv'
  <2> SUFFICES ASSUME RouteInv, [Next]_vars PROVE RouteInv'
    OBVIOUS
  <2>1. NetStep /\ topo' = topo /\ Base'
    BY StepIs, BaseNext DEF RouteInv
  <2>2. IsTree' <=> IsTree
    BY <2>1 DEF IsTree
  <2>3. ASSUME IsTree, Routable(topo), NEW q \in net' PROVE OnRoute(q)'
    <3>1. OnRoute(q)
      <4>1. CASE q \in net
        BY <2>3, <4>1 DEF RouteInv
      <4>2. CASE Fresh(q)
        BY <2>3, <4>2, FreshIsOnRoute DEF RouteInv, Base
      <4>3. ASSUME NEW p \in net, NEW e, Goes(p, e), q = Longer(p, e) PROVE OnRoute(q)
        BY <2>3, <4>3, NextIsOnRoute DEF RouteInv
      <4> QED BY <2>1, <4>1, <4>2, <4>3 DEF NetStep
    <3> QED BY <2>1, <3>1 DEF OnRoute
  <2> QED BY <2>1, <2>2, <2>3 DEF RouteInv
<1>3. RouteInv => FollowsSourceRoute
  <2> SUFFICES ASSUME RouteInv, IsTree, Routable(topo), NEW p \in net
               PROVE  \E route \in SourceRoutes(topo, p.flow[1], p.flow[2]) :
                        IsPrefix(p.trail, route)
    BY DEF FollowsSourceRoute
  <2>1. PICK r \in SourceRoutes(topo, p.flow[1], p.flow[2]) : Along(p.trail, r)
    BY DEF RouteInv, OnRoute
  <2>2. IsSeq(p.trail)
    BY PacketIs DEF RouteInv
  <2>3. IsPrefix(p.trail, r)
    BY <2>1, <2>2, RoutesAreSeqs, AlongIsPrefix
  <2> QED BY <2>3
<1> QED BY <1>1, <1>2, <1>3, PTL DEF Spec
=============================================================================
