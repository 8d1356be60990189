------------------------------ MODULE Routing ------------------------------
(***************************************************************************)
(* Packets crossing a topology switch by switch: each switch enters the    *)
(* next hops for a destination in its table when the first packet for it   *)
(* arrives (FatTreeSwitch::getNextHop, AISwitch::getNextHop) and then      *)
(* chooses among them by the routing strategy of the simulation.  The      *)
(* topology, the strategy and the flows are chosen in the initial state.   *)
(***************************************************************************)
EXTENDS FatTree, FiniteSets, SequencesExt

W == INSTANCE AiWan

CONSTANTS
  Topologies,        \* the fat trees and AI topologies that are built
  Strategies(_),     \* the strategies that a topology is run with
  FlowSets(_, _),    \* the sets of flows <<src, dst>> for these two
  PathIds,           \* path ids a source gives its packets
  PacketSizes(_),    \* for a strategy, the sizes of the packets
  HashRange,         \* bound on the values of the hash function
  MaxInFlight        \* bound on the packets in the network

HostsOf(t) ==
  0 .. (IF t.kind = "fattree" THEN t.nodes ELSE t.regions * W!PerRegion(t)) - 1

ASSUME TopologiesAssumption ==
  \A t \in Topologies :
    \/ t.kind = "fattree" /\ TreeIsBuilt(t)
    \/ t.kind = "ai" /\ W!WanIsSound(t)
ASSUME FlowsAssumption ==
  \A t \in Topologies : \A s \in Strategies(t) : \A fs \in FlowSets(t, s) :
    fs \subseteq HostsOf(t) \X HostsOf(t)
ASSUME HashAssumption == HashRange \in Nat

VARIABLES
  topo, strategy, flows,
  entry,     \* for each flow, the ToR its first queue leads to
  sw,        \* the switches that have forwarded a packet
  hash,      \* freeBSDHash: its value for <<salt, flow, path id>>, once used
  net,       \* the packets: [flow, path, size, trail], trail being the links
             \* they have crossed
  taken      \* under ECMP, the routes that delivered packets have taken

vars == <<topo, strategy, flows, entry, sw, hash, net, taken>>

IsTree == topo.kind = "fattree"

\* A switch that has not forwarded anything.  A table maps a destination to
\* the name of a list of next hops; UP names the shared list (_uproutes).
UP == -1
NewSwitch ==
  [ table |-> <<>>,   \* _fib
    lists |-> <<>>,   \* its lists of next hops
    crt   |-> 0,      \* _crt_route
    uses  |-> <<>> ]  \* packets that went round robin over each link
Switch(s) == IF s \in DOMAIN sw THEN sw[s] ELSE NewSwitch

SetAt(f, x, v) == [y \in DOMAIN f \cup {x} |-> IF y = x THEN v ELSE f[y]]

\* Where a host is attached; AI_WAN_create_route picks one ToR of its group by
\* the hash of the flow.
EntryToRs(host) ==
  IF IsTree THEN {<<"TOR", HOST_POD_SWITCH(topo, host)>>}
  ELSE {<<"TOR", W!RegionOf(topo, host), W!DcOf(topo, host), W!LeafGroupOf(topo, host),
          W!TorGroupOf(topo, host), i>> : i \in 0 .. topo.tors - 1}

Init ==
  /\ topo \in Topologies
  /\ strategy \in Strategies(topo)
  /\ flows \in FlowSets(topo, strategy)
  /\ entry \in {e \in [flows -> UNION {EntryToRs(f[1]) : f \in flows}] :
                  \A f \in flows : e[f] \in EntryToRs(f[1])}
  /\ sw = <<>>
  /\ hash = <<>>
  /\ net = {}
  /\ taken = {}

-----------------------------------------------------------------------------
At(p) == Last(p.trail).to

\* The host that a route of the ToR s for the destination leads to.
Attached(s, dst) ==
  IF IsTree THEN dst ELSE W!HostAt(topo, s, W!RelativeServer(topo, dst))

IsLocal(s, dst) == IF IsTree THEN TreeLocal(topo, s, dst) ELSE W!WanLocal(topo, s, dst)
NextHops(s, dst) == IF IsTree THEN TreeHops(topo, s, dst) ELSE W!WanHops(topo, s, dst)

\* permute_paths
Shuffles(list) == SetToSeqs(ToSet(list))

\* The shared list is shuffled whenever a destination is entered.
Filled_Reshuffles(r, s, dst) ==
  LET h == NextHops(s, dst)
      name == IF h.shared THEN UP ELSE dst
      orders == IF h.shuffled THEN Shuffles(h.links) ELSE {h.links}
  IN  IF dst \in DOMAIN r.table THEN {r}
      ELSE {[r EXCEPT !.table = SetAt(@, dst, name), !.lists = SetAt(@, name, o)] : o \in orders}

\* The switch record r after a lookup of dst: the table is filled on the first
\* one, and the list shared by all destinations is made only once.
Filled(r, s, dst) ==
  LET h == NextHops(s, dst)
      name == IF h.shared THEN UP ELSE dst
      orders == IF name \in DOMAIN r.lists THEN {r.lists[name]}
                ELSE IF h.shuffled THEN Shuffles(h.links) ELSE {h.links}
  IN  IF dst \in DOMAIN r.table THEN {r}
      ELSE {[r EXCEPT !.table = SetAt(@, dst, name), !.lists = SetAt(@, name, o)] : o \in orders}

List(r, dst) == r.lists[r.table[dst]]

\* freeBSDHash: the switches of the AI data centres have one salt.
Salt(s) == IF ~IsTree /\ s[1] \in {"TOR", "LEAF", "SPINE"} THEN <<"DC">> ELSE s
HashKey(s, p) == <<Salt(s), p.flow, p.path>>
HashValues(k) == IF k \in DOMAIN hash THEN {hash[k]} ELSE 0 .. HashRange - 1

\* Which strategies choose by the hash, which in turn, and after how many
\* rounds the latter shuffle the list again.
ByHash(s, p) ==
  \/ strategy = "ECMP"
  \/ strategy = "ADAPTIVE_ROUTING" /\ IsTree /\ p.size < 100
  \/ strategy = "RR" /\ IsTree /\ p.size < 128
  \/ strategy = "RR_ECMP" /\ s[1] # "TOR"
InTurn(s, p) ==
  \/ strategy = "RR" /\ (IsTree => p.size >= 128)
  \/ strategy = "RR_ECMP" /\ s[1] = "TOR"
Adaptive(p) ==
  \/ strategy = "ADAPTIVE_ROUTING" /\ (IsTree => p.size >= 100)
  \/ strategy = "ECMP_ADAPTIVE"
Rounds == IF strategy = "RR" /\ IsTree THEN 1 ELSE 5

\* One packet more before the rewind
Rewound_Late(r, dst) ==
  IF r.crt <= Rounds * Len(List(r, dst)) THEN {r}
  ELSE {[r EXCEPT !.lists[r.table[dst]] = o, !.crt = 0] : o \in Shuffles(List(r, dst))}

\* The switch before its next choice in turn: at the end of the rounds the
\* list is shuffled in place, also for the destinations that share it.
Rewound(r, dst) ==
  IF r.crt < Rounds * Len(List(r, dst)) THEN {r}
  ELSE {[r EXCEPT !.lists[r.table[dst]] = o, !.crt = 0] : o \in Shuffles(List(r, dst))}

\* The packets over each link, less what all the links of the list have had.
Count(uses, list, link) ==
  LET all == [l \in ToSet(list) |->
                (IF l \in DOMAIN uses THEN uses[l] ELSE 0) + (IF l = link THEN 1 ELSE 0)]
      least == CHOOSE n \in {all[l] : l \in DOMAIN all} : \A l \in DOMAIN all : n <= all[l]
  IN  [l \in DOMAIN uses \cup DOMAIN all |->
         IF l \in DOMAIN all THEN all[l] - least ELSE uses[l]]

TakeTurn(r, dst) ==
  LET link == List(r, dst)[(r.crt % Len(List(r, dst))) + 1]
  IN  [switch |-> [r EXCEPT !.crt = @ + 1, !.uses = Count(@, List(r, dst), link)], link |-> link]

\* The packet p leaves over the link and the switch s becomes r.
Move(p, link) == net' = (net \ {p}) \cup {[p EXCEPT !.trail = Append(@, link)]}

-----------------------------------------------------------------------------
(* Steps *)

\* A source gives a packet of one of its flows to the ToR.
SendPacket(f, path, size) ==
  /\ Cardinality(net) < MaxInFlight
  /\ ~ \E p \in net : p.flow = f /\ p.path = path
  /\ net' = net \cup {[flow |-> f, path |-> path, size |-> size,
                       trail |-> <<Link(Host(f[1]), entry[f], 0)>>]}
  /\ UNCHANGED <<topo, strategy, flows, entry, sw, hash, taken>>

AtSwitch(p) == At(p)[1] # "HOST" /\ ~IsLocal(At(p), p.flow[2])

\* The destination is attached to this ToR: the host's own route.
ForwardToHost(p) ==
  /\ At(p)[1] # "HOST"
  /\ IsLocal(At(p), p.flow[2])
  /\ Move(p, Link(At(p), Host(Attached(At(p), p.flow[2])), 0))
  /\ UNCHANGED <<topo, strategy, flows, entry, sw, hash, taken>>

\* No choice is made from a list of one, and SINGLE always takes the first.
ForwardFirst(p) ==
  LET s == At(p)
      dst == p.flow[2]
  IN  /\ AtSwitch(p)
      /\ \E r \in Filled(Switch(s), s, dst) :
           /\ Len(List(r, dst)) = 1 \/ strategy = "SINGLE"
           /\ sw' = SetAt(sw, s, r)
           /\ Move(p, List(r, dst)[1])
      /\ UNCHANGED <<topo, strategy, flows, entry, hash, taken>>

ForwardByHash(p) ==
  LET s == At(p)
      dst == p.flow[2]
  IN  /\ AtSwitch(p)
      /\ ByHash(s, p)
      /\ \E r \in Filled(Switch(s), s, dst), v \in HashValues(HashKey(s, p)) :
           /\ Len(List(r, dst)) > 1
           /\ sw' = SetAt(sw, s, r)
           /\ hash' = SetAt(hash, HashKey(s, p), v)
           /\ Move(p, List(r, dst)[(v % Len(List(r, dst))) + 1])
      /\ UNCHANGED <<topo, strategy, flows, entry, taken>>

ForwardInTurn(p) ==
  LET s == At(p)
      dst == p.flow[2]
  IN  /\ AtSwitch(p)
      /\ InTurn(s, p)
      /\ \E r \in Filled(Switch(s), s, dst) :
           /\ Len(List(r, dst)) > 1
           /\ \E q \in Rewound(r, dst) :
                /\ sw' = SetAt(sw, s, TakeTurn(q, dst).switch)
                /\ Move(p, TakeTurn(q, dst).link)
      /\ UNCHANGED <<topo, strategy, flows, entry, hash, taken>>

\* The queues decide, on sizes and noise that are not modelled.
ForwardAdaptively(p) ==
  LET s == At(p)
      dst == p.flow[2]
  IN  /\ AtSwitch(p)
      /\ Adaptive(p)
      /\ \E r \in Filled(Switch(s), s, dst) :
           /\ Len(List(r, dst)) > 1
           /\ sw' = SetAt(sw, s, r)
           /\ \E i \in 1 .. Len(List(r, dst)) : Move(p, List(r, dst)[i])
      /\ UNCHANGED <<topo, strategy, flows, entry, hash, taken>>

\* The transport takes the packet off the network.
Receive(p) ==
  /\ At(p)[1] = "HOST"
  /\ net' = net \ {p}
  /\ taken' = IF strategy = "ECMP"
              THEN taken \cup {[flow |-> p.flow, path |-> p.path, trail |-> p.trail]}
              ELSE taken
  /\ UNCHANGED <<topo, strategy, flows, entry, sw, hash>>

Next ==
  \/ \E f \in flows, path \in PathIds, size \in PacketSizes(strategy) : SendPacket(f, path, size)
  \/ \E p \in net : \/ ForwardToHost(p) \/ ForwardFirst(p) \/ ForwardByHash(p)
                    \/ ForwardInTurn(p) \/ ForwardAdaptively(p) \/ Receive(p)

Spec == Init /\ [][Next]_vars

-----------------------------------------------------------------------------
(* Properties *)

Tier(node) ==
  CASE node[1] = "HOST" -> 0
    [] node[1] = "TOR"  -> 1
    [] node[1] \in {"AGG", "LEAF"}   -> 2
    [] node[1] \in {"CORE", "SPINE"} -> 3
    [] node[1] = "RH"   -> 4
    [] node[1] = "RWA"  -> 5
    [] node[1] = "OWR"  -> 6

\* The lowest tier at which the two hosts of a flow have a switch in common.
MeetingTier(f) ==
  IF IsTree
  THEN IF HOST_POD_SWITCH(topo, f[1]) = HOST_POD_SWITCH(topo, f[2]) THEN 1
       ELSE IF HOST_POD(topo, f[1]) = HOST_POD(topo, f[2]) THEN 2 ELSE 3
  ELSE LET tor == CHOOSE t \in EntryToRs(f[1]) : TRUE
       IN  IF W!IsDstTorGroup(topo, tor, f[2]) THEN 1
           ELSE IF W!IsDstLeafGroup(topo, tor, f[2]) THEN 2
           ELSE IF W!IsDstDc(topo, tor, f[2]) THEN 3
           ELSE IF W!IsDstRegion(topo, tor, f[2]) THEN 4 ELSE 6

Wired(e) == IF IsTree THEN TreeWired(topo, e) ELSE W!WanWired(topo, e)

\* Every packet goes over links that exist (the tables are computed apart from
\* the wiring), straight up to the lowest tier its two hosts share and straight
\* down to its own destination: no table sends it past, around or to another
\* host (getNextHop against init_network and the topology classes).
NoDetour ==
  \A p \in net :
    LET tier(i) == Tier(p.trail[i].from)
        next(i) == Tier(p.trail[i].to)
    IN  /\ \A i \in DOMAIN p.trail :
             /\ Wired(p.trail[i])
             /\ next(i) <= MeetingTier(p.flow)
             /\ tier(i) = next(i) => tier(i) = 6
             /\ i > 1 => /\ p.trail[i].from = p.trail[i - 1].to
                         /\ tier(i - 1) >= next(i - 1) => tier(i) > next(i)
        /\ At(p)[1] = "HOST" => At(p) = Host(p.flow[2])

\* A packet that the switches of a fat tree route follows one of the routes a
\* source of the same tree could choose itself (get_bidir_paths).
FollowsSourceRoute ==
  IsTree /\ Routable(topo)
    => \A p \in net : \E route \in SourceRoutes(topo, p.flow[1], p.flow[2]) :
         IsPrefix(p.trail, route)

\* Under ECMP the packets of a flow with one path id all take one route, while
\* tables are filled and lists are shuffled for other destinations: transports
\* judge a path by its id.
EcmpKeepsPath ==
  \A a, b \in taken : a.flow = b.flow /\ a.path = b.path => a.trail = b.trail

\* Round robin at a ToR spreads the packets over its uplinks so that none is
\* ever two ahead, over all destinations, shuffles and rewinds.
SpreadsEvenly ==
  \A s \in DOMAIN sw : s[1] = "TOR" =>
    \A a, b \in DOMAIN sw[s].uses : sw[s].uses[a] <= sw[s].uses[b] + 1
=============================================================================
