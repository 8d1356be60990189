------------------------------ MODULE FatTree ------------------------------
(***************************************************************************)
(* The fat tree: its parameters, its wiring, the next hops that a switch   *)
(* enters in its table, and the routes a source may choose itself.  The    *)
(* three of them are computed by different code and must agree.            *)
(*                                                                         *)
(* A node is <<kind, number>>, a link [from, to, bundle].  A tree t is the *)
(* record of FatTreeTopology's parameters; the tuples down, up and bundle  *)
(* are indexed by tier: 1 for the ToRs, 2 for the aggregation switches, 3  *)
(* for the core.                                                           *)
(***************************************************************************)
EXTENDS NetLinks

Tor(i)  == <<"TOR", i>>
Agg(i)  == <<"AGG", i>>
Core(i) == <<"CORE", i>>

-----------------------------------------------------------------------------
(* Parameters *)

\* The smallest K whose tree has room for n hosts.
DefaultNodes(tiers, k) == IF tiers = 3 THEN (k * k * k) \div 4 ELSE (k * k) \div 2
DefaultRadix(tiers, n) ==
  CHOOSE k \in 1 .. 2 * n :
    /\ DefaultNodes(tiers, k) >= n
    /\ \A j \in 0 .. k - 1 : DefaultNodes(tiers, j) < n

DefaultAccepted(tiers, n) == DefaultNodes(tiers, DefaultRadix(tiers, n)) = n

\* set_params
DefaultTree(tiers, n) ==
  LET k == DefaultRadix(tiers, n)
      pods == IF tiers = 3 THEN k ELSE 1
  IN  [kind |-> "fattree", tiers |-> tiers, nodes |-> n, pods |-> pods,
       tors  |-> IF tiers = 3 THEN (k * k) \div 2 ELSE k,
       aggs  |-> IF tiers = 3 THEN (k * k) \div 2 ELSE k \div 2,
       cores |-> IF tiers = 3 THEN (k * k) \div 4 ELSE 0,
       hostsPerPod |-> n \div pods,
       torsPerPod |-> k \div 2, aggsPerPod |-> k \div 2,
       down |-> <<k \div 2, k \div 2, k>>, up |-> <<k \div 2, k \div 2>>,
       bundle |-> <<1, 1, 1>>, oversub |-> <<1, 1>>, speed |-> <<1, 1, 1>>]

\* The numbers set_custom_params derives from a configuration c.  The speed of a
\* tier is that of its links down, in any unit.
Pods(c)       == c.nodes \div c.hostsPerPod
TorUplinks(c) == (c.nodes * c.speed[1]) \div (c.speed[2] * c.oversub[1])
AggsPerPod(c) == TorUplinks(c) \div (Pods(c) * c.down[2])
AggUplinks(c) == (TorUplinks(c) * c.speed[2]) \div (c.speed[3] * c.oversub[2])
Cores(c)      == AggUplinks(c) \div c.down[3]

\* The checks of set_custom_params, in its order.
Tier0Accepted(c) ==
  /\ \A i \in 1 .. c.tiers : c.down[i] % c.bundle[i] = 0
  /\ \A i \in 1 .. c.tiers - 1 : c.up[i] % c.bundle[i + 1] = 0
  /\ c.nodes % c.hostsPerPod = 0
  /\ c.bundle[1] = 1
  /\ c.hostsPerPod % c.down[1] = 0
  /\ (c.nodes * c.speed[1]) % (c.speed[2] * c.oversub[1]) = 0
  /\ c.down[1] \div c.up[1] = c.oversub[1]
Tier1Accepted(c) ==
  /\ TorUplinks(c) % (Pods(c) * c.down[2]) = 0
  /\ AggsPerPod(c) * c.bundle[2] = c.up[1]
Tier2Accepted(c) ==
  /\ (TorUplinks(c) * c.speed[2]) % (c.speed[3] * c.oversub[2]) = 0
  /\ AggUplinks(c) % c.down[3] = 0
  /\ Cores(c) % AggsPerPod(c) = 0
  /\ (Cores(c) * c.bundle[3]) \div AggsPerPod(c) = c.up[2]
CustomAccepted(c) ==
  Tier0Accepted(c) /\ Tier1Accepted(c) /\ (c.tiers = 3 => Tier2Accepted(c))

\* set_custom_params
CustomTree(c) ==
  [kind |-> "fattree", tiers |-> c.tiers, nodes |-> c.nodes, pods |-> Pods(c),
   tors  |-> (c.hostsPerPod \div c.down[1]) * Pods(c),
   aggs  |-> AggsPerPod(c) * Pods(c),
   cores |-> IF c.tiers = 3 THEN Cores(c) ELSE 0,
   hostsPerPod |-> c.hostsPerPod,
   torsPerPod |-> c.hostsPerPod \div c.down[1], aggsPerPod |-> AggsPerPod(c),
   down |-> c.down, up |-> c.up, bundle |-> c.bundle,
   oversub |-> c.oversub, speed |-> c.speed]

\* The trees that the two build from numbers that are positive.  An odd K
\* passes the test of set_params, but its halves do not add up to a tree.
IsPositive(t) ==
  /\ t.tiers \in {2, 3}
  /\ \A x \in {t.nodes, t.hostsPerPod, t.down[1], t.down[2], t.down[3], t.up[1], t.up[2],
             t.bundle[1], t.bundle[2], t.bundle[3], t.oversub[1], t.oversub[2],
             t.speed[1], t.speed[2], t.speed[3]} : x \in Nat \ {0}
DefaultBuilt(t) ==
  /\ DefaultAccepted(t.tiers, t.nodes)
  /\ \E half \in 1 .. t.nodes : DefaultRadix(t.tiers, t.nodes) = 2 * half
  /\ t = DefaultTree(t.tiers, t.nodes)
CustomBuilt(t) ==
  LET c == [tiers |-> t.tiers, nodes |-> t.nodes, hostsPerPod |-> t.hostsPerPod,
            down |-> t.down, up |-> t.up, bundle |-> t.bundle,
            oversub |-> t.oversub, speed |-> t.speed]
  IN  CustomAccepted(c) /\ t = CustomTree(c)
TreeIsBuilt(t) == IsPositive(t) /\ (DefaultBuilt(t) \/ CustomBuilt(t))

-----------------------------------------------------------------------------
(* Numbering *)

HOST_POD_SWITCH(t, host) == host \div t.down[1]
HOST_POD(t, host) == IF t.tiers = 3 THEN host \div t.hostsPerPod ELSE 0
MIN_POD_AGG_SWITCH(t, pod) == pod * t.aggsPerPod
MAX_POD_AGG_SWITCH(t, pod) == (pod + 1) * t.aggsPerPod - 1
AGG_SWITCH_POD_ID(t, agg) == agg \div t.aggsPerPod

-----------------------------------------------------------------------------
(* Wiring: init_network.  Each of the three is a link between a lower node  *)
(* and an upper one, in both directions.                                    *)

HostWired(t, host, tor, b) ==
  /\ b = 0
  /\ tor \in 0 .. t.tors - 1
  /\ \E l \in 0 .. t.down[1] - 1 : host = tor * t.down[1] + l

TorAggWired(t, tor, agg, b) ==
  LET pod == tor \div t.torsPerPod
  IN  /\ tor \in 0 .. t.tors - 1
      /\ b \in 0 .. t.bundle[2] - 1
      /\ agg \in IF t.tiers = 3
                 THEN MIN_POD_AGG_SWITCH(t, pod) .. MAX_POD_AGG_SWITCH(t, pod)
                 ELSE 0 .. t.aggs - 1

AggCoreWired(t, agg, core, b) ==
  /\ t.tiers = 3
  /\ agg \in 0 .. t.aggs - 1
  /\ b \in 0 .. t.bundle[3] - 1
  /\ \E l \in 0 .. (t.up[2] \div t.bundle[3]) - 1 :
       core = (agg % t.aggsPerPod) + t.aggsPerPod * l

TreeWired(t, e) ==
  \E ends \in {<<e.from, e.to>>, <<e.to, e.from>>} :
    LET lo == ends[1]
        hi == ends[2]
    IN  CASE <<lo[1], hi[1]>> = <<"HOST", "TOR">> -> HostWired(t, lo[2], hi[2], e.bundle)
          [] <<lo[1], hi[1]>> = <<"TOR", "AGG">>  -> TorAggWired(t, lo[2], hi[2], e.bundle)
          [] <<lo[1], hi[1]>> = <<"AGG", "CORE">> -> AggCoreWired(t, lo[2], hi[2], e.bundle)
          [] OTHER -> FALSE

-----------------------------------------------------------------------------
(* The table of a switch: FatTreeSwitch::getNextHop                         *)

\* A ToR has hosts of its own, reached by a route for the host.
TreeLocal(t, s, dst) == s[1] = "TOR" /\ HOST_POD_SWITCH(t, dst) = s[2]

\* Up from a ToR: every aggregation switch of the pod, one list for all
\* destinations, shuffled.
TorUp(t, s) ==
  LET pod == s[2] \div t.torsPerPod
      low == IF t.tiers = 3 THEN MIN_POD_AGG_SWITCH(t, pod) ELSE 0
      high == IF t.tiers = 3 THEN MAX_POD_AGG_SWITCH(t, pod) ELSE t.aggs - 1
  IN  Hops(LinksTo(s, [i \in 1 .. high - low + 1 |-> Agg(low + i - 1)], t.bundle[2]), TRUE, TRUE)

AggDown(t, s, dst) ==
  Hops(LinksTo(s, <<Tor(HOST_POD_SWITCH(t, dst))>>, t.bundle[2]), FALSE, FALSE)

\* Consecutive core switches, as add_failed_link counts them
AggUp_Consecutive(t, s) ==
  LET podpos == s[2] % t.aggsPerPod
      n == t.up[2] \div t.bundle[3]
  IN  Hops(LinksTo(s, [l \in 1 .. n |-> Core(podpos * n + l - 1)], t.bundle[3]), FALSE, TRUE)

\* Up from an aggregation switch: a list for each destination.
AggUp(t, s) ==
  LET podpos == s[2] % t.aggsPerPod
      n == t.up[2] \div t.bundle[3]
  IN  Hops(LinksTo(s, [l \in 1 .. n |-> Core((l - 1) * t.aggsPerPod + podpos)], t.bundle[3]), FALSE, TRUE)

CoreDown(t, s, dst) ==
  LET nup == MIN_POD_AGG_SWITCH(t, HOST_POD(t, dst)) + (s[2] % t.aggsPerPod)
  IN  Hops(LinksTo(s, <<Agg(nup)>>, t.bundle[3]), FALSE, FALSE)

TreeHops(t, s, dst) ==
  CASE s[1] = "TOR" -> TorUp(t, s)
    [] s[1] = "AGG" -> IF t.tiers = 2 \/ HOST_POD(t, dst) = AGG_SWITCH_POD_ID(t, s[2])
                       THEN AggDown(t, s, dst)
                       ELSE AggUp(t, s)
    [] s[1] = "CORE" -> CoreDown(t, s, dst)

-----------------------------------------------------------------------------
(* The routes a source may choose itself: get_bidir_paths                   *)

\* Its assertion about leaf-spine trees.
Routable(t) == t.tiers = 2 => t.aggs = t.aggsPerPod

FirstLink(t, host) == Link(Host(host), Tor(HOST_POD_SWITCH(t, host)), 0)
LastLink(t, host)  == Link(Tor(HOST_POD_SWITCH(t, host)), Host(host), 0)

SameTorRoutes(t, src, dst) == {<<FirstLink(t, src), LastLink(t, dst)>>}

SamePodRoutes(t, src, dst) ==
  LET pod == HOST_POD(t, src)
      bundle == 0 .. t.bundle[2] - 1
  IN  {<<FirstLink(t, src),
         Link(Tor(HOST_POD_SWITCH(t, src)), Agg(upper), bUp),
         Link(Agg(upper), Tor(HOST_POD_SWITCH(t, dst)), bDown),
         LastLink(t, dst)>> :
       upper \in MIN_POD_AGG_SWITCH(t, pod) .. MAX_POD_AGG_SWITCH(t, pod),
       bUp \in bundle, bDown \in bundle}

\* Without bundles, and the way down taken from the number of the uplink
OtherPodRoutes_SameUpper(t, src, dst) ==
  LET pod == HOST_POD(t, src)
      core(upper, l) == (upper % t.aggsPerPod) + t.aggsPerPod * l
      route(upper, l) ==
        <<FirstLink(t, src),
          Link(Tor(HOST_POD_SWITCH(t, src)), Agg(upper), 0),
          Link(Agg(upper), Core(core(upper, l)), 0),
          Link(Core(core(upper, l)), Agg(MIN_POD_AGG_SWITCH(t, HOST_POD(t, dst)) + l), 0),
          Link(Agg(MIN_POD_AGG_SWITCH(t, HOST_POD(t, dst)) + l), Tor(HOST_POD_SWITCH(t, dst)), 0),
          LastLink(t, dst)>>
  IN  {route(upper, l) : upper \in MIN_POD_AGG_SWITCH(t, pod) .. MAX_POD_AGG_SWITCH(t, pod),
                         l \in 0 .. (t.up[2] \div t.bundle[3]) - 1}

OtherPodRoutes(t, src, dst) ==
  LET pod == HOST_POD(t, src)
      core(upper, l) == (upper % t.aggsPerPod) + t.aggsPerPod * l
      upper2(c) == MIN_POD_AGG_SWITCH(t, HOST_POD(t, dst)) + (c % t.aggsPerPod)
      route(upper, l, b1, b2) ==
        <<FirstLink(t, src),
          Link(Tor(HOST_POD_SWITCH(t, src)), Agg(upper), b1[1]),
          Link(Agg(upper), Core(core(upper, l)), b2[1]),
          Link(Core(core(upper, l)), Agg(upper2(core(upper, l))), b2[2]),
          Link(Agg(upper2(core(upper, l))), Tor(HOST_POD_SWITCH(t, dst)), b1[2]),
          LastLink(t, dst)>>
  IN  {route(upper, l, b1, b2) :
         upper \in MIN_POD_AGG_SWITCH(t, pod) .. MAX_POD_AGG_SWITCH(t, pod),
         l \in 0 .. (t.up[2] \div t.bundle[3]) - 1,
         b1 \in (0 .. t.bundle[2] - 1) \X (0 .. t.bundle[2] - 1),
         b2 \in (0 .. t.bundle[3] - 1) \X (0 .. t.bundle[3] - 1)}

SourceRoutes(t, src, dst) ==
  IF HOST_POD_SWITCH(t, src) = HOST_POD_SWITCH(t, dst) THEN SameTorRoutes(t, src, dst)
  ELSE IF HOST_POD(t, src) = HOST_POD(t, dst) THEN SamePodRoutes(t, src, dst)
  ELSE OtherPodRoutes(t, src, dst)
=============================================================================
