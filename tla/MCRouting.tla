----------------------------- MODULE MCRouting -----------------------------
(* Routing for TLC. *)
EXTENDS Routing

\* Trees of set_params with an even K
DefaultTrees == {DefaultTree(2, 8), DefaultTree(3, 16)}

\* Of these configurations set_custom_params accepts 110, 48 of them with links
\* of one speed and 62 with faster links above the ToRs; those of two tiers
\* have no numbers for the third.
CustomConfigs ==
  {c \in [tiers : {2, 3}, nodes : {4, 8}, hostsPerPod : {4, 8},
          down : {2, 4} \X {1, 2} \X {1, 2, 4}, up : {1, 2} \X {1, 2},
          bundle : {1} \X {1, 2} \X {1, 2}, oversub : {1, 2} \X {1, 2},
          speed : {<<1, 1, 1>>, <<1, 2, 1>>}] :
     c.tiers = 2 => c.down[3] = 1 /\ c.up[2] = 1 /\ c.bundle[3] = 1 /\ c.oversub[2] = 1}
CustomTrees == {CustomTree(c) : c \in {d \in CustomConfigs : d.hostsPerPod <= d.nodes /\ CustomAccepted(d)}}

\* Two pods, four hosts at a ToR with two uplinks
Oversubscribed == CHOOSE t \in CustomTrees : t.tiers = 3 /\ t.down = <<4, 1, 2>> /\ t.bundle[2] = 1

SimpleWan ==
  [kind |-> "ai", regions |-> 1, dcs |-> 1, leafGroups |-> 2, leafs |-> 2, torGroups |-> 1,
   tors |-> 1, servers |-> 2, spines |-> 1, rhGroups |-> 1, rhBatches |-> 1, rhSwitches |-> 1,
   rwaSwitches |-> 1, owrSwitches |-> 1, linksRhRwa |-> 1, linksRwaOwr |-> 1,
   linksRegional |-> 1, bundle |-> <<1, 1, 1, 1>>]
Wan ==
  [kind |-> "ai", regions |-> 2, dcs |-> 2, leafGroups |-> 1, leafs |-> 2, torGroups |-> 2,
   tors |-> 2, servers |-> 1, spines |-> 1, rhGroups |-> 1, rhBatches |-> 2, rhSwitches |-> 1,
   rwaSwitches |-> 1, owrSwitches |-> 2, linksRhRwa |-> 1, linksRwaOwr |-> 1,
   linksRegional |-> 2, bundle |-> <<1, 1, 1, 1>>]

MCTopologies == DefaultTrees \cup CustomTrees \cup {SimpleWan, Wan}

\* The strategies that change or spread over the tables at every packet run
\* on three small topologies.
Small == {DefaultTree(2, 8), Oversubscribed, SimpleWan}
MCStrategies(t) ==
  {"ECMP"} \cup (IF t.kind = "ai" THEN {"SINGLE"} ELSE {})
    \cup (IF t \in Small THEN {"RR", "RR_ECMP", "ADAPTIVE_ROUTING", "ECMP_ADAPTIVE"} ELSE {})

\* Under ECMP one flow, from the last host to each other one, or two flows
\* that share switches; otherwise those two flows.
MCFlowSets(t, s) ==
  LET n == Cardinality(HostsOf(t))
      single == {{<<n - 1, h>>} : h \in HostsOf(t) \ {n - 1}}
      pair == {{<<0, n - 1>>, <<1, n - 2>>}}
  IN  IF s # "ECMP" THEN pair
      ELSE single \cup (IF t \in Small \cup DefaultTrees THEN pair ELSE {})
MCPathIds == {0}
MCPacketSizes(s) == IF s \in {"RR", "ADAPTIVE_ROUTING"} THEN {64, 4096} ELSE {4096}
=============================================================================
