------------------------------- MODULE AiWan -------------------------------
(***************************************************************************)
(* The regions of AI data centres: ToRs, leafs and spines of a data centre *)
(* (AIDCMsoft), region hubs between the data centres of a region           *)
(* (AIRegionMsoft), RWA and OWR routers between regions (AIWANMsoft).  The *)
(* wiring is done by the topology classes, the tables are filled by        *)
(* AISwitch from the position of the switch and the number of the host.    *)
(*                                                                         *)
(* Nodes are <<"TOR", region, dc, leaf group, ToR group, i>>,              *)
(* <<"LEAF", region, dc, leaf group, i>>, <<"SPINE", region, dc, i>>,      *)
(* <<"RH", region, group, batch, i>>, <<"RWA", region, group, i>> and      *)
(* <<"OWR", region, group, i>>.  SimpleWAN is one data centre whose leaf   *)
(* groups are the regions.                                                 *)
(***************************************************************************)
EXTENDS NetLinks

-----------------------------------------------------------------------------
(* Numbering of the hosts *)

PerLeafGroup(w) == w.torGroups * w.servers
PerDc(w)        == w.leafGroups * PerLeafGroup(w)
PerRegion(w)    == w.dcs * PerDc(w)

RegionOf(w, host)    == host \div PerRegion(w)
DcOf(w, host)        == (host % PerRegion(w)) \div PerDc(w)
LeafGroupOf(w, host) == (host % PerDc(w)) \div PerLeafGroup(w)
TorGroupOf(w, host)  == (host % PerLeafGroup(w)) \div w.servers

\* get_relative_server_idx: the number within the ToR group
RelativeServer(w, host) == host % w.servers

\* The host behind a relative number at a ToR.
HostAt(w, tor, rel) ==
  tor[2] * PerRegion(w) + tor[3] * PerDc(w) + tor[4] * PerLeafGroup(w)
    + tor[5] * w.servers + rel

SpinesPerDc(w) == w.leafs * w.spines
RHBatchOfSpine(w, spine) == (spine \div w.spines) % w.rhBatches

\* is_dst_torgroup, is_dst_leafgroup, is_dst_dc, is_dst_region
IsDstRegion(w, s, dst)    == s[2] = RegionOf(w, dst)
IsDstDc(w, s, dst)        == IsDstRegion(w, s, dst) /\ s[3] = DcOf(w, dst)
IsDstLeafGroup(w, s, dst) == IsDstDc(w, s, dst) /\ s[4] = LeafGroupOf(w, dst)
IsDstTorGroup(w, s, dst)  == IsDstLeafGroup(w, s, dst) /\ s[5] = TorGroupOf(w, dst)

\* Its parameters are positive, and every region hub has spines below it.
WanIsSound(w) ==
  /\ \A x \in {w.regions, w.dcs, w.leafGroups, w.leafs, w.torGroups, w.tors, w.servers,
             w.spines, w.rhGroups, w.rhBatches, w.rhSwitches, w.rwaSwitches,
             w.owrSwitches, w.linksRhRwa, w.linksRwaOwr, w.linksRegional,
             w.bundle[1], w.bundle[2], w.bundle[3], w.bundle[4]} : x \in Nat \ {0}
  /\ w.rhBatches <= w.leafs

-----------------------------------------------------------------------------
(* Wiring *)

\* The switches that are created.
WanExists(w, s) ==
  LET at(i, n) == s[i] \in 0 .. n - 1
  IN  CASE s[1] = "TOR"   -> /\ at(2, w.regions) /\ at(3, w.dcs) /\ at(4, w.leafGroups)
                             /\ at(5, w.torGroups) /\ at(6, w.tors)
        [] s[1] = "LEAF"  -> /\ at(2, w.regions) /\ at(3, w.dcs) /\ at(4, w.leafGroups)
                             /\ at(5, w.leafs)
        [] s[1] = "SPINE" -> at(2, w.regions) /\ at(3, w.dcs) /\ at(4, SpinesPerDc(w))
        [] s[1] = "RH"    -> /\ at(2, w.regions) /\ at(3, w.rhGroups)
                             /\ at(4, w.rhBatches) /\ at(5, w.rhSwitches)
        [] s[1] = "RWA"   -> at(2, w.regions) /\ at(3, w.rhGroups) /\ at(4, w.rwaSwitches)
        [] s[1] = "OWR"   -> at(2, w.regions) /\ at(3, w.rhGroups) /\ at(4, w.owrSwitches)
        [] s[1] = "HOST"  -> s[2] \in 0 .. w.regions * PerRegion(w) - 1

\* Each of these is a link between a lower node and an upper one.
ServerTorWired(w, host, tor, b) ==
  b < w.bundle[1] /\ IsDstTorGroup(w, tor, host[2])
TorLeafWired(w, tor, leaf, b) ==
  b < w.bundle[2] /\ \A k \in 2 .. 4 : tor[k] = leaf[k]
LeafSpineWired(w, leaf, spine, b) ==
  /\ b < w.bundle[3]
  /\ \A k \in 2 .. 3 : leaf[k] = spine[k]
  /\ \E offset \in 0 .. w.spines - 1 : spine[4] = leaf[5] * w.spines + offset
SpineRHWired(w, spine, rh, b) ==
  b < w.bundle[4] /\ spine[2] = rh[2] /\ rh[4] = RHBatchOfSpine(w, spine[4])
RHRWAWired(w, rh, rwa, b) ==
  b < w.linksRhRwa /\ \A k \in 2 .. 3 : rh[k] = rwa[k]
RWAOWRWired(w, rwa, owr, b) ==
  b < w.linksRwaOwr /\ \A k \in 2 .. 3 : rwa[k] = owr[k]
OWROWRWired(w, owr1, owr2, b) ==
  b < w.linksRegional /\ owr1[2] # owr2[2] /\ \A k \in 3 .. 4 : owr1[k] = owr2[k]

WanWired(w, e) ==
  /\ WanExists(w, e.from)
  /\ WanExists(w, e.to)
  /\ \E ends \in {<<e.from, e.to>>, <<e.to, e.from>>} :
       LET lo == ends[1]
           hi == ends[2]
           kinds == <<lo[1], hi[1]>>
       IN  CASE kinds = <<"HOST", "TOR">>   -> ServerTorWired(w, lo, hi, e.bundle)
             [] kinds = <<"TOR", "LEAF">>   -> TorLeafWired(w, lo, hi, e.bundle)
             [] kinds = <<"LEAF", "SPINE">> -> LeafSpineWired(w, lo, hi, e.bundle)
             [] kinds = <<"SPINE", "RH">>   -> SpineRHWired(w, lo, hi, e.bundle)
             [] kinds = <<"RH", "RWA">>     -> RHRWAWired(w, lo, hi, e.bundle)
             [] kinds = <<"RWA", "OWR">>    -> RWAOWRWired(w, lo, hi, e.bundle)
             [] kinds = <<"OWR", "OWR">>    -> OWROWRWired(w, lo, hi, e.bundle)
             [] OTHER -> FALSE

-----------------------------------------------------------------------------
(* The table of a switch: AISwitch::addAvailableHops.  Lists upwards are     *)
(* entered once and shared by all destinations; nothing is shuffled then.    *)

Up(links)   == Hops(links, TRUE, FALSE)
Down(links) == Hops(links, FALSE, FALSE)

WanLocal(w, s, dst) == s[1] = "TOR" /\ IsDstTorGroup(w, s, dst)

ToRUp(w, s) ==
  Up(LinksTo(s, [k \in 1 .. w.leafs |-> <<"LEAF", s[2], s[3], s[4], k - 1>>], w.bundle[2]))

\* Every second ToR of the group only: "disable the second ToR".
LeafDown(w, s, dst) ==
  Down(LinksTo(s, [k \in 1 .. (w.tors + 1) \div 2 |->
                     <<"TOR", s[2], s[3], s[4], TorGroupOf(w, dst), 2 * (k - 1)>>],
               w.bundle[2]))

LeafUp(w, s) ==
  Up(LinksTo(s, [k \in 1 .. w.spines |-> <<"SPINE", s[2], s[3], s[5] * w.spines + k - 1>>],
             w.bundle[3]))

SpineDown(w, s, dst) ==
  Down(LinksTo(s, <<<<"LEAF", s[2], s[3], LeafGroupOf(w, dst), s[4] \div w.spines>>>>,
               w.bundle[3]))

SpineUp(w, s) ==
  Up(LinksTo(s, [k \in 1 .. w.rhGroups * w.rhSwitches |->
                   <<"RH", s[2], (k - 1) \div w.rhSwitches, RHBatchOfSpine(w, s[4]),
                     (k - 1) % w.rhSwitches>>],
             w.bundle[4]))

RHDown(w, s, dst) ==
  LET below[n \in 0 .. SpinesPerDc(w)] ==
        IF n = 0 THEN <<>>
        ELSE IF RHBatchOfSpine(w, n - 1) = s[4] THEN Append(below[n - 1], n - 1)
        ELSE below[n - 1]
      mine == below[SpinesPerDc(w)]
  IN  Down(LinksTo(s, [k \in 1 .. Len(mine) |-> <<"SPINE", s[2], DcOf(w, dst), mine[k]>>],
                   w.bundle[4]))

RHUp(w, s) ==
  Up(LinksTo(s, [k \in 1 .. w.rwaSwitches |-> <<"RWA", s[2], s[3], k - 1>>], w.linksRhRwa))

RWADown(w, s) ==
  Down(LinksTo(s, [k \in 1 .. w.rhBatches * w.rhSwitches |->
                     <<"RH", s[2], s[3], (k - 1) \div w.rhSwitches, (k - 1) % w.rhSwitches>>],
               w.linksRhRwa))

RWAUp(w, s) ==
  Up(LinksTo(s, [k \in 1 .. w.owrSwitches |-> <<"OWR", s[2], s[3], k - 1>>], w.linksRwaOwr))

OWRDown(w, s) ==
  Down(LinksTo(s, [k \in 1 .. w.rwaSwitches |-> <<"RWA", s[2], s[3], k - 1>>], w.linksRwaOwr))

\* The list for the first destination is used for all of them, whatever
\* their region.
OWRUp(w, s, dst) ==
  Up(LinksTo(s, <<<<"OWR", RegionOf(w, dst), s[3], s[4]>>>>, w.linksRegional))

WanHops(w, s, dst) ==
  CASE s[1] = "TOR"   -> ToRUp(w, s)
    [] s[1] = "LEAF"  -> IF IsDstLeafGroup(w, s, dst) THEN LeafDown(w, s, dst) ELSE LeafUp(w, s)
    [] s[1] = "SPINE" -> IF IsDstDc(w, s, dst) THEN SpineDown(w, s, dst) ELSE SpineUp(w, s)
    [] s[1] = "RH"    -> IF IsDstRegion(w, s, dst) THEN RHDown(w, s, dst) ELSE RHUp(w, s)
    [] s[1] = "RWA"   -> IF IsDstRegion(w, s, dst) THEN RWADown(w, s) ELSE RWAUp(w, s)
    [] s[1] = "OWR"   -> IF IsDstRegion(w, s, dst) THEN OWRDown(w, s) ELSE OWRUp(w, s, dst)
=============================================================================
