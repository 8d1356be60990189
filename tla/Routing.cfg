SPECIFICATION Spec
CONSTANTS
  Topologies <- MCTopologies
  FlowSets <- MCFlowSets
  Strategies <- MCStrategies
  PathIds <- MCPathIds
  PacketSizes <- MCPacketSizes
  HashRange = 2
  MaxInFlight = 2
INVARIANTS NoDetour FollowsSourceRoute EcmpKeepsPath SpreadsEvenly
