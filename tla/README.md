# TLA+ models of htsim

htsim is a discrete-event simulator of data-centre and wide-area networks.
The code under `src/sim` is single-threaded: an event list calls the objects
whose time has come, and objects call each other through `receivePacket`,
`doNextEvent`, triggers and direct method calls.  Concurrency in htsim is
therefore the concurrency of the *protocols it simulates*: packets, frames,
credits and timers of several parties in any order.  The hazards are those of
protocol code: a handler that acts on state which an event in between has
changed, two pieces of book-keeping that must agree, a wake-up that never
comes.  The modules in this directory model that code handler by handler, TLC
checks them on small instances, and TLAPS proves the main invariants for
instances of any size.

Paths below are relative to `src/sim`.

## 1. Inventory

| component | state it keeps | operations | correct when |
|---|---|---|---|
| Event list, pipes, triggers (`core/*`) | pending events by time, packets on the wire | `sourceIsPending`, `doNextEvent`, `receivePacket`, `activate` | events fire once, in time order; packets leave a pipe in the order they came |
| UEC source (`host/uec_src.*`, `host/uec_base.h`) | records of packets in flight (`_tx_bitmap`, `_send_times`), retransmission queue, bytes in flight, window, RTO timer, blocked flag | `startFlow`, `sendIfPermitted`, `timeToSend`, `processAck`, `processNack`, `processPull`, `rtxTimerExpired`, `sendRTS` | every packet is in flight, waiting or received; the timer runs for the oldest; bytes in flight are exact; a source allowed to send gets to send |
| UEC sink (`host/uec_sink.*`) | expected psn, bitmap of early psns, ACK and pull state | `processData`, `processTrimmed`, `processRts`, `pull`, `sack` | every byte counted once; ACKs never claim more than was received; a request for an ACK is answered |
| UEC pull pacer (`host/uec_pull_pacer.*`) | active and idle senders, one pending event | `requestPull`, `doNextEvent` | demand is granted, in turn, and before credit nobody asked for |
| UEC NIC (`host/uec_nic.*`) | busy ports, waiting sources, control queue, round-robin counter | `requestSending`, `startSending`, `cantSend`, `sendControlPacket`, `doNextEvent` | work conserving; who waits is called; the two classes share as configured |
| Congestion control and multipath (`host/uec_src.cpp` NSCC, DCTCP, OCC; `host/uec_mp.*`) | window, averages, path scores | `updateCwndOnAck_*`, `nextEntropy` | numerical behaviour, not a safety matter |
| Erasure-coded transports (`msft_ai/kec_cc.*`, `kecbr.*`, `1ec_cc.*`, `1ecbr.*`) | lists of unfinished messages and their numbers, per-path bitmaps, message boundaries, SACK lists, window, timers | `send_next_packet`, `processECSACK`, `processECNACK`, `processMetricAck`, `receivePacket`, restart timers | every stripe is decoded or sent again; no list is popped empty; the flow ends |
| RoCE and DCQCN (`dcqcn/*`) | go-back-N state, pacing and rate events, pause state | receive, ACK, NACK, CNP, timeout, rate update | in-order delivery, progress |
| Lossless queues with PFC (`queue/queue_lossless_output.*`, `queue_lossless_input.*`) | packets, send state; bytes per ingress, receive state | `receivePacket`, `beginService`, `completeService`, `sendPause`, `completedService` | no loss; the ends of a link agree; nobody stays paused |
| Lossless queue with switch-wide PAUSE (`queue/queue_lossless.*`, `switch/switch.*`) | packets, send and receive state | `receivePacket`, `completeService`, `Switch::sendPause` | no queue stops for good, no neighbour is silenced for nothing |
| Host queues (`queue/queue.*`) | packets of three priorities, service, send state | receive, service, PAUSE and resume | a completion is never missing; the fair one is silent while paused |
| Composite queue (`queue/compositequeue.*`) | a low and a high queue, arbiter, service | receive, trim, boot, service | one service at a time; limits hold for mixed sizes; neither queue starves |
| Shared buffer and DWRR (`queue/shared_queue.*`, `queue/qos_scheduler.*`, `switch/switch_buffer.*`) | packets and bytes per class, tokens, bytes of the switch | `receivePacket`, `completeService`, `selectNextQosClass`, `useBuffer`, `freeBuffer` | exact accounting; no exception; no starvation; no monopoly |
| Fat tree (`topology/fat_tree_topology.*`, `switch/fat_tree_switch.*`, `switch/route_table.*`) | parameters, links, routing tables filled on demand, round-robin pointers | `set_params`, `set_custom_params`, `init_network`, `get_bidir_paths`, `getNextHop` | wiring, tables and source routes agree; shortest paths; balance |
| AI WAN (`msft_ai/AI_*`) | six tiers of switches, numbering of hosts, tables | wiring, `addAvailableHops*`, `getNextHop` | a path exists, straight up and down |
| Other queues, CBR, ports, packets, configuration, mains, logging, scripts | - | - | see section 7 |

How they interact: a `UecSrc` hands packets to the `UecNIC` of its host, the
NIC calls it back; packets cross queues and pipes; the `UecSink` answers with
ACKs and NACKs and asks the `UecPullPacer` for credit, whose pulls come back
to the source.  An output queue tells the input queue of its switch when a
packet has left; the input queue sends PAUSE and resume frames over a
`CallbackPipe` to the output queue at the other end of the link.  A
`LosslessQueue` instead asks its switch, which calls the queues of all other
neighbours directly.  All `SharedQueue`s of a switch draw from one
`SwitchBuffer`.  A switch enters the next hops for a destination when the first
packet for it arrives, from the queues and pipes the topology has built.

`PROJECT.json` lists all components, also those not modelled, and under
`hazards` the places in the code where an order of events, a counter, a
boundary or a wake-up could go wrong.

## 2. Modules

| module | models | extends / instantiates |
|---|---|---|
| `UecPullPacer` | pull pacer and the pull state of its sinks | |
| `UecSrc`, `UecSink` | the ends of a UEC connection: handlers as operators on a record | |
| `UecTransport` | one connection: source, sink, network, NIC port | extends `UecSrc`, `UecSink`; implements `ReliableFlow` |
| `ReliableFlow` | what a connection promises | |
| `UecNic` | NIC of a host with its sources | |
| `EcSrc`, `EcSink` | the ends of an erasure-coded flow, all four variants | |
| `EcTransport` | one flow: both ends, paths, timers, losses | extends `EcSrc`, instantiates `EcSink` |
| `Roce` | the ends of a RoCE flow with DCQCN | |
| `LosslessQueue`, `HostQueue` | the two queues: handlers as operators on a record | |
| `RoceNetwork` | a flow through a switch of lossless queues; host queues | extends `LosslessQueue`, `Roce`, instantiates `HostQueue` |
| `LosslessPfc` | output queues, input queues, wires, PAUSE frames | |
| `CompositeQueue` | one output queue of a trimming switch | |
| `SharedQueue` | ports of a switch, DWRR schedulers, shared buffer | |
| `NetLinks`, `FatTree`, `AiWan` | wiring, tables and source routes of the topologies | `FatTree` and `AiWan` extend `NetLinks` |
| `Routing` | packets that cross a topology switch by switch | extends `FatTree`, instantiates `AiWan` |
| `MC*` | constants for TLC that a cfg cannot write | each extends its module |
| `*_proofs` | theorems and their proofs | each extends its module, `UecHost_proofs` both `UecNic` and `UecPullPacer` |

Recursion is written as functions (`Remaining`, `Bytes`, `Total`, `below`),
never with `RECURSIVE`, so that TLC evaluates and TLAPS reasons about the same
definition.

### UecPullPacer
The lists of active and idle senders are sequences of sinks; `pending` counts
the events of the pacer in the event list (the code has a flag, here
`pacer_active`, and must keep the two in step).  The names of this module carry
a prefix (`PacerSpec`, `pullVars`), because its proofs share a module with the
NIC's.  `ReceiveData` and `ReceiveTrimmedOrRts` are the three handlers of the
sink that ask for a pull; `GrantActive`, `GrantIdle` and `Sleep` are the
branches of `doNextEvent`.  Amounts are pull quanta; the time between two pulls
is left out (the pacer has one event, which may happen at any time).
`_retx_backlog` is left out: nothing in the code increases it.

### UecSrc, UecSink, UecTransport, ReliableFlow
Sender-based congestion control, one NIC port, SLEEK and PFLR off.  The sender
is a record and each handler an operator from the record before the call to the
record after it, so that a handler is one step with everything it calls:
`ProcessAck` acknowledges, moves the window, and sends.  What a handler sends
is collected in the field `sent` and put on the network by the step.  The
network is a set: packets are delayed and reordered freely, trimmed and lost
within the `budget`; the receiver's ECN mark is a choice.  Congestion control is
the choice of the next window, which covers whatever NSCC or DCTCP compute.
The NIC is reduced to its port, how often the source is queued at it
(`requests`), and other senders that take the port; `UecNic` has the rest.
`tx`, `send_times` and `rtx` are `_tx_bitmap`, `_send_times` and `_rtx_queue`;
`rto` is the send time for which the timer was armed.  An RTS takes a psn, is
recorded like data, and does not count into the bytes in flight.  The budget is
chosen in the initial state: few faults with timers that expire at any time
(safety), or more expiries of a timer that is long enough (liveness).

### UecNic
Of a source only the number of packets is kept that it may send now; it
changes when its window moves.  `PortIsFreed` is `doNextEvent`, with the
recursion of `cantSend` through the sources that cannot send folded into the
choice of the first that can.  `aborted` records a failed assertion or an
exception of the NIC and of the sources' calls to it; `streak` is a history
variable: the turns in a row of one class while both wait (it stops counting
one past the bound, so that a wrong scheduler still has finitely many states).

### EcSrc, EcSink, EcTransport
The four source files are one protocol in four variants, chosen by two flags:
a bitmap for each path or one for the flow (`perPath`: `kec*` or `1ec*`), and a
congestion window or a fixed rate (`windowed`: `*_cc` or `*br`).  The sender's
record has the list of messages still to be sent for the first time, the list
of unfinished messages with their present and original numbers, and what each
number stands for (`content`); the receiver's has the expected stripe of each
path, the packets beyond it, the list of message boundaries and what it will
report in the next SACK.  The receiver's bitmap ring is the set of packets
beyond the expected ones, of bounded width.  The reading of uninitialised or
erased entries (`kec_cc.cpp:640`) is a choice over what was erased.  Paths
deliver independently, so the packets of a stripe come in any order; `Quiet`
says that a restart timer is longer than a round trip, `MidStripe` and `Prompt`
that an answer takes longer than the rest of a stripe.

### Roce, LosslessQueue, HostQueue, RoceNetwork
The ends and the queues are records, as in `UecSrc`.  Of time `Roce` keeps which
events are in the event list and whether the packet spacing has passed.
It may pass at any time, also while packets wait in the first queue or are in
service there, which covers every rate of the source and every pause.
`RoceNetwork` puts a flow through a switch with a queue to each neighbour
("down") and one at each neighbour towards it ("up"); a full queue makes the
switch silence the up queues of all its other neighbours, and the queue that
drains resumes them.  A pipe is merged into the arrival behind it (its delay
only adds to the time a packet waits in a queue); PAUSE has no delay in the code
either, `Switch::sendPause` is a direct call.  `HostQueue` is driven by PAUSE
and resume frames in alternation (`LosslessPfc_proofs` proves that they
alternate); it shares no state with the flow, so the initial state chooses
which of the two is followed.

### LosslessPfc
Links lead from output queues elsewhere over wires into this switch, whose
output queues are paused at will by what is below them.  A packet counts at
the input queue of its link until it has left the output queue.  A PAUSE frame
needs as long for its way back as a packet for its way here: at most `Slots`
packets leave while it travels (`ages`).  Sizes are packets.

### CompositeQueue
Of a packet its size and kind are kept.  `ReceiveLow` is `receivePacket` of
anything that is not a header: trimmed in the low queue (`Arriving`), put in
(`PushLow`), put in at the expense of the newest packet (`MakeRoom`), put in
whatever its size (`Forced`), trimmed or dropped (`Refuse`).  `drand` is a
choice.  `AllocQueue` builds the configurations as `FatTreeTopology::alloc_queue`
does, which covers those of the other topologies.  `in_row` is a history
variable for `SharesAreKept`.

### SharedQueue
Admission (`CanStore`), trimming (`ReceiveData`), the token scheduler
(`BeginService` with `TokensFor`, `FirstOf`) and the service of any number of
ports.  An exception is recorded in `failure` and ends the behaviour.
`waited` is a history variable for `NoStarvation`.  ECN marking is left out,
`_queuesize` is the sum of the bytes of the classes.

### NetLinks, FatTree, AiWan, Routing
A node is a kind and a position, a link a pair of nodes and a number in its
bundle.  `FatTree` has the parameters (`DefaultTree` for `set_params`,
`CustomTree` and `CustomAccepted` for `set_custom_params`), the wiring of
`init_network`, the table entries of `getNextHop` and the routes of
`get_bidir_paths`: three computations of the same tree in different code.
`AiWan` has the numbering of the hosts and, for each of the six kinds of
switches, the links up and down that `addAvailableHops*` enters.  `Routing`
fills the tables on demand, shuffles and shares lists as the code does, and
chooses among the entries by the strategy of the simulation: ECMP with a hash
that is any function within `HashRange`, round robin, adaptive (a free choice)
or the source route.

## 3. Runs

| run | instance | shows |
|---|---|---|
| `pull_pacer` | 3 sinks, targets up to 2, one re-request | demand queued, no overtaking, every demand met |
| `slow_credit` | 2 sinks, targets up to 4; finding | slow credit exceeds the window the comment promises |
| `uec_transport` | 2 packets and an RTS; 1 fault with 2 early timeouts, 2 faults with 1, or 2 faults with 6 timely ones | the book-keeping of the sender, `ImplementsFlow`, and that a flow with timely timers finishes |
| `uec_nic` | 2 sources with 2 packets each, 1 port, 2 control packets, 2 timeouts, shares 1:4 | nobody forgotten, no failed assertion, shares, every source and the control queue served |
| `uec_nic_rto_two_ports` | 2 ports, one timeout; finding | an assertion fails on a host with two ports |
| `ec_transport` | 3 messages of one stripe, 1 data and 1 parity packet, 4 variants; 2 losses in `kec_cc`, 1 in the others | no stripe forgotten, no list popped empty, the sender awake, no timer without a loss, every flow finishes |
| `ec_early_sack` | `1ec_cc`, a window of 4, no loss; finding | a message loses its turn although nothing was lost |
| `roce_network` | 2 packets, 3 neighbours, queues of 3; nine loads of one trouble each | no queue stops for good, none silenced for nothing, the flow finishes |
| `lossless_pfc` | 2 links with 6 and 2 packets into one output queue, thresholds 2 and 1, 1 packet per wire delay | agreement of the ends, headroom, exact counts of the input queues, every packet leaves |
| `composite_queue` | room for 4, data of 2 and 3, headers of 1, ratio 3:2, every configuration | the service finds its packet, limits for mixed sizes, shares |
| `shared_queue` | 2 ports, 3 classes (weights 2, 3, 2; shares 1/2, 1/2, 1), 6 units of buffer, packets of 2 trimmed to 1 | accounting, one service, no exception, no starvation, no monopoly |
| `routing` | 2 default trees, 110 custom trees (links of one speed, or faster ones between ToR and aggregation), SimpleWAN, a WAN of 2 regions; up to 2 flows and 2 packets in flight | shortest paths on existing links, agreement with the source routes, ECMP keeps its path, round robin is even |

Why the bounds are enough: each instance has two of everything that competes
(sinks, packets, sources, links, ports), and one more where a third matters: a
third sink for overtaking, a third class for the scan of the scheduler, a third
neighbour that is silenced by two queues, a third message that is popped in
place of the second.  Two faults and two timeouts cover the loss of a packet and
of its retransmission, or of the packet and the ACK of the other.  Two sources
and a control queue exercise the turn of each while both others wait.  The busy
link of `lossless_pfc` has three times the packets of the high threshold, so it
is paused and resumed more than once and uses its whole headroom.  The shared
buffer holds three full packets: the ports compete for it, and packets are
stored, trimmed and dropped; the middle weight is no multiple of the packet
size, so tokens are left over.  In `composite_queue` the two sizes differ from
the header and from each other, so that booting a small packet for a large one
overshoots the limit.  The loads of `roce_network` are a drop, a timeout that
comes too early, a mark with its CNP, overflow by other flows on the way there
and on the way back, a pause by the next switch, all queues alone, and a host
queue; one at a time, because together they exceed what TLC can enumerate, and a
flow started by a trigger in half of them because start and timeout interact.
In `ec_transport` the first loss is repaired by the receiver's timer; the
sender's timer needs a second one, which only the variant with the most state
per packet (`kec_cc`) gets.  `MaxForced` bounds the packets `CompositeQueue` puts
in unconditionally, `MaxMsn` and `MaxEvents` the numbers and the pending events
of the erasure-coded sender; all are above what the runs without a bound need
for their longest repair.  `Big` stands for `UINT32_MAX` in the list of message
boundaries: any number that no stripe within `MaxMsn` reaches (`BoundAssumption`).

Every property has a mutant of the model, the way a plausible bug of the code
would change it, that TLC finds violated in the same run.

Fairness.  The simulator runs every event that is pending, so an enabled
event of a component is fair (weak fairness): the pacer's event, the port of
the NIC, the completion of a service, the end of a pipe, the expiry of a
timer.  Packets on a wire or in the network arrive unless the network loses
them, which it does only finitely often; this fairness is stated for each kind
of packet, as "one of the kind leaves the network" (`SrcGets`, `SinkGets`), for
each path of the erasure-coded flow (`Leaves`).  Nothing is assumed of what the
other party does (pauses from below end only if their own fairness says so).

Preconditions that the checks uncovered and the models state as assumptions:
* `AllLeave` needs a low threshold of at least 1: with 0 the constructor's
  assertions hold but the resume frame is never sent.
* `NoAbort` needs one port or no timeouts (the finding of
  `uec_nic_rto_two_ports`).  On one port the same line queues the source at
  the NIC twice, which is harmless.
* `SharedQueue` throws with a share above 1 or a weight below the largest
  packet; neither is checked when it is configured.
* `ec_transport` needs windows that are not closed in the middle of a stripe
  by the first sending (`1ec_cc`), answers slower than the rest of a stripe, and
  at most the losses above; section 4 says what happens beyond.
* `QueuesServe` needs the high threshold of a lossless queue below its size, as
  `initThresholds` computes it: otherwise a queue may overflow before it asks for
  silence.
* `routing` takes trees as one of the two constructors builds them, default trees
  with an even K (`TreeIsBuilt`), and WANs whose counts are positive and whose
  region hubs all have spines below them (`WanIsSound`); `NoDetour` needs WANs of
  at most two regions.

Properties that were checked once and are now only proved, because a deeper one
of the same run covers their hazard: `ActiveListMatchesFlag`, `DemandFirst`,
`NeverBoth`, `WorkConserving`, `ServiceIsRight` of `LosslessPfc`,
`FramesAlternate`, `Hysteresis`; and `PacerRuns`, of which `DemandIsMet` covers
that the pacer wakes, and only the theorem that no second event is pending.

## 4. Findings

* `slow_credit`: `uec_pull_pacer.cpp` promises "only send upto 1BDP worth of
  speculative credit".  A sink that is activated again while it is idle is put
  into the idle list a second time (`isIdle` is never called), and the window
  is tested only after a grant to decide whether that copy stays: each further
  copy is granted another turn past the window.
* `uec_nic_rto_two_ports`: with two ports `rtxTimerExpired` sends the packet on
  one port and asserts on the empty retransmission queue with the other.
* `ec_early_sack`: "send all original messages first" (`1ec_cc.cpp:184`).  A
  SACK of the message that is still being sent removes it from the list, and
  the sender then pops the next one in its place, which is never sent as an
  original.

Observed while modelling, and left as notes because no run states them:

UEC source.
* `rtxTimerExpired` sends an RTS because "window won't allow us to send yet"
  (`uec_src.cpp:3386`), also when the packet that timed out has just been sent by
  `queueForRtx` and it is the packet itself that fills the window.

Composite queue.
* `FatTreeTopology::alloc_queue` (`fat_tree_topology.cpp:857`) passes its options
  by position and leaves out `no_ecn`, so that each lands one parameter early:
  `-disable_trim` (main_uec.cpp:91, "Disable trimming, drop instead") turns ECN
  off and trimming stays on, `-low_priority_trim` disables trimming,
  `-no_droping_low_header` trims in the low queue, and the drop probability is
  converted to `no_droping_low_header`; random drops never happen.  `COMPOSITE_ECN`
  and `COMPOSITE_ECN_LB` do the same, after which `set_ecn_threshold` has no
  effect.  `AllocQueue` is written as the code is.
* `isDrop` needs both a drop event and a random drop; the AI topologies pass 0
  for the probability of the event, so their random drop rate has no effect.
* A booted packet whose header finds the high queue full is dropped without
  being counted, and the flow of a dropped packet is printed after `free`.

Erasure-coded transports.
* Windows have a floor of one chunk (`kec_cc.cpp:1086`), so a window can close in
  the middle of a stripe in `kec_cc` too, and the early removal of the finding
  bites there.
* With two data and two parity packets, two losses and small thresholds the
  renumbering after a NACK (`kec_cc.cpp:659`, `:674`) can pop an empty list,
  renumber without end, or finish a flow with a message undelivered; a NACK that
  comes before the first SACK is processed ends the flow with nothing sent again.
* `back()` of a list whose only element was erased gives the next number
  (`kec_cc.cpp:640`), which can use a number twice.
* `SACKTimeOut` looks for the original number among the present ones and reads a
  `this_sack.msn` that was never set.  The scanner of `kecbr` and `1ecbr` stops
  for good when it finds nothing to do.  A ring that is full has its head at its
  tail and counts as empty.  In `1ec_cc` a SACK does not reduce the unacked bytes
  and a NACK does not reset the window.

Lossless queues and RoCE.
* The first queue that drains resumes all neighbours, also those that another
  full queue still needs silent (`switch.cpp:17`).  On overflow both the newest
  packet of the queue and the incoming one are lost and one is counted; a booted
  control packet vanishes.
* Each `LosslessQueue` registers twice with its switch, so PAUSE is sent twice
  (harmless) and the thresholds depend on the order of creation; `AISwitch` hands
  a PAUSE only to the first port of a bundle; queues from ToRs to servers have no
  remote end, so hosts are never paused, and `RoceSrc::processPause` is
  unreachable because nothing calls `addHostSender`.
* The sink never acknowledges a packet again: if the last ACK is lost, or a
  trigger comes after the flow has finished, the source retransmits for ever.
  The models bound such timeouts.  The ACK timer starts flows that wait for a
  trigger after 60 ms.  A CNP makes the pacing event come early and find nothing
  to do: the source is silent until the next rate update.  `DCQCNSrc` schedules
  an update whenever it runs, because `_last_alpha_update` is never written there.
* Trimmed RoCE packets are accepted by `RoceSink` as full data.
* A `PriorityQueue` that is resumed while a packet is in service begins a second
  one (`queue.cpp:261`), so that two completions are in the event list as long as
  there is a backlog.  After a later PAUSE the first of them makes the queue
  PAUSED and the second sends a packet in that state, in which it "will do nothing
  until the other end unblocks us" (`queue.cpp:340`).  `HostResume` does the same;
  `QueuesServe` claims of a `PriorityQueue` only that it does not stop.
  `FairPriorityQueue` looks at `_sending` first.

Topologies.
* `set_params` accepts an odd K, for which hosts are left without a ToR;
  `add_failed_link` has a wrong number for core switches and may store a NULL
  queue; the round-robin pointer of an aggregation switch is shared by lists that
  differ per destination; two-tier trees with several pods are accepted but
  `get_bidir_paths` asserts.
* `OWR` routers share one list of uplinks over all destination regions
  (`AI_switch.cpp`), which is right for two regions only.  The counts of servers
  are read without being initialised, and 4-bit fields of the identifiers collide
  from index 16.  All switches of a data centre hash with the same salt, which
  polarises ECMP; `LeafDown` uses every second ToR.

Others: `trigger.h:62` says that a `MultiShotTrigger` activated too often aborts,
the code returns; `eventlist.cpp:70` drops an event at or after the end time.

## 5. Theorems

All proofs are for arbitrary constants that satisfy the assumptions named in
the modules, and rest on inductive invariants.  Of the safety properties that
the runs check, all are proved but three of the erasure-coded flow.

* `UecHost_proofs`, the NIC: `WorkConserving` and `WaitingIsQueued` are inductive
  together; `SharesArePaid` needs `StreakFollowsCrt`, which ties the history
  of turns to the round-robin counter; `NoAbort` is proved for one port or no
  timeouts.
* `UecHost_proofs`, the pull pacer: `PacerInv` is the conjunction of the type
  invariant, `ActiveListMatchesFlag`, `PacerRuns` and `DemandIsQueued`, which only
  together are inductive: that `requestPull` is called once at a time needs the
  flag to mirror the list, and that demand is queued needs the pacer's move
  between the lists.  `DemandFirst` and `NoOvertaking` are action properties.
* `UecTransport_proofs`: two invariants.  `IInv` is about which psns are where:
  `SrcOK` (a psn is in flight or waiting, never both), `SinkOK` and `AckHolds`
  (what an ACK under way claims is true of the sink now, since the sink only
  gains) give `NeverBoth` and `NothingForgotten`.  `CInv` is about the counters:
  `Body` (the list of send times holds exactly the psns in flight, each once,
  and the bytes in flight are what was charged), `Timer` (armed for the head of
  that list), `Awake` and `Queued` (who may send waits, and who waits is
  queued), `Tidy` (the receive bitmap and its counter), and that the bytes
  counted are one payload for each data psn the sink has.  It gives
  `TypeOK`, `FlightAccounting`, `TimerCoversOldest`, `NoMissedSend`,
  `WaitingIsKnown` and `AckRequestWillFire`.  A handler calls others before its
  own book-keeping is complete (`processAck` acknowledges, moves the window and
  sends), so the lemmas are about the handlers in their order, each with as much
  of the invariant as holds in the middle of the call.  `ConnectionIsReliable`
  is the refinement: every step under `IInv` and `CInv` is a step of
  `ReliableFlow` or none; the counts say that the whole payload is there when
  the source finishes.
* `EcTransport_proofs`: `SenderAwake` and `BoundariesAscend`, for all four variants,
  any number of messages, stripes and packets, any windows, thresholds and bitmaps,
  and any losses and reordering.  The invariant has three parts.  `SenderOK` types
  the sender's lists, says that every number on them has its stripes (`Contents`),
  bounds the numbers until the bounds are used up (`Within`), and counts the events
  a flow owes itself (`Awake`): one while it has something to send or has not
  begun, and one more while a timeout is pending; each handler is shown to keep
  the count, a SACK that restarts an ended chain and a timeout that takes its own
  event included.  `SinkOK` bounds each boundary from below by the place where its
  message begins (`Boundaries`), which is what makes room for a new one between its
  neighbours, and keeps the bitmaps finite (`Reach`), so that the search for the
  next missing stripe ends; the entries that have ended are then the first ones
  (`EndedFirst`).  Between the ends, packets are numbered within the bounds, answers
  report no more stripes than a message has, and all is silent until the
  flow starts.
* `LosslessPfc_proofs`: the ends agree up to the frames under way, which
  alternate; the bound on the buffer (`Headroom`) needs a budget: what is
  queued, on the wire, and may still be sent until the frame arrives
  (`Latency`, `RoomForAll`).  `CountIsExact` (and with it `TypeOK`, no count is
  negative) from `CountInv`: a packet that is put in adds one place to those
  its link holds, and when the oldest of a queue leaves, a bijection moves the
  places of the others.
* `SharedQueue_proofs`: `BufferIsExact` and `TypeOK` through sums kept as
  functions of partial sums, and one lemma that such a function computes what
  `Total` does; a port with packets has exactly one packet paid; and `Fair`: what
  a waiting class has seen of another was paid from saved tokens, or the class
  has the tokens for its own packet and comes first but for one packet.
* `RoceNetwork_proofs`: `NoneLeftSilenced`, for any number of neighbours and any
  load: a neighbour's queue that is paused has a queue of the switch that asks
  for it, because whoever stops asking resumes it.  `QueuesServe` from `Serving`:
  the service of each queue, with the packet it is scheduled for, through every
  order of PAUSE, resume, arrival and completion.  It says that no queue stops
  for good, and of lossless queues and `FairPriorityQueue` also that none is
  served twice over or while PAUSED; of `PriorityQueue` the second half is false
  (section 4) and not claimed.  The lemmas say of each handler
  on a queue what it does to its pause states and its service.
* `CompositeQueue_proofs`: `ServiceIsRight`, `BytesAreBounded` and `SharesAreKept`,
  for any sizes, limits and ratios.  The invariant ties the history of turns to
  the arbiter's counter (`TurnOK`), and bounds the low queue without its newest
  packet, which is what stays the same when packets are booted; `Accounted`
  keeps partial sums of both queues, which are what `Bytes` computes.
* `Routing_proofs`: the four properties, for every tree the constructors build,
  every sound WAN, any flows, hash and order of lookups.  `EcmpInv`: each link of a
  trail was decided by a table and a hash value that are still there, so two
  trails from one ToR cannot part; a lookup changes no list another lookup
  made.  `Base`: the lists of every switch are reorderings of what `TreeHops` or
  `WanHops` computes for the destination or for one that shares its list,
  round robin has used the links up to its pointer once more than the others
  (`Even`), and every packet is at a node of the topology after links that
  exist.  A lemma for each tier and direction says where its links lead,
  by the arithmetic of the numbering; what the checks of `set_params` and
  `set_custom_params` leave of the parameters is `Sound`, which is all that the
  proofs use of a tree.  On top of `Base`, `StraightInv` follows a packet (on its
  way up the switch has the source below it, on its way down the destination) and
  `RouteInv` says that its trail agrees with a route of `get_bidir_paths`.  Only
  `PacketsGoStraight` has a hypothesis: at most two regions, because routers share
  one list of links to the other regions (section 4).

Only model-checked:

* Liveness (`DemandIsMet`, `FlowFinishes`, `SourceIsCalled`, `ControlIsSent`,
  `AllLeave` and the like): TLAPS has no proof rules for fairness.
* `NothingForgotten`, `NeverFails` and `NoTimerWithoutLoss` of `EcTransport`.  They
  are not true for every value of the constants: they hold within the losses,
  the windows and the order of answers (`Prompt`) of section 3, and section 4 says
  what happens beyond.  Their invariant would have to count the losses spent
  against the state of both ends and all that is on the paths.

## 6. Plan

Done: pull pacer, transport, NIC, PFC, shared buffer, erasure-coded transports,
lossless and host queues with RoCE, composite queue, topologies and routing;
the proofs of section 5.  Next, in this order:

1. An invariant of the erasure-coded flow that counts losses, for its other
   properties.
2. Receiver credit in the UEC source composed with `UecPullPacer`; SLEEK and
   PFLR.
3. Failed links and flowlets in `Routing`.
4. Event list, pipe and triggers, as the abstract scheduler the other modules
   assume.

## 7. Not modelled

* Floating-point congestion control (NSCC, DCTCP, OCC, DCQCN's rates, the window
  functions of `kec_cc`) and load balancing: numerical feedback over time.  The
  modules let the window, the rate or the path be any value of a set.
* Time itself: events are ordered by what enables them, and where an order by
  time matters (a timer longer than a round trip, a PAUSE as slow as a packet) a
  named assumption states it.
* ECN thresholds of the queues, random drops by probability, schedules of link
  failures: choices of the network in the transport modules.
* SLEEK, PFLR and receiver credit in the UEC source; `_use_full_skip` of the
  erasure-coded receiver; both are off by default.
* `RandomQueue`, `ECNQueue`, `AeolusQueue` and the like: single FIFOs with a drop
  policy.  `FairCompositeQueue` is not compiled, `CompositePrioQueue` never built.
* CBR, UEC ports, packet pools, parsing of configuration and topology files,
  main programs, logging, scripts and traffic generators: no protocol state.
* `_DEPRECATED_` (about 20,000 lines: TCP, NDP, EQDS, Swift and others) is not
  part of the build.  Together with the main programs, loggers and parsers it is
  the larger part of the source, which is why the modules cover all of the
  protocol code named in section 2 and still a small share of all lines.
