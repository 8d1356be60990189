--------------------------- MODULE MCRoceNetwork ---------------------------
(***************************************************************************)
(* RoceNetwork for TLC.  Each load lets one kind of trouble happen, so that *)
(* a flow of two packets meets each: a drop, a timeout that comes too      *)
(* early, a mark and its CNP, overflow by other flows on its way to the    *)
(* receiver or back, and a pause by the next switch.  The last two have no *)
(* flow: all three queues of the switch fill and drain in any order, and   *)
(* a host queue is paused and resumed.                                     *)
(***************************************************************************)
EXTENDS RoceNetwork

Load(kind, others, bound) ==
  [flow |-> kind # "none", triggered |-> kind = "triggered", others |-> others,
   bound |-> [b \in Bounded |-> IF b \in DOMAIN bound THEN bound[b] ELSE 0]]

MCLoads ==
  {Load("timed", {}, [drops |-> 1]),
   Load("triggered", {}, [drops |-> 1]),
   Load("triggered", {}, [spurious |-> 1]),
   Load("timed", {}, [marks |-> 1]),
   Load("triggered", {Target}, [others |-> 2]),
   Load("timed", {Origin}, [others |-> 3]),
   Load("timed", {}, [silences |-> 1]),
   Load("none", Ports, [others |-> 8, silences |-> 1]),
   Load("none", {}, [hosted |-> 4, frames |-> 5])}
=============================================================================
