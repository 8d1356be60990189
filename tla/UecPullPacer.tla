---------------------------- MODULE UecPullPacer ----------------------------
(***************************************************************************)
(* The receiver side of UEC credit: UecPullPacer (uec_pull_pacer.cpp) and  *)
(* the pull state of the UecSinks that share it (uec_sink.cpp).  A sink    *)
(* with demand sits in the list of active senders and is granted up to     *)
(* CreditPerPull quanta at each turn; a sink whose demand is met moves to  *)
(* the list of idle senders and is granted "slow" credit nobody asked for. *)
(* Amounts are pull quanta.  _retx_backlog is left out: nothing in the     *)
(* code ever increases it.  The specification's own names carry a prefix,  *)
(* so that one module can extend this one and UecNic, as UecHost_proofs.   *)
(***************************************************************************)
EXTENDS Integers, Sequences

CONSTANTS
  Sinks,          \* the UecSinks of one host, which share one pacer
  CreditPerPull,  \* UecSink::_credit_per_pull
  MaxCwnd,        \* quantize_floor(getMaxCwnd()), the same for every source
  MaxAhead,       \* how far a pull target may exceed the last pull granted
  MaxTarget,      \* bound: no pull target above this is requested
  MaxReRequests   \* bound on the trims and RTSs received

ASSUME PullAssumption ==
  /\ CreditPerPull \in Nat \ {0}
  /\ MaxCwnd \in Nat /\ MaxAhead \in Nat
  /\ MaxTarget \in Nat /\ MaxReRequests \in Nat

VARIABLES
  active_senders,       \* list of sinks: UecPullPacer::_active_senders
  idle_senders,         \* list of sinks: UecPullPacer::_idle_senders
  pacer_active,         \* UecPullPacer::_active
  pending,              \* number of events of the pacer in the event list
  in_pull,              \* UecSink::_in_pull
  in_slow_pull,         \* UecSink::_in_slow_pull
  latest_pull,          \* UecSink::_latest_pull, the last grant sent
  highest_pull_target,  \* UecSink::_highest_pull_target, the demand
  rerequests            \* number of trims and RTSs received (bound only)

pacerVars == <<active_senders, idle_senders, pacer_active, pending>>
sinkVars  == <<in_pull, in_slow_pull, latest_pull, highest_pull_target>>
pullVars  == <<pacerVars, sinkVars, rerequests>>

InList(s, list) == \E i \in 1..Len(list) : list[i] = s

Greater(a, b) == IF a >= b THEN a ELSE b

(* UecSink::backlog(): the demand not granted yet. *)
Backlog(target, granted) == IF target > granted THEN target - granted ELSE 0

(* UecSink::slowCredit(): what was granted beyond the demand. *)
SlowCredit(target, granted) == IF target >= granted THEN 0 ELSE granted - target

PacerTypeOK ==
  /\ active_senders \in Seq(Sinks)
  /\ idle_senders \in Seq(Sinks)
  /\ pacer_active \in BOOLEAN
  /\ pending \in Nat
  /\ in_pull \in [Sinks -> BOOLEAN]
  /\ in_slow_pull \in [Sinks -> BOOLEAN]
  /\ latest_pull \in [Sinks -> Nat]
  /\ highest_pull_target \in [Sinks -> Nat]
  /\ rerequests \in Nat

PacerInit ==
  /\ active_senders = <<>> /\ idle_senders = <<>>
  /\ pacer_active = FALSE /\ pending = 0
  /\ in_pull = [s \in Sinks |-> FALSE]
  /\ in_slow_pull = [s \in Sinks |-> FALSE]
  /\ latest_pull = [s \in Sinks |-> 0]
  /\ highest_pull_target = [s \in Sinks |-> 0]
  /\ rerequests = 0

-----------------------------------------------------------------------------
(* A pacer that is not woken by a request. *)
RequestPull_NoWake(s) ==
  /\ in_pull' = [in_pull EXCEPT ![s] = TRUE]
  /\ active_senders' = Append(active_senders, s)
  /\ UNCHANGED <<idle_senders, pacer_active, pending, in_slow_pull, latest_pull>>

(* UecPullPacer::requestPull, called by a sink that has just set _in_pull:  *)
(* the sink goes to the back of the active list and, if the pacer was not  *)
(* running, an event is scheduled for now.                                  *)
RequestPull(s) ==
  /\ in_pull' = [in_pull EXCEPT ![s] = TRUE]
  /\ active_senders' = Append(active_senders, s)
  /\ pacer_active' = TRUE
  /\ pending' = IF pacer_active THEN pending ELSE pending + 1
  /\ UNCHANGED <<idle_senders, in_slow_pull, latest_pull>>

NoRequest == UNCHANGED <<pacerVars, in_pull, in_slow_pull, latest_pull>>

(* The targets a packet of s may carry: UecSrc::computePullTarget asks for  *)
(* at most a window, and the packet its credit is overdrawn by, beyond the  *)
(* last pull the source has seen; packets are delayed and reordered.        *)
Targets(s) == {t \in 0..MaxTarget : t <= latest_pull[s] + MaxAhead}

RaiseTarget(s, pt) ==
  highest_pull_target' = [highest_pull_target EXCEPT ![s] = Greater(@, pt)]

(* A sink that has slow credit coming does not ask for a pull. *)
ReceiveData_SlowIsEnough(s, pt) ==
  /\ pt > highest_pull_target[s]
  /\ RaiseTarget(s, pt)
  /\ IF in_pull[s] \/ in_slow_pull[s] THEN NoRequest ELSE RequestPull(s)
  /\ UNCHANGED rerequests

(* UecSink::processData: only a higher target makes the sink ask for a     *)
(* pull, and only if it is not waiting for one already.                     *)
ReceiveData(s, pt) ==
  /\ pt > highest_pull_target[s]
  /\ RaiseTarget(s, pt)
  /\ IF in_pull[s] THEN NoRequest ELSE RequestPull(s)
  /\ UNCHANGED rerequests

(* UecSink::processTrimmed and processRts: the source is about to          *)
(* retransmit, so the sink asks for a pull whatever the target says.        *)
ReceiveTrimmedOrRts(s, pt) ==
  /\ rerequests < MaxReRequests
  /\ rerequests' = rerequests + 1
  /\ RaiseTarget(s, pt)
  /\ IF in_pull[s] THEN NoRequest ELSE RequestPull(s)

-----------------------------------------------------------------------------
(* UecSink::pull with extra_credit = 0: one turn's credit, clipped at the   *)
(* target but never taken back.                                             *)
PullTo(s) ==
  LET next == latest_pull[s] + CreditPerPull IN
  IF next > highest_pull_target[s]
    THEN Greater(highest_pull_target[s], latest_pull[s]) ELSE next

(* A sink that is served until it wants no more. *)
GrantActive_StaysInFront ==
  /\ pending > 0 /\ active_senders # <<>>
  /\ LET s == Head(active_senders) IN
     /\ latest_pull' = [latest_pull EXCEPT ![s] = PullTo(s)]
     /\ IF Backlog(highest_pull_target[s], PullTo(s)) > 0
          THEN UNCHANGED <<active_senders, idle_senders, in_pull, in_slow_pull>>
          ELSE /\ active_senders' = Tail(active_senders)
               /\ idle_senders' = Append(idle_senders, s)
               /\ in_pull' = [in_pull EXCEPT ![s] = FALSE]
               /\ in_slow_pull' = [in_slow_pull EXCEPT ![s] = TRUE]
  /\ pacer_active' = TRUE
  /\ UNCHANGED <<pending, highest_pull_target, rerequests>>

(* UecPullPacer::doNextEvent, an active sink first: it is granted credit    *)
(* and goes back into the list, or to the idle list if it wants no more.    *)
GrantActive ==
  /\ pending > 0 /\ active_senders # <<>>
  /\ LET s == Head(active_senders) IN
     /\ latest_pull' = [latest_pull EXCEPT ![s] = PullTo(s)]
     /\ IF Backlog(highest_pull_target[s], PullTo(s)) > 0
          THEN /\ active_senders' = Append(Tail(active_senders), s)
               /\ UNCHANGED <<idle_senders, in_pull, in_slow_pull>>
          ELSE /\ active_senders' = Tail(active_senders)
               /\ idle_senders' = Append(idle_senders, s)
               /\ in_pull' = [in_pull EXCEPT ![s] = FALSE]
               /\ in_slow_pull' = [in_slow_pull EXCEPT ![s] = TRUE]
  /\ pacer_active' = TRUE
  /\ UNCHANGED <<pending, highest_pull_target, rerequests>>

(* doNextEvent when no sink is active: the first idle sink gets a full turn *)
(* of slow credit and stays idle while its demand is still met and less     *)
(* than a window of slow credit is out.                                     *)
GrantIdle ==
  /\ pending > 0 /\ active_senders = <<>> /\ idle_senders # <<>>
  /\ LET s       == Head(idle_senders)
         granted == latest_pull[s] + CreditPerPull
         stays   == /\ Backlog(highest_pull_target[s], granted) = 0
                    /\ SlowCredit(highest_pull_target[s], granted) < MaxCwnd IN
     /\ latest_pull' = [latest_pull EXCEPT ![s] = granted]
     /\ idle_senders' = IF stays THEN Append(Tail(idle_senders), s)
                                 ELSE Tail(idle_senders)
     /\ in_slow_pull' = [in_slow_pull EXCEPT ![s] = stays]
     /\ in_pull' = IF stays /\ in_slow_pull[s] THEN in_pull
                   ELSE [in_pull EXCEPT ![s] = FALSE]
  /\ pacer_active' = TRUE
  /\ UNCHANGED <<active_senders, pending, highest_pull_target, rerequests>>

(* doNextEvent with nobody to serve: the pacer goes to sleep. *)
Sleep ==
  /\ pending > 0 /\ active_senders = <<>> /\ idle_senders = <<>>
  /\ pacer_active' = FALSE /\ pending' = pending - 1
  /\ UNCHANGED <<active_senders, idle_senders, sinkVars, rerequests>>

doNextEvent == GrantActive \/ GrantIdle \/ Sleep

PacerNext ==
  \/ doNextEvent
  \/ \E s \in Sinks : \E pt \in Targets(s) :
        ReceiveData(s, pt) \/ ReceiveTrimmedOrRts(s, pt)

PacerSpec == PacerInit /\ [][PacerNext]_pullVars

(* An event in the event list is dispatched sooner or later. *)
PacerFairSpec == PacerSpec /\ WF_pullVars(doNextEvent)

-----------------------------------------------------------------------------
NoDuplicates(list) == \A i, j \in 1..Len(list) : list[i] = list[j] => i = j

(* requestPull aborts when the sink is active already and doNextEvent       *)
(* asserts that the sink it serves is waiting for a pull: a sink's _in_pull *)
(* flag says exactly whether the pacer has it in its active list, and the   *)
(* list never has a sink twice.                                             *)
ActiveListMatchesFlag ==
  /\ NoDuplicates(active_senders)
  /\ \A s \in Sinks : in_pull[s] <=> InList(s, active_senders)

(* The pacer has one event pending while it is active and none otherwise    *)
(* (two would grant credit at twice the link's rate, for ever), and it is   *)
(* active whenever a sink waits (else the sink would wait for ever).        *)
PacerRuns ==
  /\ pending = IF pacer_active THEN 1 ELSE 0
  /\ (active_senders # <<>> \/ idle_senders # <<>>) => pacer_active

(* A sink with unmet demand is in the active list: a raised target is never *)
(* forgotten between the two lists.                                         *)
DemandIsQueued ==
  \A s \in Sinks :
    Backlog(highest_pull_target[s], latest_pull[s]) > 0 => InList(s, active_senders)

(* Slow credit waits for demand: credit nobody asked for is never granted   *)
(* while some sink has demand, and a grant made for demand does not go past *)
(* that demand.                                                             *)
DemandFirst ==
  [][ \A s \in Sinks :
        latest_pull'[s] > latest_pull[s] =>
          \/ latest_pull'[s] <= highest_pull_target[s]
          \/ \A r \in Sinks : Backlog(highest_pull_target[r], latest_pull[r]) = 0 ]_pullVars

(* Round robin: a sink that waits in the active list is never overtaken:    *)
(* it never moves back, and every grant to an active sink moves it forward. *)
NoOvertaking ==
  [][ \A i \in 2..Len(active_senders) :
        \E j \in {i - 1, i} : /\ j <= Len(active_senders')
                              /\ active_senders'[j] = active_senders[i]
                              /\ (GrantActive => j = i - 1) ]_pullVars

(* Demand is met: whatever the other sinks ask for, every target reached    *)
(* by a source is eventually granted in full.                               *)
DemandIsMet ==
  \A s \in Sinks : \A t \in 1..MaxTarget :
    highest_pull_target[s] >= t ~> latest_pull[s] >= t

-----------------------------------------------------------------------------
(* uec_pull_pacer.cpp:75 says "only send upto 1BDP worth of speculative     *)
(* credit": the last slow grant starts below a window, so slow credit would *)
(* stay below a window and one turn.                                        *)
SlowCreditBounded ==
  \A s \in Sinks :
    SlowCredit(highest_pull_target[s], latest_pull[s]) < MaxCwnd + CreditPerPull
=============================================================================
