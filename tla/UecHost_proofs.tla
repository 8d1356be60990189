---------------------------- MODULE UecHost_proofs ---------------------------
(***************************************************************************)
(* Proofs about what the connections of one host share.  First UecNic, for *)
(* any number of sources and ports and any ratio: the invariant says of    *)
(* the round-robin counter how many turns in a row it stands for, and ties *)
(* the lists of the NIC to what the sources think.  Then the pull pacer    *)
(* (PacerSpec), for any number of sinks and any credit per turn: its two   *)
(* asserts hold, it is never asleep while a sink waits nor scheduled twice,*)
(* and no demand is forgotten.                                             *)
(***************************************************************************)
EXTENDS UecNic, UecPullPacer, TLAPS, WellFoundedInduction, SequenceTheorems

(* The hosts whose timeouts cannot take a second port. *)
Sound == Ports = 1 \/ MaxRtos = 0

(* The counter bounds the turns in a row of each kind. *)
StreakFollowsCrt ==
  /\ streak < 0 => crt >= RatioData /\ 0 - streak <= crt - RatioData + 1
  /\ streak > 0 => crt < RatioData /\ streak <= crt + 1

IInv ==
  /\ TypeOK /\ rtos <= MaxRtos
  /\ WorkConserving /\ WaitingIsQueued /\ StreakFollowsCrt
  /\ Sound => NoAbort

-----------------------------------------------------------------------------
(* Least returns the least element of a set of naturals. *)
LEMMA LeastIn ==
  ASSUME NEW S \in SUBSET Nat, S # {}
  PROVE  Least(S) \in S /\ \A q \in S : Least(S) <= q
<1> DEFINE R == OpToRel(<, Nat)
<1>1. PICK x \in S : \A y \in S : ~ (<<y, x>> \in R)
  BY WFMin, NatLessThanWellFounded, Zenon
<1>2. \A u, v \in Nat : u < v => <<u, v>> \in R
  BY DEF OpToRel
<1> HIDE DEF R
<1>3. \A y \in S : ~ (y < x)
  BY <1>1, <1>2
<1>4. \E p \in S : \A q \in S : p <= q
  BY <1>3
<1>5. QED
  BY <1>4 DEF Least

LEMMA FirstReadyIn ==
  ASSUME TypeOK, Ready # {}
  PROVE  /\ FirstReady \in Ready /\ FirstReady \in 1..Len(active)
         /\ \A j \in Ready : FirstReady <= j
<1>1. Ready \in SUBSET Nat /\ Ready \subseteq 1..Len(active)
  BY DEF Ready, TypeOK
<1>2. QED
  BY <1>1, LeastIn DEF FirstReady

LEMMA InitIInv == Init => IInv
<1> SUFFICES ASSUME Init PROVE IInv
  OBVIOUS
<1>1. TypeOK
  <2>1. /\ busy \in 0..Ports /\ control \in Nat /\ streak \in Int /\ rtos \in Nat
        /\ crt \in 0..(RatioControl + RatioData - 1)
    BY UecNicAssumption DEF Init
  <2>2. active \in Seq(Srcs)
    BY DEF Init
  <2>3. want \in [Srcs -> Nat] /\ blocked \in [Srcs -> BOOLEAN]
    BY DEF Init
  <2>4. sent \subseteq Srcs /\ aborted \in BOOLEAN /\ last \in Srcs \cup {"control", "nobody"}
    BY DEF Init
  <2>5. QED
    BY <2>1, <2>2, <2>3, <2>4 DEF TypeOK
<1>2. WorkConserving /\ WaitingIsQueued
  BY DEF Init, WorkConserving, WaitingIsQueued
<1>3. StreakFollowsCrt /\ NoAbort /\ rtos <= MaxRtos
  BY UecNicAssumption DEF Init, StreakFollowsCrt, NoAbort
<1>4. QED
  BY <1>1, <1>2, <1>3 DEF IInv

(* What sendIfPermitted sends at once fits the ports, and if something is    *)
(* left a source that was not waiting finds no port free.                    *)
LEMMA SendsNowFacts ==
  ASSUME IInv, NEW s \in Srcs, NEW w \in 0..MaxWant
  PROVE  /\ SendsNow(s, w) \in 0..w /\ busy + SendsNow(s, w) \in 0..Ports
         /\ ~blocked[s] /\ w > SendsNow(s, w) => busy + SendsNow(s, w) = Ports
         /\ SendsNow(s, w) > 0 => busy < Ports
         /\ blocked[s] => SendsNow(s, w) = 0 /\ busy = Ports
<1>1. busy \in 0..Ports /\ Ports \in Nat /\ w \in Nat
  BY UecNicAssumption DEF IInv, TypeOK
<1>2. blocked[s] => busy = Ports
  <2> SUFFICES ASSUME blocked[s], busy < Ports PROVE FALSE
    BY <1>1
  <2>1. active = <<>> /\ Queued(s, active)
    BY DEF IInv, WorkConserving, WaitingIsQueued
  <2>2. QED
    BY <2>1 DEF Queued
<1>3. QED
  BY <1>1, <1>2 DEF SendsNow, Smaller

(* A list that grows at its end still holds what it held. *)
LEMMA QueuedAppend ==
  ASSUME NEW list \in Seq(Srcs), NEW x
  PROVE  /\ Queued(x, Append(list, x))
         /\ \A y : Queued(y, list) => Queued(y, Append(list, x))
BY DEF Queued

LEMMA WindowMovesIInv ==
  ASSUME IInv, NEW s \in Srcs, WindowMoves(s)
  PROVE  IInv'
<1>1. PICK w \in 0..MaxWant : SendIfPermitted(s, w)
  BY DEF WindowMoves
<1> DEFINE k == SendsNow(s, w)
<1>2. /\ k \in 0..w /\ busy + k \in 0..Ports /\ w \in Nat
      /\ ~blocked[s] /\ w > k => busy + k = Ports
      /\ k > 0 => busy < Ports
      /\ blocked[s] => k = 0 /\ busy = Ports
  BY SendsNowFacts, UecNicAssumption
<1>3. /\ want' = [want EXCEPT ![s] = w - k]
      /\ busy' = busy + k
      /\ blocked' = [blocked EXCEPT ![s] = @ \/ w > k]
      /\ active' = IF w > k /\ ~blocked[s] THEN Append(active, s) ELSE active
      /\ aborted' = (aborted \/ (k > 0 /\ RequestFails))
      /\ sent' = IF k > 0 THEN sent \cup {s} ELSE sent
      /\ UNCHANGED <<control, crt, last, streak, rtos>>
  BY <1>1 DEF SendIfPermitted, WindowMoves
<1> HIDE DEF k
<1>4. TypeOK /\ rtos <= MaxRtos /\ WorkConserving /\ WaitingIsQueued
      /\ StreakFollowsCrt /\ (Sound => NoAbort)
  BY DEF IInv
<1>5. TypeOK'
  <2>1. active' \in Seq(Srcs)
    BY <1>3, <1>4 DEF TypeOK
  <2>2. want' \in [Srcs -> Nat] /\ blocked' \in [Srcs -> BOOLEAN]
    BY <1>2, <1>3, <1>4 DEF TypeOK
  <2>3. aborted' \in BOOLEAN
    BY <1>3, <1>4 DEF TypeOK
  <2>4. QED
    BY <1>2, <1>3, <1>4, <2>1, <2>2, <2>3 DEF TypeOK
<1>6. WorkConserving'
  BY <1>2, <1>3, <1>4, UecNicAssumption DEF WorkConserving, TypeOK
<1>7. WaitingIsQueued'
  <2> SUFFICES ASSUME NEW x \in Srcs, want'[x] > 0 \/ blocked'[x]
               PROVE  Queued(x, active')
    BY DEF WaitingIsQueued
  <2>1. active \in Seq(Srcs)
    BY <1>4 DEF TypeOK
  <2>2. Queued(x, active) => Queued(x, active')
    BY <1>3, <2>1, QueuedAppend
  <2>3. CASE x # s
    BY <1>3, <1>4, <2>2, <2>3 DEF WaitingIsQueued, TypeOK
  <2>4. CASE x = s
    <3>1. w > k \/ blocked[s]
      BY <1>2, <1>3, <1>4, <2>4 DEF TypeOK
    <3>2. CASE blocked[s]
      BY <1>4, <2>2, <2>4, <3>2 DEF WaitingIsQueued
    <3>3. CASE w > k /\ ~blocked[s]
      BY <1>3, <2>1, <2>4, <3>3, QueuedAppend
    <3>4. QED
      BY <3>1, <3>2, <3>3
  <2>5. QED
    BY <2>3, <2>4
<1>8. StreakFollowsCrt'
  BY <1>3, <1>4 DEF StreakFollowsCrt
<1>9. Sound => NoAbort'
  BY <1>2, <1>3, <1>4 DEF NoAbort, RequestFails, WorkConserving, TypeOK
<1>10. QED
  BY <1>3, <1>4, <1>5, <1>6, <1>7, <1>8, <1>9 DEF IInv, Sound

LEMMA RtxTimerExpiredIInv ==
  ASSUME IInv, NEW s \in Srcs, RtxTimerExpired(s)
  PROVE  IInv'
<1>1. PICK w \in 0..MaxWant, open \in BOOLEAN :
       LET k == SendsNow(s, w)
           requests == (IF w > k /\ ~blocked[s] THEN 1 ELSE 0)
                       + (IF open /\ busy + k = Ports THEN 1 ELSE 0)
       IN /\ (w = 0 => ~open) /\ (w > k => open)
          /\ want' = [want EXCEPT ![s] = w - k]
          /\ busy' = busy + k
          /\ blocked' = [blocked EXCEPT ![s] = @ \/ w > k]
          /\ active' = active \o [i \in 1..requests |-> s]
          /\ aborted' = (aborted \/ (k > 0 /\ RequestFails)
                                 \/ (open /\ busy + k < Ports))
          /\ UNCHANGED <<sent, control, crt, last, streak>>
  BY DEF RtxTimerExpired
<1>a. rtos < MaxRtos /\ rtos' = rtos + 1
  BY DEF RtxTimerExpired
<1> DEFINE k == SendsNow(s, w)
           requests == (IF w > k /\ ~blocked[s] THEN 1 ELSE 0)
                       + (IF open /\ busy + k = Ports THEN 1 ELSE 0)
           tail == [i \in 1..requests |-> s]
<1>2. /\ k \in 0..w /\ busy + k \in 0..Ports /\ w \in Nat
      /\ ~blocked[s] /\ w > k => busy + k = Ports
      /\ k > 0 => busy < Ports
      /\ blocked[s] => k = 0 /\ busy = Ports
  BY SendsNowFacts, UecNicAssumption
<1>3. /\ (w = 0 => ~open)
      /\ want' = [want EXCEPT ![s] = w - k]
      /\ busy' = busy + k
      /\ blocked' = [blocked EXCEPT ![s] = @ \/ w > k]
      /\ active' = active \o tail
      /\ aborted' = (aborted \/ (k > 0 /\ RequestFails) \/ (open /\ busy + k < Ports))
      /\ UNCHANGED <<sent, control, crt, last, streak>>
  BY <1>1
<1> HIDE DEF k
<1>4. TypeOK /\ rtos <= MaxRtos /\ WorkConserving /\ WaitingIsQueued
      /\ StreakFollowsCrt /\ (Sound => NoAbort)
  BY DEF IInv
<1>b. requests \in 0..2 /\ (requests > 0 => busy + k = Ports)
      /\ (w > k /\ ~blocked[s] => requests > 0)
  BY <1>2
<1> HIDE DEF requests
<1>c. tail \in Seq(Srcs) /\ Len(tail) = requests
  BY <1>b
<1>5. TypeOK'
  <2>1. active' \in Seq(Srcs)
    <3> HIDE DEF tail
    <3> QED BY <1>3, <1>4, <1>c DEF TypeOK
  <2>2. want' \in [Srcs -> Nat] /\ blocked' \in [Srcs -> BOOLEAN]
    BY <1>2, <1>3, <1>4 DEF TypeOK
  <2>3. aborted' \in BOOLEAN
    BY <1>3, <1>4 DEF TypeOK
  <2>4. QED
    BY <1>2, <1>3, <1>4, <1>a, <2>1, <2>2, <2>3 DEF TypeOK
<1>6. WorkConserving'
  <2> SUFFICES ASSUME busy' < Ports PROVE active' = <<>> /\ control' = 0
    BY DEF WorkConserving
  <2>1. requests = 0 /\ busy < Ports
    BY <1>2, <1>3, <1>4, <1>b, UecNicAssumption DEF TypeOK
  <2>2. active = <<>> /\ control = 0
    BY <1>4, <2>1 DEF WorkConserving
  <2>3. Len(active') = 0 /\ active' \in Seq(Srcs)
    <3> HIDE DEF tail
    <3> QED BY <1>3, <1>5, <1>c, <2>1, <2>2 DEF TypeOK
  <2> HIDE DEF tail
  <2>4. QED
    BY <1>3, <2>2, <2>3
<1>d. \A y : Queued(y, active) => Queued(y, active')
  <2> HIDE DEF tail
  <2> QED BY <1>3, <1>4, <1>c DEF Queued, TypeOK
<1>7. WaitingIsQueued'
  <2> SUFFICES ASSUME NEW x \in Srcs, want'[x] > 0 \/ blocked'[x]
               PROVE  Queued(x, active')
    BY DEF WaitingIsQueued
  <2>3. CASE x # s
    BY <1>3, <1>4, <1>d, <2>3 DEF WaitingIsQueued, TypeOK
  <2>4. CASE x = s
    <3>1. w > k \/ blocked[s]
      BY <1>2, <1>3, <1>4, <2>4 DEF TypeOK
    <3>2. CASE blocked[s]
      BY <1>4, <1>d, <2>4, <3>2 DEF WaitingIsQueued
    <3>3. CASE w > k /\ ~blocked[s]
      <4>1. tail[1] = s /\ requests > 0
        BY <1>b, <3>3
      <4>2. active'[Len(active) + 1] = s /\ Len(active) + 1 \in 1..Len(active')
        <5> HIDE DEF tail
        <5> QED BY <1>3, <1>4, <1>b, <1>c, <4>1 DEF TypeOK
      <4>3. QED
        BY <2>4, <4>2 DEF Queued
    <3>4. QED
      BY <3>1, <3>2, <3>3
  <2>5. QED
    BY <2>3, <2>4
<1>8. StreakFollowsCrt'
  BY <1>3, <1>4 DEF StreakFollowsCrt
<1>9. Sound => NoAbort'
  <2> SUFFICES ASSUME Sound PROVE ~aborted'
    BY DEF NoAbort
  <2>1. Ports = 1
    BY <1>4, <1>a, UecNicAssumption DEF Sound, TypeOK
  <2>2. ~(k > 0 /\ RequestFails)
    BY <1>2, <1>4 DEF RequestFails, WorkConserving
  <2>3. open => busy + k = Ports
    <3>1. w > 0 => k = w \/ busy + k = Ports \/ blocked[s]
      BY <1>2 DEF k, SendsNow, Smaller
    <3>2. QED
      BY <1>2, <1>3, <1>4, <2>1, <3>1 DEF TypeOK
  <2>4. ~(open /\ busy + k < Ports)
    BY <1>2, <2>1, <2>3
  <2>5. QED
    BY <1>3, <1>4, <2>2, <2>4 DEF NoAbort
<1>10. rtos' <= MaxRtos
  BY <1>4, <1>a, UecNicAssumption DEF TypeOK
<1>11. QED
  BY <1>5, <1>6, <1>7, <1>8, <1>9, <1>10 DEF IInv, Sound

LEMMA SendControlPacketIInv ==
  ASSUME IInv, SendControlPacket
  PROVE  IInv'
BY UecNicAssumption DEF SendControlPacket, IInv, TypeOK, WorkConserving,
   WaitingIsQueued, StreakFollowsCrt, NoAbort, Queued, Sound

-----------------------------------------------------------------------------
(* A port becomes free. *)

LEMMA ModStep ==
  ASSUME NEW n \in Nat \ {0}, NEW c \in 0..(n - 1)
  PROVE  (c = n - 1 /\ (c + 1) % n = 0) \/ (c < n - 1 /\ (c + 1) % n = c + 1)
<1>1. CASE c + 1 < n
  BY <1>1
<1>2. CASE c + 1 = n
  BY <1>2
<1>3. QED
  BY <1>1, <1>2

LEMMA NextTurnFacts ==
  ASSUME TypeOK
  PROVE  /\ NextTurn(crt) \in 0..(RatioControl + RatioData - 1)
         /\ \/ crt = RatioControl + RatioData - 1 /\ NextTurn(crt) = 0
            \/ NextTurn(crt) = crt + 1
<1> DEFINE n == RatioControl + RatioData
<1>1. n \in Nat \ {0} /\ crt \in 0..(n - 1)
  BY UecNicAssumption DEF TypeOK
<1>2. NextTurn(crt) = (crt + 1) % n
  BY DEF NextTurn
<1> HIDE DEF n
<1>3. (crt = n - 1 /\ NextTurn(crt) = 0) \/ (crt < n - 1 /\ NextTurn(crt) = crt + 1)
  BY <1>1, <1>2, ModStep
<1>4. NextTurn(crt) \in 0..(n - 1)
  BY <1>1, <1>3
<1>5. QED
  BY <1>3, <1>4, UecNicAssumption DEF n

LEMMA ControlTurnIInv ==
  ASSUME IInv, busy > 0, control > 0, ControlTurn, UNCHANGED rtos,
         BothWait => crt' = NextTurn(crt) /\ IsControlTurn(NextTurn(crt)),
         ~BothWait => crt' = crt
  PROVE  IInv'
<1>1. TypeOK /\ rtos <= MaxRtos /\ WorkConserving /\ WaitingIsQueued
      /\ StreakFollowsCrt /\ (Sound => NoAbort)
  BY DEF IInv
<1>2. /\ control' = control - 1 /\ last' = "control"
      /\ streak' = AfterControl
      /\ UNCHANGED <<busy, active, want, blocked, sent, aborted>>
  BY DEF ControlTurn
<1>3. /\ NextTurn(crt) \in 0..(RatioControl + RatioData - 1)
      /\ NextTurn(crt) = 0 \/ NextTurn(crt) = crt + 1
  BY <1>1, NextTurnFacts
<1>4. crt' \in 0..(RatioControl + RatioData - 1) /\ control' \in Nat /\ streak' \in Int
  BY <1>1, <1>2, <1>3 DEF TypeOK, AfterControl
<1>5. TypeOK'
  BY <1>1, <1>2, <1>4 DEF TypeOK
<1>6. WorkConserving' /\ WaitingIsQueued' /\ (Sound => NoAbort')
  BY <1>1, <1>2 DEF WorkConserving, WaitingIsQueued, NoAbort, Queued, TypeOK
<1>7. StreakFollowsCrt'
  <2>1. CASE ~BothWait
    BY <1>2, <2>1 DEF StreakFollowsCrt, AfterControl
  <2>2. CASE BothWait
    <3>1. crt' >= RatioData /\ crt' = crt + 1
      BY <1>3, <2>2, UecNicAssumption DEF IsControlTurn
    <3>2. QED
      BY <1>1, <1>2, <2>2, <3>1, UecNicAssumption
         DEF StreakFollowsCrt, TypeOK, AfterControl
  <2>3. QED
    BY <2>1, <2>2
<1>8. QED
  BY <1>1, <1>5, <1>6, <1>7 DEF IInv, Sound

LEMMA DataTurnIInv ==
  ASSUME IInv, busy > 0, Ready # {}, DataTurn, UNCHANGED rtos,
         BothWait => crt' = NextTurn(crt) /\ ~IsControlTurn(NextTurn(crt)),
         ~BothWait => crt' = crt
  PROVE  IInv'
<1> DEFINE i == FirstReady
           s == active[i]
           more == want[s] > 1
           rest == SubSeq(active, i + 1, Len(active))
           asked == {active[j] : j \in 1..i}
<1>1. TypeOK /\ rtos <= MaxRtos /\ WorkConserving /\ WaitingIsQueued
      /\ StreakFollowsCrt /\ (Sound => NoAbort)
  BY DEF IInv
<1>2. /\ active' = IF more THEN Append(rest, s) ELSE rest
      /\ want' = [want EXCEPT ![s] = @ - 1]
      /\ blocked' = [x \in Srcs |-> IF x \in asked THEN x = s /\ more ELSE blocked[x]]
      /\ aborted' = (aborted \/ (more /\ busy < Ports))
      /\ last' = s
      /\ streak' = AfterData
      /\ sent' = sent \cup {s}
      /\ UNCHANGED <<busy, control>>
  BY DEF DataTurn
<1>3. i \in Ready /\ i \in 1..Len(active) /\ \A j \in Ready : i <= j
  BY <1>1, FirstReadyIn
<1>4. s \in Srcs /\ want[s] \in Nat /\ want[s] > 0 /\ Len(active) \in Nat
  BY <1>1, <1>3 DEF Ready, TypeOK
<1>5. \A j \in 1..Len(active) : j < i => want[active[j]] = 0
  BY <1>1, <1>3, SMTT(30) DEF Ready, TypeOK
<1> HIDE DEF i
<1>6. /\ rest \in Seq(Srcs) /\ Len(rest) = Len(active) - i
      /\ \A j \in 1..Len(rest) : rest[j] = active[i + j]
  <2>1. i \in Nat /\ i + 1 \in Int /\ Len(active) \in Nat /\ i <= Len(active)
    BY <1>3, <1>4
  <2>2. \A j \in (i + 1)..Len(active) : active[j] \in Srcs
    BY <1>1, <1>3 DEF TypeOK
  <2>3. /\ rest \in Seq(Srcs)
        /\ Len(rest) = IF i + 1 <= Len(active) THEN Len(active) - (i + 1) + 1 ELSE 0
        /\ \A j \in 1 .. (Len(active) - (i + 1) + 1) : rest[j] = active[(i + 1) + j - 1]
    BY <2>1, <2>2, SubSeqProperties
  <2> HIDE DEF rest
  <2>4. Len(rest) = Len(active) - i
    BY <2>1, <2>3
  <2>5. \A j \in 1..Len(rest) : rest[j] = active[(i + 1) + j - 1] /\ (i + 1) + j - 1 = i + j
    BY <2>1, <2>3, <2>4
  <2>6. QED
    BY <2>3, <2>4, <2>5
<1>7. active # <<>> /\ busy = Ports
  <2>1. active # <<>>
    BY <1>3
  <2>2. QED
    BY <1>1, <2>1, UecNicAssumption DEF WorkConserving, TypeOK
<1> HIDE DEF rest, s
<1>8. TypeOK'
  <2>1. active' \in Seq(Srcs)
    BY <1>2, <1>4, <1>6
  <2>2. want' \in [Srcs -> Nat]
    BY <1>1, <1>2, <1>4 DEF TypeOK
  <2>3. blocked' \in [Srcs -> BOOLEAN]
    <3> HIDE DEF asked, more
    <3>1. \A x \in Srcs : (IF x \in asked THEN x = s /\ more ELSE blocked[x]) \in BOOLEAN
      BY <1>1, Zenon DEF more, TypeOK
    <3>2. QED
      BY <1>2, <3>1
  <2>4. crt' \in 0..(RatioControl + RatioData - 1) /\ streak' \in Int
    <3>1. crt' \in 0..(RatioControl + RatioData - 1)
      BY <1>1, NextTurnFacts DEF TypeOK
    <3>2. QED
      BY <1>1, <1>2, <3>1 DEF TypeOK, AfterData
  <2>5. aborted' \in BOOLEAN
    BY <1>2
  <2>6. QED
    BY <1>1, <1>2, <1>4, <2>1, <2>2, <2>3, <2>4, <2>5 DEF TypeOK
<1>9. WorkConserving'
  BY <1>2, <1>7, UecNicAssumption DEF WorkConserving
<1>10. WaitingIsQueued'
  <2> SUFFICES ASSUME NEW x \in Srcs, want'[x] > 0 \/ blocked'[x]
               PROVE  Queued(x, active')
    BY DEF WaitingIsQueued
  <2>1. Queued(x, rest) => Queued(x, active')
    BY <1>2, <1>6, QueuedAppend
  <2>2. CASE x = s
    <3>1. more
      <4>1. want'[s] = want[s] - 1
        BY <1>1, <1>2, <1>4 DEF TypeOK
      <4>2. s \in asked
        BY <1>3, <1>4 DEF s
      <4>3. blocked'[s] => more
        <5> HIDE DEF asked, more
        <5> QED BY <1>2, <1>4, <4>2
      <4>4. QED
        BY <1>4, <2>2, <4>1, <4>3
    <3>2. QED
      BY <1>2, <1>6, <2>2, <3>1, QueuedAppend
  <2>3. CASE x # s
    <3>1. want[x] > 0 \/ blocked[x]
      BY <1>1, <1>2, <2>3 DEF TypeOK
    <3>2. PICK j \in 1..Len(active) : active[j] = x
      BY <1>1, <3>1 DEF WaitingIsQueued, Queued
    <3>3. CASE j > i
      <4>1. j - i \in 1..Len(rest) /\ rest[j - i] = active[j]
        BY <1>3, <1>4, <1>6, <3>3
      <4>2. QED
        BY <2>1, <3>2, <4>1 DEF Queued
    <3>4. CASE j <= i
      <4>1. x \in asked /\ j < i
        BY <1>3, <2>3, <3>2, <3>4 DEF s
      <4>2. want[x] = 0 /\ want'[x] = 0 /\ ~blocked'[x]
        BY <1>1, <1>2, <1>5, <2>3, <3>2, <4>1 DEF TypeOK
      <4>3. QED
        BY <4>2
    <3>5. QED
      BY <1>3, <3>3, <3>4
  <2>4. QED
    BY <2>2, <2>3
<1>11. StreakFollowsCrt'
  <2>1. CASE ~BothWait
    BY <1>2, <2>1 DEF StreakFollowsCrt, AfterData
  <2>2. CASE BothWait
    <3>1. crt' < RatioData /\ (crt >= RatioData \/ crt' = crt + 1) /\ crt' \in Nat
      BY <1>1, <2>2, NextTurnFacts, UecNicAssumption DEF IsControlTurn
    <3>2. QED
      BY <1>1, <1>2, <2>2, <3>1, UecNicAssumption DEF StreakFollowsCrt, TypeOK, AfterData
  <2>3. QED
    BY <2>1, <2>2
<1>12. Sound => NoAbort'
  <2>1. ~(busy < Ports)
    BY <1>7, UecNicAssumption
  <2>2. QED
    BY <1>1, <1>2, <2>1, Zenon DEF NoAbort
<1>13. QED
  BY <1>1, <1>8, <1>9, <1>10, <1>11, <1>12 DEF IInv, Sound

LEMMA NobodyReadyIInv ==
  ASSUME IInv, busy > 0, Ready = {}, NobodyReady, UNCHANGED rtos,
         crt' = IF BothWait THEN NextTurn(crt) ELSE crt
  PROVE  IInv'
<1>1. TypeOK /\ rtos <= MaxRtos /\ WorkConserving /\ WaitingIsQueued
      /\ StreakFollowsCrt /\ (Sound => NoAbort)
  BY DEF IInv
<1>2. /\ active' = <<>> /\ streak' = 0
      /\ blocked' = [s \in Srcs |-> blocked[s] /\ ~Queued(s, active)]
      /\ control' = IF control > 0 THEN control - 1 ELSE 0
      /\ busy' = IF control > 0 THEN busy ELSE busy - 1
      /\ last' = IF control > 0 THEN "control" ELSE "nobody"
      /\ UNCHANGED <<want, sent, aborted>>
  BY DEF NobodyReady
<1>3. /\ busy' \in 0..Ports /\ control' \in Nat /\ streak' \in Int
      /\ busy' < Ports => control' = 0
  <2>1. busy \in 1..Ports /\ control \in Nat /\ Ports \in Nat
    BY <1>1, UecNicAssumption DEF TypeOK
  <2>2. control > 0 => busy = Ports
    BY <1>1, <2>1 DEF WorkConserving
  <2>3. QED
    BY <1>2, <2>1, <2>2
<1>4. TypeOK'
  <2>1. crt' \in 0..(RatioControl + RatioData - 1)
    BY <1>1, NextTurnFacts DEF TypeOK
  <2>2. blocked' \in [Srcs -> BOOLEAN] /\ active' \in Seq(Srcs)
    BY <1>2
  <2>3. QED
    BY <1>1, <1>2, <1>3, <2>1, <2>2 DEF TypeOK
<1>5. WorkConserving'
  BY <1>2, <1>3 DEF WorkConserving
<1>6. WaitingIsQueued'
  <2> SUFFICES ASSUME NEW s \in Srcs, want'[s] > 0 \/ blocked'[s] PROVE FALSE
    BY DEF WaitingIsQueued
  <2>1. Queued(s, active)
    BY <1>1, <1>2 DEF WaitingIsQueued
  <2>2. ~blocked'[s]
    BY <1>2, <2>1
  <2>3. PICK j \in 1..Len(active) : active[j] = s
    BY <2>1 DEF Queued
  <2>4. j \in Ready
    BY <1>2, <2>2, <2>3 DEF Ready
  <2>5. QED
    BY <2>4
<1>7. StreakFollowsCrt'
  BY <1>2 DEF StreakFollowsCrt
<1>8. Sound => NoAbort'
  BY <1>1, <1>2 DEF NoAbort
<1>9. QED
  BY <1>1, <1>4, <1>5, <1>6, <1>7, <1>8 DEF IInv, Sound

LEMMA PortIsFreedIInv ==
  ASSUME IInv, PortIsFreed
  PROVE  IInv'
<1> DEFINE next == NextTurn(crt)
           turn == control > 0 /\ (active = <<>> \/ IsControlTurn(next))
<1>1. busy > 0 /\ crt' = (IF BothWait THEN next ELSE crt) /\ UNCHANGED rtos
  BY DEF PortIsFreed
<1>2. \/ turn /\ ControlTurn
      \/ ~turn /\ Ready # {} /\ DataTurn
      \/ ~turn /\ Ready = {} /\ NobodyReady
  BY DEF PortIsFreed
<1> HIDE DEF next
<1>3. CASE turn /\ ControlTurn
  BY <1>1, <1>3, ControlTurnIInv DEF BothWait, next
<1>4. CASE ~turn /\ Ready # {} /\ DataTurn
  BY <1>1, <1>4, DataTurnIInv DEF BothWait, next
<1>5. CASE ~turn /\ Ready = {} /\ NobodyReady
  BY <1>1, <1>5, NobodyReadyIInv DEF next
<1>6. QED
  BY <1>2, <1>3, <1>4, <1>5

LEMMA NextIInv == IInv /\ [Next]_vars => IInv'
<1> SUFFICES ASSUME IInv, [Next]_vars PROVE IInv'
  OBVIOUS
<1>1. CASE \E s \in Srcs : WindowMoves(s)
  BY <1>1, WindowMovesIInv
<1>2. CASE \E s \in Srcs : RtxTimerExpired(s)
  BY <1>2, RtxTimerExpiredIInv
<1>3. CASE SendControlPacket
  BY <1>3, SendControlPacketIInv
<1>4. CASE PortIsFreed
  BY <1>4, PortIsFreedIInv
<1>5. CASE UNCHANGED vars
  BY <1>5 DEF vars, nicVars, IInv, TypeOK, WorkConserving, WaitingIsQueued,
              StreakFollowsCrt, NoAbort, Queued, Sound
<1>6. QED
  BY <1>1, <1>2, <1>3, <1>4, <1>5 DEF Next

LEMMA SpecIInv == Spec => []IInv
BY InitIInv, NextIInv, PTL DEF Spec

(* The state of the NIC and of its sources keeps its types.                  *)
THEOREM TypeCorrect == Spec => []TypeOK
<1>1. IInv => TypeOK
  BY DEF IInv
<1>2. QED
  BY <1>1, SpecIInv, PTL

(* A port is free only if nobody waits for one.                              *)
THEOREM NicIsWorkConserving == Spec => []WorkConserving
<1>1. IInv => WorkConserving
  BY DEF IInv
<1>2. QED
  BY <1>1, SpecIInv, PTL

(* A source with something to send, or that believes it waits, is in the     *)
(* list of the NIC, timeouts that queue it twice included.                   *)
THEOREM NobodyIsForgotten == Spec => []WaitingIsQueued
<1>1. IInv => WaitingIsQueued
  BY DEF IInv
<1>2. QED
  BY <1>1, SpecIInv, PTL

(* With one port, or if no timer expires, the assertions of the NIC and of   *)
(* sendRtxPacket hold.                                                       *)
THEOREM OnePortNeverAborts ==
  ASSUME Ports = 1 \/ MaxRtos = 0
  PROVE  Spec => []NoAbort
<1>1. IInv => NoAbort
  BY DEF IInv, Sound
<1>2. QED
  BY <1>1, SpecIInv, PTL

(* Each class gets its share whenever both wait, for every ratio.            *)
THEOREM SharesHold == Spec => []SharesArePaid
<1>1. IInv => SharesArePaid
  BY UecNicAssumption DEF IInv, StreakFollowsCrt, SharesArePaid, TypeOK
<1>2. QED
  BY <1>1, SpecIInv, PTL

-----------------------------------------------------------------------------
(* The pull pacer                                                          *)

(* Appending adds one member and nothing else. *)
LEMMA AppendMembers ==
  ASSUME NEW S, NEW list \in Seq(S), NEW s \in S
  PROVE  /\ Append(list, s) \in Seq(S)
         /\ Append(list, s) # <<>>
         /\ \A r : InList(r, Append(list, s)) <=> (InList(r, list) \/ r = s)
<1>1. /\ Append(list, s) \in Seq(S)
      /\ Len(Append(list, s)) = Len(list) + 1
      /\ \A i \in 1..Len(list) : Append(list, s)[i] = list[i]
      /\ Append(list, s)[Len(list) + 1] = s
      /\ Len(list) \in Nat
  OBVIOUS
<1>2. Append(list, s) # <<>>
  BY <1>1
<1>3. ASSUME NEW r
      PROVE  InList(r, Append(list, s)) <=> (InList(r, list) \/ r = s)
  BY <1>1 DEF InList
<1> QED
  BY <1>1, <1>2, <1>3

(* A member that is new keeps the list free of duplicates. *)
LEMMA AppendNoDuplicates ==
  ASSUME NEW S, NEW list \in Seq(S), NEW s \in S,
         NoDuplicates(list), ~ InList(s, list)
  PROVE  NoDuplicates(Append(list, s))
<1>1. /\ Len(Append(list, s)) = Len(list) + 1
      /\ \A i \in 1..Len(list) : Append(list, s)[i] = list[i]
      /\ Append(list, s)[Len(list) + 1] = s
      /\ Len(list) \in Nat
  OBVIOUS
<1> QED
  BY <1>1 DEF NoDuplicates, InList

(* Serving the head of a list without duplicates removes just that member. *)
LEMMA TailMembers ==
  ASSUME NEW S, NEW list \in Seq(S), list # <<>>, NoDuplicates(list)
  PROVE  /\ Head(list) \in S /\ InList(Head(list), list)
         /\ Tail(list) \in Seq(S) /\ NoDuplicates(Tail(list))
         /\ \A r : InList(r, Tail(list)) <=> (InList(r, list) /\ r # Head(list))
<1>1. /\ Tail(list) \in Seq(S)
      /\ Len(Tail(list)) = Len(list) - 1
      /\ \A i \in 1..(Len(list) - 1) : Tail(list)[i] = list[i + 1]
      /\ Head(list) = list[1] /\ Len(list) \in Nat /\ Len(list) >= 1
      /\ \A i \in 1..Len(list) : list[i] \in S
  OBVIOUS
<1>2. NoDuplicates(Tail(list))
  BY <1>1 DEF NoDuplicates
<1>3. ASSUME NEW r
      PROVE  InList(r, Tail(list)) <=> (InList(r, list) /\ r # Head(list))
  <2>1. CASE InList(r, Tail(list))
    BY <1>1, <2>1 DEF InList, NoDuplicates
  <2>2. CASE InList(r, list) /\ r # Head(list)
    <3>1. PICK i \in 1..Len(list) : list[i] = r
      BY <2>2 DEF InList
    <3>2. i # 1 /\ i - 1 \in 1..(Len(list) - 1) /\ Tail(list)[i - 1] = r
      BY <1>1, <2>2, <3>1
    <3> QED
      BY <1>1, <2>2, <3>2 DEF InList
  <2> QED
    BY <2>1, <2>2
<1> QED
  BY <1>1, <1>2, <1>3 DEF InList

(* The same for the idle list, where a sink may be listed twice. *)
LEMMA TailType ==
  ASSUME NEW S, NEW list \in Seq(S), list # <<>>
  PROVE  Head(list) \in S /\ Tail(list) \in Seq(S)
  OBVIOUS

-----------------------------------------------------------------------------
(* The inductive invariant: each conjunct needs the others, since the pacer *)
(* reads the flags to keep the lists and the lists to keep its event.       *)
PacerInv == PacerTypeOK /\ ActiveListMatchesFlag /\ PacerRuns /\ DemandIsQueued

LEMMA InitPacerInv == PacerInit => PacerInv
<1> SUFFICES ASSUME PacerInit PROVE PacerInv
  OBVIOUS
<1> USE DEF PacerInit
<1>1. PacerTypeOK
  <2>1. <<>> \in Seq(Sinks)
    OBVIOUS
  <2>2. [s \in Sinks |-> FALSE] \in [Sinks -> BOOLEAN]
    OBVIOUS
  <2> QED
    BY <2>1, <2>2 DEF PacerTypeOK
<1>2. ActiveListMatchesFlag
  BY DEF ActiveListMatchesFlag, NoDuplicates, InList
<1>3. PacerRuns
  BY DEF PacerRuns
<1>4. DemandIsQueued
  BY DEF DemandIsQueued, Backlog
<1> QED
  BY <1>1, <1>2, <1>3, <1>4 DEF PacerInv

(* A packet of sink s raises its target to t: what every receive action     *)
(* does, whether it comes with a request or not.                            *)
LEMMA RaiseTargetType ==
  ASSUME PacerTypeOK, NEW s \in Sinks, NEW pt \in Nat, RaiseTarget(s, pt)
  PROVE  /\ highest_pull_target' \in [Sinks -> Nat]
         /\ \A r \in Sinks \ {s} : highest_pull_target'[r] = highest_pull_target[r]
  BY DEF PacerTypeOK, RaiseTarget, Greater

(* A request by a sink that does not wait keeps the invariant. *)
LEMMA RequestKeepsInv ==
  ASSUME PacerInv, NEW s \in Sinks, NEW pt \in Nat, RaiseTarget(s, pt),
         rerequests' \in Nat,
         IF in_pull[s] THEN NoRequest ELSE RequestPull(s)
  PROVE  PacerInv'
<1>1. /\ highest_pull_target' \in [Sinks -> Nat]
      /\ \A r \in Sinks \ {s} : highest_pull_target'[r] = highest_pull_target[r]
  BY RaiseTargetType DEF PacerInv
<1>2. CASE in_pull[s]
  <2> USE <1>1, <1>2 DEF PacerInv, NoRequest, pacerVars
  <2>1. PacerTypeOK'
    BY DEF PacerTypeOK
  <2>2. ActiveListMatchesFlag'
    BY DEF ActiveListMatchesFlag, NoDuplicates, InList
  <2>3. PacerRuns'
    BY DEF PacerRuns
  <2>4. DemandIsQueued'
    BY DEF DemandIsQueued, ActiveListMatchesFlag, InList, Backlog, PacerTypeOK
  <2> QED
    BY <2>1, <2>2, <2>3, <2>4 DEF PacerInv
<1>3. CASE ~ in_pull[s]
  <2>0. RequestPull(s)
    BY <1>3
  <2>1. /\ active_senders' \in Seq(Sinks) /\ active_senders' # <<>>
        /\ \A r : InList(r, active_senders') <=> (InList(r, active_senders) \/ r = s)
    BY <2>0, AppendMembers DEF RequestPull, PacerInv, PacerTypeOK
  <2>2. NoDuplicates(active_senders')
    BY <2>0, <1>3, AppendNoDuplicates
    DEF RequestPull, PacerInv, PacerTypeOK, ActiveListMatchesFlag
  <2>3. PacerTypeOK'
    BY <1>1, <2>0, <2>1 DEF RequestPull, PacerInv, PacerTypeOK
  <2>4. ActiveListMatchesFlag'
    BY <2>0, <2>1, <2>2
    DEF RequestPull, PacerInv, PacerTypeOK, ActiveListMatchesFlag, InList, NoDuplicates
  <2>5. PacerRuns'
    BY <2>0 DEF RequestPull, PacerInv, PacerRuns, PacerTypeOK
  <2>6. DemandIsQueued'
    BY <1>1, <2>0, <2>1 DEF RequestPull, PacerInv, DemandIsQueued, Backlog, PacerTypeOK, InList
  <2> QED
    BY <2>3, <2>4, <2>5, <2>6 DEF PacerInv
<1> QED
  BY <1>2, <1>3

(* A grant for demand: the served sink leaves the front and comes back at  *)
(* the end exactly if it still has demand.                                  *)
LEMMA GrantActiveKeepsInv ==
  ASSUME PullAssumption, PacerInv, GrantActive
  PROVE  PacerInv'
<1> DEFINE s == Head(active_senders)
<1> USE DEF PacerInv
<1>1. /\ s \in Sinks /\ InList(s, active_senders)
      /\ Tail(active_senders) \in Seq(Sinks) /\ NoDuplicates(Tail(active_senders))
      /\ \A r : InList(r, Tail(active_senders)) <=> (InList(r, active_senders) /\ r # s)
  BY TailMembers DEF GrantActive, PacerTypeOK, ActiveListMatchesFlag
<1>2. PullTo(s) \in Nat
  BY <1>1 DEF PullTo, PullAssumption, PacerTypeOK, Greater
<1> HIDE DEF s
<1>3. /\ latest_pull' = [latest_pull EXCEPT ![s] = PullTo(s)]
      /\ pacer_active' = TRUE /\ pending > 0
      /\ UNCHANGED <<pending, highest_pull_target, rerequests>>
  BY DEF GrantActive, s
<1>4. CASE Backlog(highest_pull_target[s], PullTo(s)) > 0
  <2>1. /\ active_senders' = Append(Tail(active_senders), s)
        /\ UNCHANGED <<idle_senders, in_pull, in_slow_pull>>
    BY <1>4 DEF GrantActive, s
  <2>2. /\ active_senders' \in Seq(Sinks) /\ active_senders' # <<>>
        /\ \A r : InList(r, active_senders') <=> InList(r, active_senders)
    BY <1>1, <2>1, AppendMembers
  <2>3. NoDuplicates(active_senders')
    BY <1>1, <2>1, AppendNoDuplicates
  <2>4. PacerTypeOK'
    BY <1>1, <1>2, <1>3, <2>1, <2>2 DEF PacerTypeOK
  <2>5. ActiveListMatchesFlag'
    BY <2>1, <2>2, <2>3 DEF ActiveListMatchesFlag, InList, NoDuplicates
  <2>6. PacerRuns'
    BY <1>3, <2>1 DEF PacerRuns, PacerTypeOK
  <2>7. DemandIsQueued'
    BY <1>1, <1>2, <1>3, <2>1, <2>2, ZenonT(30) DEF DemandIsQueued, Backlog, PacerTypeOK, InList
  <2> QED
    BY <2>4, <2>5, <2>6, <2>7
<1>5. CASE ~ (Backlog(highest_pull_target[s], PullTo(s)) > 0)
  <2>1. /\ active_senders' = Tail(active_senders)
        /\ idle_senders' = Append(idle_senders, s)
        /\ in_pull' = [in_pull EXCEPT ![s] = FALSE]
        /\ in_slow_pull' = [in_slow_pull EXCEPT ![s] = TRUE]
    BY <1>5 DEF GrantActive, s
  <2>2. PacerTypeOK'
    BY <1>1, <1>2, <1>3, <2>1, AppendMembers DEF PacerTypeOK
  <2>3. ActiveListMatchesFlag'
    BY <1>1, <2>1 DEF ActiveListMatchesFlag, PacerTypeOK, InList, NoDuplicates
  <2>4. PacerRuns'
    BY <1>3 DEF PacerRuns, PacerTypeOK
  <2>5. DemandIsQueued'
    BY <1>1, <1>2, <1>3, <1>5, <2>1 DEF DemandIsQueued, Backlog, PacerTypeOK, InList
  <2> QED
    BY <2>2, <2>3, <2>4, <2>5
<1> QED
  BY <1>4, <1>5

(* A slow grant: nobody has demand, before or after. *)
LEMMA GrantIdleKeepsInv ==
  ASSUME PullAssumption, PacerInv, GrantIdle
  PROVE  PacerInv'
<1> DEFINE s == Head(idle_senders)
<1> USE DEF PacerInv
<1>1. s \in Sinks /\ Tail(idle_senders) \in Seq(Sinks)
  BY TailType DEF GrantIdle, PacerTypeOK
<1> HIDE DEF s
<1>2. PICK stays \in BOOLEAN :
        /\ latest_pull' = [latest_pull EXCEPT ![s] = latest_pull[s] + CreditPerPull]
        /\ idle_senders' = IF stays THEN Append(Tail(idle_senders), s)
                                    ELSE Tail(idle_senders)
        /\ in_slow_pull' = [in_slow_pull EXCEPT ![s] = stays]
        /\ in_pull' = IF stays /\ in_slow_pull[s] THEN in_pull
                      ELSE [in_pull EXCEPT ![s] = FALSE]
        /\ pending > 0 /\ active_senders = <<>> /\ pacer_active' = TRUE
        /\ UNCHANGED <<active_senders, pending, highest_pull_target, rerequests>>
  BY DEF GrantIdle, s
<1>3. \A r \in Sinks : ~ in_pull[r] /\ ~ InList(r, active_senders)
  BY <1>2 DEF ActiveListMatchesFlag, InList
<1>4. PacerTypeOK'
  BY <1>1, <1>2, AppendMembers DEF PacerTypeOK, PullAssumption
<1>5. ActiveListMatchesFlag'
  BY <1>1, <1>2, <1>3 DEF ActiveListMatchesFlag, PacerTypeOK, InList, NoDuplicates
<1>6. PacerRuns'
  BY <1>2 DEF PacerRuns, PacerTypeOK
<1>7. DemandIsQueued'
  BY <1>1, <1>2, <1>3 DEF DemandIsQueued, Backlog, PacerTypeOK, PullAssumption, InList
<1> QED
  BY <1>4, <1>5, <1>6, <1>7

LEMMA NextPacerInv == ASSUME PullAssumption, PacerInv, [PacerNext]_pullVars PROVE PacerInv'
<1>1. CASE GrantActive
  BY <1>1, GrantActiveKeepsInv
<1>2. CASE GrantIdle
  BY <1>2, GrantIdleKeepsInv
<1>3. CASE Sleep
  <2>1. /\ active_senders = <<>> /\ idle_senders = <<>>
        /\ pending > 0 /\ pacer_active' = FALSE /\ pending' = pending - 1
        /\ UNCHANGED <<active_senders, idle_senders, in_pull, in_slow_pull,
                       latest_pull, highest_pull_target, rerequests>>
    BY <1>3 DEF Sleep, sinkVars
  <2> USE <2>1 DEF PacerInv
  <2>2. PacerTypeOK'
    <3>1. FALSE \in BOOLEAN /\ pending - 1 \in Nat
      BY DEF PacerTypeOK
    <3> QED
      BY <3>1 DEF PacerTypeOK
  <2>3. ActiveListMatchesFlag' /\ DemandIsQueued'
    BY DEF ActiveListMatchesFlag, DemandIsQueued, InList, NoDuplicates, Backlog
  <2>4. PacerRuns'
    BY DEF PacerRuns, PacerTypeOK
  <2> QED
    BY <2>2, <2>3, <2>4
<1>4. ASSUME NEW s \in Sinks, NEW pt \in Targets(s),
             ReceiveData(s, pt) \/ ReceiveTrimmedOrRts(s, pt)
      PROVE  PacerInv'
  <2>1. pt \in Nat
    BY PullAssumption DEF Targets, PullAssumption
  <2>2. /\ RaiseTarget(s, pt) /\ rerequests' \in Nat
        /\ IF in_pull[s] THEN NoRequest ELSE RequestPull(s)
    BY <1>4 DEF ReceiveData, ReceiveTrimmedOrRts, PacerInv, PacerTypeOK
  <2> QED
    BY <2>1, <2>2, RequestKeepsInv
<1>5. CASE UNCHANGED pullVars
  BY <1>5 DEF pullVars, pacerVars, sinkVars, PacerInv, PacerTypeOK,
              ActiveListMatchesFlag, PacerRuns, DemandIsQueued, InList, NoDuplicates, Backlog
<1> QED
  BY <1>1, <1>2, <1>3, <1>4, <1>5 DEF PacerNext, doNextEvent

-----------------------------------------------------------------------------
(* For every set of sinks: the types hold, the active list agrees with the  *)
(* sinks' flags, the pacer has exactly the events it needs, and every sink  *)
(* with demand is waiting for its turn.                                     *)
THEOREM PacerInvariant == PacerSpec => []PacerInv
<1>1. PullAssumption
  BY PullAssumption
<1> QED
  BY <1>1, InitPacerInv, NextPacerInv, PTL DEF PacerSpec

(* requestPull never aborts and doNextEvent's assert never fails. *)
THEOREM ActiveListSafe == PacerSpec => []ActiveListMatchesFlag
  BY PacerInvariant, PTL DEF PacerInv

(* The pacer never sleeps while a sink waits and is never scheduled twice. *)
THEOREM PacerAlwaysRuns == PacerSpec => []PacerRuns
  BY PacerInvariant, PTL DEF PacerInv

(* No demand is forgotten. *)
THEOREM DemandAlwaysQueued == PacerSpec => []DemandIsQueued
  BY PacerInvariant, PTL DEF PacerInv

-----------------------------------------------------------------------------
(* A grant beyond the demand is made only when nobody has demand.           *)
LEMMA DemandFirstStep ==
  ASSUME PullAssumption, PacerInv, [PacerNext]_pullVars, NEW s \in Sinks,
         latest_pull'[s] > latest_pull[s]
  PROVE  \/ latest_pull'[s] <= highest_pull_target[s]
         \/ \A r \in Sinks : Backlog(highest_pull_target[r], latest_pull[r]) = 0
<1>1. latest_pull \in [Sinks -> Nat] /\ highest_pull_target \in [Sinks -> Nat]
  BY DEF PacerInv, PacerTypeOK
<1>2. CASE GrantActive
  <2>1. /\ Head(active_senders) \in Sinks
        /\ latest_pull' = [latest_pull EXCEPT ![Head(active_senders)]
                                                 = PullTo(Head(active_senders))]
    BY <1>2, TailType DEF GrantActive, PacerInv, PacerTypeOK
  <2>2. s = Head(active_senders) /\ latest_pull'[s] = PullTo(s)
    BY <1>1, <2>1
  <2> QED
    BY <1>1, <2>2, PullAssumption DEF PullTo, Greater, PullAssumption
<1>3. CASE GrantIdle
  <2>1. \A r \in Sinks : ~ (Backlog(highest_pull_target[r], latest_pull[r]) > 0)
    BY <1>3 DEF GrantIdle, PacerInv, DemandIsQueued, InList
  <2> QED
    BY <1>1, <2>1 DEF Backlog
<1>4. CASE UNCHANGED latest_pull
  BY <1>1, <1>4
<1>5. UNCHANGED latest_pull \/ GrantActive \/ GrantIdle
  BY DEF PacerNext, doNextEvent, Sleep, ReceiveData, ReceiveTrimmedOrRts, NoRequest,
         RequestPull, pullVars, sinkVars
<1> QED
  BY <1>2, <1>3, <1>4, <1>5

(* Slow credit is granted only when no sink has demand. *)
THEOREM DemandComesFirst == PacerSpec => DemandFirst
<1>1. ASSUME PacerInv, [PacerNext]_pullVars
      PROVE  [ \A s \in Sinks :
                 latest_pull'[s] > latest_pull[s] =>
                   \/ latest_pull'[s] <= highest_pull_target[s]
                   \/ \A r \in Sinks :
                        Backlog(highest_pull_target[r], latest_pull[r]) = 0 ]_pullVars
  BY <1>1, PullAssumption, DemandFirstStep
<1> QED
  BY <1>1, PacerInvariant, PTL DEF PacerSpec, DemandFirst

(* The sinks behind the front move up by one at every grant to an active    *)
(* sink and keep their place at any other step.                             *)
LEMMA NoOvertakingStep ==
  ASSUME PacerInv, [PacerNext]_pullVars, NEW i \in 2..Len(active_senders)
  PROVE  \E j \in {i - 1, i} : /\ j <= Len(active_senders')
                               /\ active_senders'[j] = active_senders[i]
                               /\ (GrantActive => j = i - 1)
<1>1. active_senders \in Seq(Sinks) /\ Len(active_senders) \in Nat
  BY DEF PacerInv, PacerTypeOK
<1>2. CASE GrantActive
  <2>1. /\ Tail(active_senders) \in Seq(Sinks)
        /\ Len(Tail(active_senders)) = Len(active_senders) - 1
        /\ Tail(active_senders)[i - 1] = active_senders[i]
        /\ Head(active_senders) \in Sinks
    BY <1>1
  <2>2. \/ active_senders' = Tail(active_senders)
        \/ active_senders' = Append(Tail(active_senders), Head(active_senders))
    BY <1>2 DEF GrantActive
  <2>3. /\ i - 1 <= Len(active_senders')
        /\ active_senders'[i - 1] = active_senders[i]
    BY <1>1, <2>1, <2>2
  <2> QED
    BY <2>3
<1>3. CASE ~ GrantActive
  <2>1. \/ UNCHANGED active_senders
        \/ \E s \in Sinks : active_senders' = Append(active_senders, s)
    BY <1>3 DEF PacerNext, doNextEvent, GrantIdle, Sleep, ReceiveData,
                ReceiveTrimmedOrRts, NoRequest, RequestPull, pullVars, pacerVars
  <2>2. i <= Len(active_senders') /\ active_senders'[i] = active_senders[i]
    BY <1>1, <2>1
  <2> QED
    BY <1>3, <2>2
<1> QED
  BY <1>2, <1>3

(* Grants to active sinks are round robin. *)
THEOREM NobodyIsOvertaken == PacerSpec => NoOvertaking
<1>1. ASSUME PacerInv, [PacerNext]_pullVars
      PROVE  [ \A i \in 2..Len(active_senders) :
                 \E j \in {i - 1, i} : /\ j <= Len(active_senders')
                                       /\ active_senders'[j] = active_senders[i]
                                       /\ (GrantActive => j = i - 1) ]_pullVars
  BY <1>1, NoOvertakingStep
<1> QED
  BY <1>1, PacerInvariant, PTL DEF PacerSpec, NoOvertaking
=============================================================================
