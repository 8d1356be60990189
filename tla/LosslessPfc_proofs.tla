------------------------- MODULE LosslessPfc_proofs -------------------------
(***************************************************************************)
(* Theorems about LosslessPfc, for any number of links and output queues,   *)
(* any thresholds the constructor admits and wires of any length.           *)
(***************************************************************************)
EXTENDS LosslessPfc, TLAPS, SequenceTheorems, FiniteSetTheorems

SuppliedOK ==
  supplied \in [Links -> Nat] /\ \A l \in Links : supplied[l] <= Supply[l]

(* TypeOK without the sign of the counters.                                  *)
Types ==
  /\ enqueued \in [Queues -> Seq(Packets)]
  /\ state_send \in [Queues -> {"ready", "paused", "pause_received"}]
  /\ sending \in [Queues -> BOOLEAN]
  /\ wire \in [Links -> Seq(Packets)]
  /\ fabric \in Seq(Packets)
  /\ frames \in [Links -> Seq(BOOLEAN)] /\ ages \in [Links -> Seq(Nat)]
  /\ \A l \in Links : Len(frames[l]) = Len(ages[l])
  /\ queuesize \in [Links -> Int]
  /\ state_recv \in [Links -> BOOLEAN]
  /\ SuppliedOK

(* Nothing stays on the wire, or on the way back, for longer than its latency. *)
Latency ==
  \A l \in Links : /\ Len(wire[l]) <= Slots
                   /\ \A i \in 1..Len(ages[l]) : ages[l][i] <= Slots

(* What the last PAUSE still lets through: while it is on the way, the packets *)
(* that can be sent before it arrives and the one then in service; after it,   *)
(* the one in service.                                                         *)
Allowed(l) ==
  IF frames[l] # <<>> THEN Slots - ages[l][Len(ages[l])] + 1
  ELSE IF state_send[l] = "pause_received" THEN 1 ELSE 0

(* A paused link has room for what is counted, on the wire and allowed.      *)
RoomForAll ==
  \A l \in Links :
    state_recv[l] => queuesize[l] + Len(wire[l]) + Allowed(l) <= High + 2 * Slots + 1

Inv == /\ Types /\ ServiceIsRight /\ EndsAgree /\ FramesAlternate
       /\ Hysteresis /\ Latency /\ RoomForAll

-----------------------------------------------------------------------------
(* Sequences.                                                                *)

LEMMA AppendFacts ==
  ASSUME NEW S, NEW s \in Seq(S), NEW x \in S
  PROVE  /\ Append(s, x) \in Seq(S) /\ Append(s, x) # <<>>
         /\ Len(Append(s, x)) = Len(s) + 1 /\ Len(s) \in Nat
         /\ Append(s, x)[Len(s) + 1] = x
         /\ \A i \in 1..Len(s) : Append(s, x)[i] = s[i]
OBVIOUS

LEMMA TailFacts ==
  ASSUME NEW S, NEW s \in Seq(S), s # <<>>
  PROVE  /\ Tail(s) \in Seq(S) /\ Head(s) = s[1] /\ Head(s) \in S
         /\ Len(s) \in Nat \ {0} /\ Len(Tail(s)) = Len(s) - 1
         /\ Len(s) > 1 <=> Tail(s) # <<>>
         /\ \A i \in 1..(Len(s) - 1) : Tail(s)[i] = s[i + 1]
<1>1. Len(s) \in Nat \ {0} /\ Head(s) = s[1] /\ Head(s) \in S
  OBVIOUS
<1> DEFINE t == Tail(s)
<1>2. /\ t \in Seq(S) /\ Len(t) = Len(s) - 1
      /\ \A i \in 1..(Len(s) - 1) : t[i] = s[i + 1]
  BY HeadTailProperties
<1> HIDE DEF t
<1>3. Len(s) > 1 <=> t # <<>>
  BY <1>1, <1>2, EmptySeq
<1> QED
  BY <1>1, <1>2, <1>3 DEF t

LEMMA EmptyFacts ==
  ASSUME NEW S, NEW s \in Seq(S)
  PROVE  Len(s) \in Nat /\ (s = <<>> <=> Len(s) = 0) /\ (s # <<>> => Head(s) = s[1])
OBVIOUS

(* A packet of a switch is of a link and goes to an output queue.            *)
LEMMA PacketFields ==
  ASSUME NEW p \in Packets
  PROVE  p.link \in Links /\ p.out \in Outs
BY DEF Packets

-----------------------------------------------------------------------------
(* Output queues.                                                            *)

(* What ServiceIsRight says of one queue.                                    *)
Right(q) ==
  /\ state_send[q] = "ready" => (sending[q] <=> enqueued[q] # <<>>)
  /\ state_send[q] = "pause_received" => sending[q] /\ enqueued[q] # <<>>
  /\ state_send[q] = "paused" => ~sending[q]

OutputTypes ==
  /\ enqueued \in [Queues -> Seq(Packets)]
  /\ state_send \in [Queues -> {"ready", "paused", "pause_received"}]
  /\ sending \in [Queues -> BOOLEAN]

LEMMA EnqueueRight ==
  ASSUME OutputTypes, ServiceIsRight, NEW q \in Queues, NEW p \in Packets, Enqueue(q, p)
  PROVE  OutputTypes' /\ ServiceIsRight'
<1> USE DEF OutputTypes
<1>1. OutputTypes'
  BY AppendFacts DEF Enqueue
<1>2. ASSUME NEW r \in Queues PROVE Right(r)'
  <2>1. Right(r)
    BY DEF ServiceIsRight, Right
  <2>2. CASE r = q
    <3>1. /\ enqueued'[r] # <<>> /\ state_send'[r] = state_send[r]
          /\ sending'[r] = (sending[r] \/ (enqueued[r] = <<>> /\ state_send[r] = "ready"))
      BY <2>2, AppendFacts DEF Enqueue
    <3> QED
      BY <2>1, <3>1, <1>1 DEF Right
  <2>3. CASE r # q
    BY <2>1, <2>3 DEF Enqueue, Right
  <2> QED
    BY <2>2, <2>3
<1> QED
  BY <1>1, <1>2 DEF ServiceIsRight, Right

LEMMA FrameRight ==
  ASSUME OutputTypes, ServiceIsRight, NEW q \in Queues, NEW pause \in BOOLEAN,
         ReceiveFrame(q, pause)
  PROVE  /\ OutputTypes' /\ ServiceIsRight'
         /\ state_send'[q] = "ready" <=> ~pause
         /\ \A r \in Queues \ {q} : state_send'[r] = state_send[r]
<1> USE DEF OutputTypes
<1>1. OutputTypes'
  BY DEF ReceiveFrame
<1>2. ASSUME NEW r \in Queues PROVE Right(r)'
  <2>1. Right(r)
    BY DEF ServiceIsRight, Right
  <2>2. CASE r = q
    <3>1. /\ enqueued'[r] = enqueued[r]
          /\ state_send'[r] = IF ~pause THEN "ready"
                              ELSE IF sending[r] THEN "pause_received" ELSE "paused"
          /\ sending'[r] = (sending[r] \/ (~pause /\ enqueued[r] # <<>>))
      BY <2>2 DEF ReceiveFrame
    <3> QED
      BY <2>1, <3>1, <1>1 DEF Right
  <2>3. CASE r # q
    BY <2>1, <2>3 DEF ReceiveFrame, Right
  <2> QED
    BY <2>2, <2>3
<1>3. ServiceIsRight'
  BY <1>2 DEF ServiceIsRight, Right
<1> QED
  BY <1>1, <1>3 DEF ReceiveFrame

LEMMA CompleteRight ==
  ASSUME OutputTypes, ServiceIsRight, NEW q \in Queues, CompleteService(q)
  PROVE  /\ OutputTypes' /\ ServiceIsRight'
         /\ enqueued[q] # <<>> /\ Head(enqueued[q]) \in Packets
         /\ state_send[q] # "paused"
         /\ state_send'[q] = IF state_send[q] = "ready" THEN "ready" ELSE "paused"
         /\ \A r \in Queues \ {q} : state_send'[r] = state_send[r]
<1> USE DEF OutputTypes
<1>1. /\ Right(q) /\ sending[q] = TRUE
      /\ state_send[q] \in {"ready", "paused", "pause_received"}
  BY DEF ServiceIsRight, Right, CompleteService
<1>2. enqueued[q] # <<>> /\ state_send[q] # "paused"
  BY <1>1 DEF Right
<1>3. /\ Head(enqueued[q]) \in Packets /\ Tail(enqueued[q]) \in Seq(Packets)
      /\ Len(enqueued[q]) > 1 <=> Tail(enqueued[q]) # <<>>
  <2>1. enqueued[q] \in Seq(Packets)
    OBVIOUS
  <2> QED
    BY <1>2, <2>1, TailFacts, Zenon
<1>4. OutputTypes'
  BY <1>3 DEF CompleteService
<1>5. ASSUME NEW r \in Queues PROVE Right(r)'
  <2>1. Right(r)
    BY DEF ServiceIsRight, Right
  <2>2. CASE r = q
    <3>1. /\ enqueued'[r] = Tail(enqueued[r])
          /\ state_send'[r] = IF state_send[r] = "pause_received" THEN "paused"
                              ELSE state_send[r]
          /\ sending'[r] = (Len(enqueued[r]) > 1 /\ state_send[r] = "ready")
      BY <2>2 DEF CompleteService
    <3> QED
      BY <3>1, <1>1, <1>2, <1>3, <1>4, <2>2 DEF Right
  <2>3. CASE r # q
    BY <2>1, <2>3 DEF CompleteService, Right
  <2> QED
    BY <2>2, <2>3
<1>6. ServiceIsRight'
  BY <1>5 DEF ServiceIsRight, Right
<1> QED
  BY <1>1, <1>2, <1>3, <1>4, <1>6 DEF CompleteService

-----------------------------------------------------------------------------
(* Links.                                                                    *)

InputTypes ==
  /\ wire \in [Links -> Seq(Packets)]
  /\ frames \in [Links -> Seq(BOOLEAN)] /\ ages \in [Links -> Seq(Nat)]
  /\ \A l \in Links : Len(frames[l]) = Len(ages[l])
  /\ queuesize \in [Links -> Int]
  /\ state_recv \in [Links -> BOOLEAN]

Agrees(l) ==
  IF frames[l] = <<>> THEN state_recv[l] <=> state_send[l] # "ready"
  ELSE state_recv[l] <=> frames[l][Len(frames[l])]

Alternates(l) ==
  /\ frames[l] # <<>> => (Head(frames[l]) <=> state_send[l] = "ready")
  /\ \A i \in 1..(Len(frames[l]) - 1) : frames[l][i] # frames[l][i + 1]

Thresholds(l) == IF state_recv[l] THEN queuesize[l] >= Low ELSE queuesize[l] <= High

InTime(l) == /\ Len(wire[l]) <= Slots
             /\ \A i \in 1..Len(ages[l]) : ages[l][i] <= Slots

HasRoom(l) ==
  state_recv[l] => queuesize[l] + Len(wire[l]) + Allowed(l) <= High + 2 * Slots + 1

LinkInv(l) == Agrees(l) /\ Alternates(l) /\ Thresholds(l) /\ InTime(l) /\ HasRoom(l)

(* Links whose state a step leaves alone, that of the output queue at the    *)
(* other end included as far as LinkInv sees it.                             *)
LinkUnchanged(l) ==
  /\ wire'[l] = wire[l] /\ frames'[l] = frames[l] /\ ages'[l] = ages[l]
  /\ queuesize'[l] = queuesize[l] /\ state_recv'[l] = state_recv[l]
  /\ state_send'[l] = state_send[l]

LEMMA InvIsLinkInv ==
  Inv <=> Types /\ ServiceIsRight /\ \A l \in Links : LinkInv(l)
BY DEF Inv, EndsAgree, FramesAlternate, Hysteresis, Latency, RoomForAll,
       LinkInv, Agrees, Alternates, Thresholds, InTime, HasRoom

LEMMA PartsOfNextInv ==
  ASSUME Types', ServiceIsRight', \A l \in Links : LinkInv(l)'
  PROVE  Inv'
BY DEF Inv, EndsAgree, FramesAlternate, Hysteresis, Latency, RoomForAll,
       LinkInv, Agrees, Alternates, Thresholds, InTime, HasRoom

LEMMA LinkInvUnchanged ==
  ASSUME NEW l \in Links, LinkInv(l), LinkUnchanged(l)
  PROVE  LinkInv(l)'
BY DEF LinkUnchanged, LinkInv, Agrees, Alternates, Thresholds, InTime, HasRoom, Allowed

LEMMA TypesSplit == Types <=> /\ OutputTypes /\ InputTypes /\ fabric \in Seq(Packets)
                              /\ SuppliedOK
BY DEF Types, OutputTypes, InputTypes

(* A frame that turns the state of the input queue around.                   *)
LEMMA SendPauseRight ==
  ASSUME InputTypes, NEW l \in Links, Agrees(l), Alternates(l),
         \A i \in 1..Len(ages[l]) : ages[l][i] <= Slots,
         NEW pause \in BOOLEAN, state_recv[l] = ~pause, SendPause(l, pause),
         state_recv' = [state_recv EXCEPT ![l] = pause], state_send'[l] = state_send[l]
  PROVE  /\ frames' \in [Links -> Seq(BOOLEAN)] /\ ages' \in [Links -> Seq(Nat)]
         /\ \A k \in Links : Len(frames'[k]) = Len(ages'[k])
         /\ Agrees(l)' /\ Alternates(l)'
         /\ \A i \in 1..Len(ages'[l]) : ages'[l][i] <= Slots
         /\ frames'[l] # <<>> /\ ages'[l][Len(ages'[l])] = 0
         /\ \A k \in Links \ {l} : frames'[k] = frames[k] /\ ages'[k] = ages[k]
<1>1. /\ frames[l] \in Seq(BOOLEAN) /\ ages[l] \in Seq(Nat) /\ Len(frames[l]) = Len(ages[l])
      /\ frames'[l] = Append(frames[l], pause) /\ ages'[l] = Append(ages[l], 0)
      /\ state_recv'[l] = pause
      /\ \A k \in Links \ {l} : frames'[k] = frames[k] /\ ages'[k] = ages[k]
  BY DEF InputTypes, SendPause
<1> DEFINE f == frames'[l]
           a == ages'[l]
           n == Len(frames[l])
<1>2. /\ f \in Seq(BOOLEAN) /\ f # <<>> /\ Len(f) = n + 1 /\ n \in Nat
      /\ f[n + 1] = pause /\ \A i \in 1..n : f[i] = frames[l][i]
  BY <1>1, AppendFacts
<1>3. /\ a \in Seq(Nat) /\ Len(a) = n + 1 /\ a[n + 1] = 0
      /\ \A i \in 1..n : a[i] = ages[l][i]
  <2>1. 0 \in Nat
    OBVIOUS
  <2> QED
    BY <1>1, <2>1, AppendFacts
<1>4. Head(f) = f[1] /\ (frames[l] = <<>> <=> n = 0) /\ (n # 0 => Head(frames[l]) = frames[l][1])
  BY <1>1, <1>2, EmptyFacts
<1> HIDE DEF f, a, n
<1>5. frames' \in [Links -> Seq(BOOLEAN)] /\ ages' \in [Links -> Seq(Nat)]
  BY <1>2, <1>3 DEF f, a, InputTypes, SendPause
<1>6. \A k \in Links : Len(frames'[k]) = Len(ages'[k])
  BY <1>1, <1>2, <1>3 DEF f, a, InputTypes
<1>7. f # <<>> /\ f[Len(f)] = pause /\ a[Len(a)] = 0
  BY <1>2, <1>3
<1>8. Agrees(l)'
  BY <1>1, <1>7 DEF f, Agrees
<1>9. \A i \in 1..Len(a) : a[i] <= Slots
  <2>1. ASSUME NEW i \in 1..n PROVE ages[l][i] <= Slots
    BY <1>1 DEF n
  <2> QED
    BY <2>1, <1>2, <1>3, PfcAssumption, SMTT(30)
<1>10. Alternates(l)'
  <2>1. f[1] <=> state_send[l] = "ready"
    <3>1. CASE n = 0
      <4>1. frames[l] = <<>> /\ f[1] = pause
        BY <1>2, <1>4, <3>1
      <4> QED
        BY <4>1 DEF Agrees
    <3>2. CASE n # 0
      <4>1. frames[l] # <<>> /\ f[1] = frames[l][1]
        BY <1>2, <1>4, <3>2
      <4> QED
        BY <4>1, <1>4, <3>2 DEF Alternates
    <3> QED
      BY <3>1, <3>2
  <2>2. ASSUME NEW i \in 1..n PROVE f[i] # f[i + 1]
    <3>1. CASE i < n
      <4>1. f[i] = frames[l][i] /\ f[i + 1] = frames[l][i + 1] /\ i \in 1..(n - 1)
        BY <1>2, <3>1
      <4> QED
        BY <4>1 DEF Alternates, n
    <3>2. CASE i = n
      <4>1. f[i] = frames[l][n] /\ f[i + 1] = pause /\ frames[l] # <<>>
        BY <1>2, <1>4, <3>2
      <4>2. state_recv[l] <=> frames[l][n]
        BY <4>1 DEF Agrees, n
      <4>3. f[i] \in BOOLEAN
        BY <1>2, ElementOfSeq
      <4> QED
        BY <4>1, <4>2, <4>3
    <3> QED
      BY <1>2, <3>1, <3>2
  <2>3. Head(f) <=> state_send'[l] = "ready"
    BY <2>1, <1>4
  <2>4. \A i \in 1..(Len(f) - 1) : f[i] # f[i + 1]
    BY <2>2, <1>2
  <2> QED
    BY <2>3, <2>4 DEF Alternates, f
<1> QED
  BY <1>1, <1>5, <1>6, <1>7, <1>8, <1>9, <1>10 DEF f, a

(* What a PAUSE allows fits when it is sent.                                 *)
LEMMA RoomAtPause ==
  ASSUME NEW q \in Int, NEW w \in Int, NEW a \in Int,
         q = High + 1, w <= Slots - 1, a = Slots + 1
  PROVE  q + w + a <= High + 2 * Slots + 1
BY PfcAssumption

(* Counting a packet in takes it off the wire, so its room stays the same.   *)
LEMMA CountInRight ==
  ASSUME InputTypes, NEW l \in Links, LinkInv(l), wire[l] # <<>>,
         wire' = [wire EXCEPT ![l] = Tail(@)], CountIn(l), state_send'[l] = state_send[l]
  PROVE  /\ InputTypes' /\ LinkInv(l)'
         /\ \A k \in Links \ {l} : /\ wire'[k] = wire[k] /\ frames'[k] = frames[k]
                                   /\ ages'[k] = ages[k] /\ queuesize'[k] = queuesize[k]
                                   /\ state_recv'[k] = state_recv[k]
<1> USE PfcAssumption DEF LinkInv
<1>1. /\ wire[l] \in Seq(Packets) /\ queuesize[l] \in Int /\ state_recv[l] \in BOOLEAN
      /\ ages[l] \in Seq(Nat) /\ Len(frames[l]) = Len(ages[l])
  BY DEF InputTypes
<1> DEFINE w == Tail(wire[l])
<1>2. w \in Seq(Packets) /\ Len(w) = Len(wire[l]) - 1 /\ Len(wire[l]) \in Nat
  BY <1>1, TailFacts
<1>3. /\ wire'[l] = w /\ queuesize'[l] = queuesize[l] + 1
      /\ wire' \in [Links -> Seq(Packets)] /\ queuesize' \in [Links -> Int]
      /\ \A k \in Links \ {l} : wire'[k] = wire[k] /\ queuesize'[k] = queuesize[k]
  BY <1>2 DEF InputTypes, CountIn
<1> HIDE DEF w
<1>4. Len(wire'[l]) <= Slots - 1
  BY <1>2, <1>3 DEF InTime
<1>5. CASE queuesize[l] + 1 > High /\ ~state_recv[l]
  <2>1. SendPause(l, TRUE) /\ state_recv' = [state_recv EXCEPT ![l] = TRUE]
    BY <1>5 DEF CountIn
  <2>2. /\ frames' \in [Links -> Seq(BOOLEAN)] /\ ages' \in [Links -> Seq(Nat)]
        /\ \A k \in Links : Len(frames'[k]) = Len(ages'[k])
        /\ Agrees(l)' /\ Alternates(l)'
        /\ \A i \in 1..Len(ages'[l]) : ages'[l][i] <= Slots
        /\ frames'[l] # <<>> /\ ages'[l][Len(ages'[l])] = 0
        /\ \A k \in Links \ {l} : frames'[k] = frames[k] /\ ages'[k] = ages[k]
    BY <1>1, <1>5, <2>1, SendPauseRight DEF InTime
  <2>3. state_recv' \in [Links -> BOOLEAN] /\ state_recv'[l] = TRUE
    BY <2>1 DEF InputTypes
  <2>4. queuesize'[l] = High + 1
    BY <1>1, <1>3, <1>5 DEF Thresholds
  <2>5. Thresholds(l)' /\ InTime(l)'
    BY <1>4, <2>2, <2>3, <2>4, <1>2, <1>3 DEF Thresholds, InTime
  <2>6. HasRoom(l)'
    <3>1. Allowed(l)' = Slots + 1
      BY <2>2 DEF Allowed
    <3>2. Len(wire'[l]) \in Int
      BY <1>2, <1>3
    <3>3. queuesize'[l] + Len(wire'[l]) + Allowed(l)' <= High + 2 * Slots + 1
      <4>1. Allowed(l)' \in Int /\ queuesize'[l] \in Int
        BY <2>4, <3>1
      <4> QED
        BY <4>1, <3>1, <3>2, <1>4, <2>4, RoomAtPause
    <3> QED
      BY <3>3 DEF HasRoom
  <2> QED
    BY <1>3, <2>1, <2>2, <2>3, <2>5, <2>6 DEF InputTypes
<1>6. CASE ~(queuesize[l] + 1 > High /\ ~state_recv[l])
  <2>1. UNCHANGED <<state_recv, frames, ages>>
    BY <1>6 DEF CountIn
  <2>2. Agrees(l)' /\ Alternates(l)'
    BY <2>1 DEF Agrees, Alternates
  <2>3. Thresholds(l)'
    BY <1>1, <1>3, <1>6, <2>1 DEF Thresholds
  <2>4. InTime(l)'
    BY <1>2, <1>3, <1>4, <2>1 DEF InTime
  <2>5. Allowed(l)' = Allowed(l)
    BY <2>1 DEF Allowed
  <2>6. HasRoom(l)'
    <3>1. queuesize'[l] + Len(wire'[l]) = queuesize[l] + Len(wire[l])
      BY <1>1, <1>2, <1>3
    <3> QED
      BY <2>1, <2>5, <3>1 DEF HasRoom
  <2> QED
    BY <1>3, <2>1, <2>2, <2>3, <2>4, <2>6 DEF InputTypes
<1> QED
  BY <1>5, <1>6

LEMMA CountOutRight ==
  ASSUME InputTypes, NEW l \in Links, LinkInv(l), UNCHANGED wire, CountOut(l),
         state_send'[l] = state_send[l], OutputTypes
  PROVE  /\ InputTypes' /\ LinkInv(l)'
         /\ \A k \in Links \ {l} : /\ frames'[k] = frames[k] /\ ages'[k] = ages[k]
                                   /\ queuesize'[k] = queuesize[k]
                                   /\ state_recv'[k] = state_recv[k]
<1> USE PfcAssumption DEF LinkInv
<1>1. /\ wire[l] \in Seq(Packets) /\ queuesize[l] \in Int /\ state_recv[l] \in BOOLEAN
      /\ ages[l] \in Seq(Nat) /\ Len(frames[l]) = Len(ages[l])
  BY DEF InputTypes
<1>2. Len(wire[l]) \in Nat
  BY <1>1, EmptyFacts
<1>3. /\ queuesize'[l] = queuesize[l] - 1 /\ queuesize' \in [Links -> Int]
      /\ \A k \in Links \ {l} : queuesize'[k] = queuesize[k]
  BY DEF InputTypes, CountOut
<1>5. CASE queuesize[l] - 1 < Low /\ state_recv[l]
  <2>1. SendPause(l, FALSE) /\ state_recv' = [state_recv EXCEPT ![l] = FALSE]
    BY <1>5 DEF CountOut
  <2>2. /\ frames' \in [Links -> Seq(BOOLEAN)] /\ ages' \in [Links -> Seq(Nat)]
        /\ \A k \in Links : Len(frames'[k]) = Len(ages'[k])
        /\ Agrees(l)' /\ Alternates(l)'
        /\ \A i \in 1..Len(ages'[l]) : ages'[l][i] <= Slots
        /\ \A k \in Links \ {l} : frames'[k] = frames[k] /\ ages'[k] = ages[k]
    BY <1>1, <1>5, <2>1, SendPauseRight DEF InTime
  <2>3. state_recv' \in [Links -> BOOLEAN] /\ state_recv'[l] = FALSE
    BY <2>1 DEF InputTypes
  <2>4. Thresholds(l)' /\ InTime(l)' /\ HasRoom(l)'
    BY <1>1, <1>3, <1>5, <2>2, <2>3 DEF Thresholds, InTime, HasRoom
  <2> QED
    BY <1>3, <2>1, <2>2, <2>3, <2>4 DEF InputTypes
<1>6. CASE ~(queuesize[l] - 1 < Low /\ state_recv[l])
  <2>1. UNCHANGED <<state_recv, frames, ages>>
    BY <1>6 DEF CountOut
  <2>2. Agrees(l)' /\ Alternates(l)' /\ InTime(l)'
    BY <2>1 DEF Agrees, Alternates, InTime
  <2>3. Thresholds(l)'
    BY <1>1, <1>3, <1>6, <2>1 DEF Thresholds
  <2>4. Allowed(l)' = Allowed(l) /\ Allowed(l) \in Int
    <3>1. frames[l] # <<>> => ages[l][Len(ages[l])] \in Nat
      <4>1. frames[l] # <<>> => Len(frames[l]) \in Nat \ {0}
        BY EmptySeq DEF InputTypes
      <4> QED
        BY <4>1, <1>1, ElementOfSeq
    <3> QED
      BY <2>1, <3>1 DEF Allowed
  <2>5. HasRoom(l)'
    BY <1>1, <1>2, <1>3, <2>1, <2>4 DEF HasRoom
  <2> QED
    BY <1>3, <2>1, <2>2, <2>3, <2>5 DEF InputTypes
<1> QED
  BY <1>5, <1>6

-----------------------------------------------------------------------------
(* Steps of a link.                                                          *)

LEMMA LinkSendsRight ==
  ASSUME Inv, NEW l \in Links, LinkSends(l)
  PROVE  Inv'
<1> USE PfcAssumption DEF LinkInv
<1>1. /\ Types /\ OutputTypes /\ InputTypes /\ ServiceIsRight /\ l \in Queues
      /\ \A k \in Links : LinkInv(k)
  BY InvIsLinkInv, TypesSplit DEF Queues
<1>2. /\ OutputTypes' /\ ServiceIsRight' /\ Head(enqueued[l]) \in Packets
      /\ state_send[l] # "paused"
      /\ state_send'[l] = IF state_send[l] = "ready" THEN "ready" ELSE "paused"
      /\ \A r \in Queues \ {l} : state_send'[r] = state_send[r]
  BY <1>1, CompleteRight DEF LinkSends
<1> DEFINE a == [i \in 1..Len(ages[l]) |-> ages[l][i] + 1]
<1>3. /\ wire[l] \in Seq(Packets) /\ ages[l] \in Seq(Nat) /\ Len(frames[l]) = Len(ages[l])
      /\ state_send[l] \in {"ready", "paused", "pause_received"} /\ queuesize[l] \in Int
      /\ frames[l] \in Seq(BOOLEAN)
  BY <1>1 DEF InputTypes, OutputTypes, Queues
<1>4. /\ wire'[l] = Append(wire[l], Head(enqueued[l]))
      /\ \A k \in Links \ {l} : wire'[k] = wire[k] /\ ages'[k] = ages[k]
      /\ ages'[l] = a
      /\ UNCHANGED <<queuesize, state_recv, frames, fabric, supplied>>
  BY <1>1 DEF LinkSends, InputTypes
<1>5. /\ wire'[l] \in Seq(Packets) /\ Len(wire'[l]) = Len(wire[l]) + 1
      /\ Len(wire[l]) \in Nat
  BY <1>2, <1>3, <1>4, AppendFacts
<1>6. a \in Seq(Nat) /\ Len(a) = Len(ages[l]) /\ Len(ages[l]) \in Nat
  BY <1>3
<1>7. \A i \in 1..Len(ages[l]) : a[i] = ages[l][i] + 1 /\ ages[l][i] \in Nat
  BY <1>3
<1> HIDE DEF a
<1>8. InputTypes'
  BY <1>1, <1>3, <1>4, <1>5, <1>6 DEF InputTypes, LinkSends
<1>9. LinkInv(l)'
  <2>1. LinkInv(l)
    BY <1>1
  <2>2. state_send'[l] = "ready" <=> state_send[l] = "ready"
    BY <1>2
  <2>3. Agrees(l)' /\ Alternates(l)' /\ Thresholds(l)'
    BY <2>1, <2>2, <1>4 DEF Agrees, Alternates, Thresholds
  <2>4. InTime(l)'
    <3>1. \A i \in 1..Len(a) : a[i] <= Slots
      BY <1>3, <1>6, <1>7 DEF LinkSends
    <3> QED
      BY <3>1, <1>4, <1>5 DEF InTime, LinkSends
  <2>5. CASE frames[l] # <<>>
    <3>1. Len(frames[l]) \in 1..Len(ages[l])
      BY <1>3, <1>6, <2>5, EmptyFacts
    <3>2. a[Len(a)] = ages[l][Len(ages[l])] + 1 /\ ages[l][Len(ages[l])] \in Nat
      BY <1>3, <1>6, <1>7, <3>1
    <3>3. /\ Allowed(l) = Slots - ages[l][Len(ages[l])] + 1
          /\ Allowed(l)' = Slots - a[Len(a)] + 1
      BY <1>4, <2>5 DEF Allowed
    <3>4. Allowed(l) \in Int /\ Allowed(l)' = Allowed(l) - 1
      BY <3>2, <3>3
    <3>5. queuesize[l] + Len(wire'[l]) + Allowed(l)' = queuesize[l] + Len(wire[l]) + Allowed(l)
      <4>1. queuesize[l] \in Int /\ Len(wire[l]) \in Int /\ Len(wire'[l]) = Len(wire[l]) + 1
        BY <1>3, <1>5
      <4> QED
        BY <4>1, <3>4
    <3> QED
      BY <2>1, <2>3, <2>4, <3>5, <1>4 DEF HasRoom
  <2>6. CASE frames[l] = <<>>
    <3>1. state_recv[l] => state_send[l] = "pause_received" /\ state_send'[l] = "paused"
      BY <1>2, <1>3, <2>1, <2>6 DEF Agrees
    <3>2. state_recv[l] => Allowed(l) = 1 /\ Allowed(l)' = 0
      BY <3>1, <1>4, <2>6 DEF Allowed
    <3>3. state_recv[l] => queuesize[l] + Len(wire'[l]) + Allowed(l)'
                           = queuesize[l] + Len(wire[l]) + Allowed(l)
      BY <3>2, <1>3, <1>5
    <3> QED
      BY <2>1, <2>3, <2>4, <3>3, <1>4 DEF HasRoom
  <2> QED
    BY <2>5, <2>6
<1>10. ASSUME NEW k \in Links, k # l PROVE LinkInv(k)'
  <2>1. LinkUnchanged(k)
    BY <1>2, <1>4, <1>10 DEF LinkUnchanged, Queues
  <2> QED
    BY <1>1, <2>1, LinkInvUnchanged
<1>11. Types'
  BY <1>1, <1>2, <1>4, <1>8, TypesSplit DEF Types, OutputTypes, InputTypes, SuppliedOK
<1> QED
  BY <1>2, <1>9, <1>10, <1>11, PartsOfNextInv

LEMMA FrameArrivesRight ==
  ASSUME Inv, NEW l \in Links, FrameArrives(l)
  PROVE  Inv'
<1> USE PfcAssumption DEF LinkInv
<1>1. /\ Types /\ OutputTypes /\ InputTypes /\ ServiceIsRight /\ l \in Queues
      /\ \A k \in Links : LinkInv(k)
  BY InvIsLinkInv, TypesSplit DEF Queues
<1>2. /\ frames[l] # <<>> /\ frames[l] \in Seq(BOOLEAN) /\ ages[l] \in Seq(Nat)
      /\ Len(frames[l]) = Len(ages[l]) /\ queuesize[l] \in Int /\ wire[l] \in Seq(Packets)
      /\ Agrees(l) /\ Alternates(l) /\ Thresholds(l) /\ InTime(l) /\ HasRoom(l)
  BY <1>1 DEF FrameArrives, InputTypes
<1> DEFINE f == Tail(frames[l])
           a == Tail(ages[l])
           n == Len(frames[l])
           h == Head(frames[l])
<1>3. /\ f \in Seq(BOOLEAN) /\ h = frames[l][1] /\ h \in BOOLEAN
      /\ n \in Nat \ {0} /\ Len(f) = n - 1
      /\ n > 1 <=> f # <<>>
      /\ \A i \in 1..(n - 1) : f[i] = frames[l][i + 1]
  <2>1. frames[l] \in Seq(BOOLEAN) /\ frames[l] # <<>>
    BY <1>2
  <2>2. /\ f \in Seq(BOOLEAN) /\ h = frames[l][1] /\ h \in BOOLEAN
        /\ n \in Nat \ {0} /\ Len(f) = n - 1
    BY <2>1, TailFacts, Zenon
  <2>3. n > 1 <=> f # <<>>
    BY <2>1, TailFacts, Zenon
  <2>4. \A i \in 1..(n - 1) : f[i] = frames[l][i + 1]
    BY <2>1, <2>2, HeadTailProperties
  <2> QED
    BY <2>2, <2>3, <2>4
<1>4. /\ a \in Seq(Nat) /\ Len(a) = n - 1 /\ \A i \in 1..(n - 1) : a[i] = ages[l][i + 1]
  <2>1. ages[l] # <<>>
    BY <1>2, <1>3, EmptyFacts
  <2> QED
    BY <1>2, <2>1, TailFacts
<1>5. /\ frames'[l] = f /\ ages'[l] = a
      /\ \A k \in Links \ {l} : frames'[k] = frames[k] /\ ages'[k] = ages[k]
      /\ UNCHANGED <<wire, fabric, queuesize, state_recv, supplied>>
      /\ ReceiveFrame(l, h)
  BY <1>1 DEF FrameArrives, InputTypes
<1>6. frames' \in [Links -> Seq(BOOLEAN)] /\ ages' \in [Links -> Seq(Nat)]
  BY <1>1, <1>3, <1>4 DEF f, a, FrameArrives, InputTypes
<1> HIDE DEF f, a, h, n
<1>7. /\ OutputTypes' /\ ServiceIsRight'
      /\ state_send'[l] = "ready" <=> ~h
      /\ \A r \in Queues \ {l} : state_send'[r] = state_send[r]
  BY <1>1, <1>3, <1>5, FrameRight
<1>8. InputTypes'
  BY <1>1, <1>3, <1>4, <1>5, <1>6 DEF InputTypes
<1>9. LinkInv(l)'
  <2>1. CASE n = 1
    <3>1. f = <<>> /\ (state_recv[l] <=> h)
      BY <1>2, <1>3, <2>1 DEF Agrees, n
    <3>2. Agrees(l)'
      BY <3>1, <1>5, <1>7 DEF Agrees, n
    <3>3. Alternates(l)'
      <4>1. Len(f) = 0
        BY <1>3, <2>1
      <4>2. 1..(Len(f) - 1) = {}
        BY <4>1
      <4> QED
        BY <3>1, <4>1, <4>2, <1>5 DEF Alternates
    <3>4. Thresholds(l)'
      BY <1>2, <1>5 DEF Thresholds
    <3>5. InTime(l)'
      BY <1>2, <1>4, <1>5, <2>1 DEF InTime, n
    <3>6. HasRoom(l)'
      <4>1. /\ Allowed(l) = Slots - ages[l][1] + 1 /\ ages[l][1] \in Nat
            /\ ages[l][1] <= Slots
        <5>1. Len(ages[l]) = 1 /\ 1 \in 1..Len(ages[l])
          BY <1>2, <2>1 DEF n
        <5>2. ages[l][1] \in Nat
          BY <5>1, <1>2, ElementOfSeq
        <5> QED
          BY <5>1, <5>2, <1>2 DEF Allowed, InTime
      <4>2. Allowed(l)' \in 0..1
        BY <3>1, <1>5 DEF Allowed
      <4>3. Allowed(l)' <= Allowed(l) /\ Allowed(l) \in Int /\ Len(wire[l]) \in Int
        BY <4>1, <4>2, <1>2, SMTT(30)
      <4>4. queuesize[l] + Len(wire[l]) + Allowed(l)' <= queuesize[l] + Len(wire[l]) + Allowed(l)
        BY <4>2, <4>3, <1>2
      <4>5. state_recv[l] =>
              queuesize[l] + Len(wire[l]) + Allowed(l)' <= High + 2 * Slots + 1
        BY <4>2, <4>3, <1>2 DEF HasRoom
      <4> QED
        BY <4>5, <1>5 DEF HasRoom
    <3> QED
      BY <3>2, <3>3, <3>4, <3>5, <3>6
  <2>2. CASE n > 1
    <3>1. /\ f # <<>> /\ f[Len(f)] = frames[l][n] /\ a[Len(a)] = ages[l][n]
          /\ Head(f) = f[1] /\ f[1] = frames[l][2]
      BY <1>3, <1>4, <2>2, EmptyFacts
    <3>2. Agrees(l)'
      BY <3>1, <1>2, <1>5 DEF Agrees, n
    <3>3. Alternates(l)'
      <4>1. frames[l][1] # frames[l][2] /\ frames[l][2] \in BOOLEAN
        <5>1. 1 \in 1..(n - 1) /\ 2 \in 1..n /\ 1 + 1 = 2
          BY <1>3, <2>2
        <5>2. frames[l][1] # frames[l][1 + 1]
          BY <5>1, <1>2, Zenon DEF Alternates, n
        <5>3. frames[l][2] \in BOOLEAN
          BY <5>1, <1>2, ElementOfSeq DEF n
        <5> QED
          BY <5>1, <5>2, <5>3
      <4>2. Head(f) <=> state_send'[l] = "ready"
        BY <4>1, <3>1, <1>3, <1>7
      <4>3. ASSUME NEW i \in 1..(Len(f) - 1) PROVE f[i] # f[i + 1]
        <5>1. /\ f[i] = frames[l][i + 1] /\ f[i + 1] = frames[l][i + 2]
              /\ i + 1 \in 1..(n - 1) /\ (i + 1) + 1 = i + 2
          BY <1>3
        <5> QED
          BY <5>1, <1>2 DEF Alternates, n
      <4> QED
        BY <4>2, <4>3, <1>5 DEF Alternates
    <3>4. Thresholds(l)'
      BY <1>2, <1>5 DEF Thresholds
    <3>5. InTime(l)'
      <4>1. ASSUME NEW i \in 1..Len(a) PROVE a[i] <= Slots
        <5>1. a[i] = ages[l][i + 1] /\ i + 1 \in 1..Len(ages[l])
          BY <1>2, <1>3, <1>4 DEF n
        <5> QED
          BY <5>1, <1>2 DEF InTime
      <4> QED
        BY <4>1, <1>2, <1>5 DEF InTime
    <3>6. HasRoom(l)'
      <4>1. Allowed(l)' = Allowed(l)
        BY <3>1, <1>2, <1>5 DEF Allowed, n
      <4> QED
        BY <4>1, <1>2, <1>5 DEF HasRoom
    <3> QED
      BY <3>2, <3>3, <3>4, <3>5, <3>6
  <2> QED
    BY <1>3, <2>1, <2>2
<1>10. ASSUME NEW k \in Links, k # l PROVE LinkInv(k)'
  <2>1. LinkUnchanged(k)
    BY <1>5, <1>7, <1>10 DEF LinkUnchanged, Queues
  <2> QED
    BY <1>1, <2>1, LinkInvUnchanged
<1>11. Types'
  BY <1>1, <1>5, <1>7, <1>8, TypesSplit DEF Types, OutputTypes, InputTypes, SuppliedOK
<1> QED
  BY <1>7, <1>9, <1>10, <1>11, PartsOfNextInv

-----------------------------------------------------------------------------
(* The other steps.                                                          *)

LEMMA LinkDeliversRight ==
  ASSUME Inv, NEW l \in Links, LinkDelivers(l)
  PROVE  Inv'
<1>1. /\ Types /\ OutputTypes /\ InputTypes /\ ServiceIsRight /\ l \in Queues
      /\ \A k \in Links : LinkInv(k)
  BY InvIsLinkInv, TypesSplit DEF Queues
<1>2. OutputTypes' /\ ServiceIsRight' /\ state_send' = state_send
  BY <1>1 DEF LinkDelivers, outputVars, OutputTypes, ServiceIsRight
<1>3. /\ InputTypes' /\ LinkInv(l)'
      /\ \A k \in Links \ {l} : /\ wire'[k] = wire[k] /\ frames'[k] = frames[k]
                                /\ ages'[k] = ages[k] /\ queuesize'[k] = queuesize[k]
                                /\ state_recv'[k] = state_recv[k]
  BY <1>1, <1>2, CountInRight DEF LinkDelivers
<1>4. fabric' \in Seq(Packets)
  <2>1. wire[l] \in Seq(Packets) /\ wire[l] # <<>> /\ fabric \in Seq(Packets)
    BY <1>1 DEF LinkDelivers, InputTypes, Types
  <2>2. Head(wire[l]) \in Packets
    BY <2>1, TailFacts
  <2> QED
    BY <2>1, <2>2, AppendFacts DEF LinkDelivers
<1>5. Types'
  BY <1>1, <1>2, <1>3, <1>4 DEF Types, OutputTypes, InputTypes, SuppliedOK, LinkDelivers
<1>6. ASSUME NEW k \in Links, k # l PROVE LinkInv(k)'
  <2>1. LinkUnchanged(k)
    BY <1>2, <1>3, <1>6 DEF LinkUnchanged
  <2> QED
    BY <1>1, <2>1, LinkInvUnchanged
<1> QED
  BY <1>2, <1>3, <1>5, <1>6, PartsOfNextInv

LEMMA OutSendsRight ==
  ASSUME Inv, NEW o \in Outs, OutSends(o)
  PROVE  Inv'
<1>1. /\ Types /\ OutputTypes /\ InputTypes /\ ServiceIsRight /\ o \in Queues
      /\ \A k \in Links : LinkInv(k)
  BY InvIsLinkInv, TypesSplit DEF Queues
<1>2. /\ OutputTypes' /\ ServiceIsRight' /\ Head(enqueued[o]) \in Packets
      /\ \A r \in Queues \ {o} : state_send'[r] = state_send[r]
  BY <1>1, CompleteRight DEF OutSends
<1>3. \A k \in Links : state_send'[k] = state_send[k]
  BY <1>2, PfcAssumption DEF Queues
<1>4. PICK l \in Links : CountOut(l) /\ UNCHANGED wire
  BY <1>2, PacketFields DEF OutSends
<1>5. /\ InputTypes' /\ LinkInv(l)'
      /\ \A k \in Links \ {l} : /\ frames'[k] = frames[k] /\ ages'[k] = ages[k]
                                /\ queuesize'[k] = queuesize[k]
                                /\ state_recv'[k] = state_recv[k]
  <2>1. LinkInv(l) /\ state_send'[l] = state_send[l]
    BY <1>1, <1>3, <1>4
  <2> QED
    BY <1>1, <1>4, <2>1, CountOutRight
<1>6. Types'
  BY <1>1, <1>2, <1>5 DEF Types, OutputTypes, InputTypes, SuppliedOK, OutSends
<1>7. ASSUME NEW k \in Links, k # l PROVE LinkInv(k)'
  <2>1. LinkUnchanged(k)
    BY <1>3, <1>4, <1>5, <1>7 DEF LinkUnchanged
  <2> QED
    BY <1>1, <2>1, LinkInvUnchanged
<1>8. \A k \in Links : LinkInv(k)'
  BY <1>5, <1>7
<1> QED
  BY <1>2, <1>6, <1>8, PartsOfNextInv

(* A step that only lengthens a queue, or pauses or resumes an output queue  *)
(* of this switch, is seen by no link.                                       *)
LEMMA OutputStepRight ==
  ASSUME Inv, OutputTypes', ServiceIsRight', UNCHANGED <<wire, inputVars>>,
         \A k \in Links : state_send'[k] = state_send[k],
         fabric' \in Seq(Packets), SuppliedOK'
  PROVE  Inv'
<1>1. Types /\ \A k \in Links : LinkInv(k)
  BY InvIsLinkInv
<1>2. Types'
  BY <1>1 DEF Types, OutputTypes, inputVars
<1>3. ASSUME NEW k \in Links PROVE LinkInv(k)'
  <2>1. LinkUnchanged(k)
    BY DEF LinkUnchanged, inputVars
  <2> QED
    BY <1>1, <2>1, LinkInvUnchanged
<1> QED
  BY <1>2, <1>3, PartsOfNextInv

LEMMA InitInv == Init => Inv
<1> SUFFICES ASSUME Init PROVE Inv
  OBVIOUS
<1>1. enqueued \in [Queues -> Seq(Packets)] /\ wire \in [Links -> Seq(Packets)]
      /\ fabric \in Seq(Packets) /\ frames \in [Links -> Seq(BOOLEAN)]
      /\ ages \in [Links -> Seq(Nat)]
  BY EmptySeq DEF Init
<1>2. Types
  BY <1>1, SupplyAssumption DEF Init, Types, SuppliedOK
<1>3. ServiceIsRight
  BY DEF Init, ServiceIsRight
<1>4. ASSUME NEW l \in Links PROVE LinkInv(l)
  <2>1. /\ wire[l] = <<>> /\ frames[l] = <<>> /\ ages[l] = <<>>
        /\ queuesize[l] = 0 /\ state_recv[l] = FALSE /\ state_send[l] = "ready"
    BY DEF Init, Queues
  <2>2. Len(wire[l]) = 0 /\ 1..Len(ages[l]) = {} /\ 1..(Len(frames[l]) - 1) = {}
    BY <2>1
  <2>3. Agrees(l) /\ Alternates(l)
    BY <2>1, <2>2 DEF Agrees, Alternates
  <2> QED
    BY <2>1, <2>2, <2>3, PfcAssumption DEF LinkInv, Thresholds, InTime, HasRoom
<1> QED
  BY <1>2, <1>3, <1>4, InvIsLinkInv

LEMMA NextInv == Inv /\ [Next]_vars => Inv'
<1> SUFFICES ASSUME Inv, [Next]_vars PROVE Inv'
  OBVIOUS
<1>1. /\ Types /\ OutputTypes /\ ServiceIsRight
      /\ fabric \in Seq(Packets) /\ SuppliedOK
  BY InvIsLinkInv, TypesSplit
<1>2. CASE \E l \in Links : Arrive(l)
  <2>1. PICK l \in Links, o \in Outs :
          /\ Enqueue(l, Packet(l, o)) /\ supplied[l] < Supply[l]
          /\ supplied' = [supplied EXCEPT ![l] = @ + 1]
          /\ UNCHANGED <<wire, fabric, inputVars>>
    BY <1>2 DEF Arrive
  <2>2. l \in Queues /\ Packet(l, o) \in Packets
    BY DEF Queues, Packet, Packets
  <2>3. OutputTypes' /\ ServiceIsRight' /\ UNCHANGED state_send
    BY <1>1, <2>1, <2>2, EnqueueRight DEF Enqueue
  <2>4. SuppliedOK'
    <3>1. supplied \in [Links -> Nat] /\ \A k \in Links : supplied[k] <= Supply[k]
      BY <1>1 DEF SuppliedOK
    <3>2. supplied[l] + 1 <= Supply[l]
      BY <2>1, <3>1, SupplyAssumption
    <3>3. supplied' \in [Links -> Nat]
      BY <2>1, <3>1
    <3>4. ASSUME NEW k \in Links PROVE supplied'[k] <= Supply[k]
      BY <2>1, <3>1, <3>2
    <3> QED
      BY <3>3, <3>4 DEF SuppliedOK
  <2> QED
    BY <1>1, <2>1, <2>3, <2>4, OutputStepRight
<1>3. CASE \E l \in Links : LinkSends(l)
  BY <1>3, LinkSendsRight
<1>4. CASE \E l \in Links : LinkDelivers(l)
  BY <1>4, LinkDeliversRight
<1>5. CASE Forward
  <2>1. Head(fabric) \in Packets /\ fabric' \in Seq(Packets)
    BY <1>1, <1>5, TailFacts DEF Forward
  <2>2. Head(fabric).out \in Queues
    BY <2>1, PacketFields DEF Queues
  <2>3. OutputTypes' /\ ServiceIsRight' /\ UNCHANGED state_send
    BY <1>1, <1>5, <2>1, <2>2, EnqueueRight DEF Forward, Enqueue
  <2> QED
    BY <1>1, <1>5, <2>1, <2>3, OutputStepRight DEF Forward, SuppliedOK
<1>6. CASE \E l \in Links : FrameArrives(l)
  BY <1>6, FrameArrivesRight
<1>7. CASE \E o \in Outs : OutSends(o)
  BY <1>7, OutSendsRight
<1>8. CASE \E o \in Outs : OutIsPaused(o) \/ OutIsResumed(o)
  <2>1. PICK o \in Outs, pause \in BOOLEAN :
          ReceiveFrame(o, pause) /\ UNCHANGED <<wire, fabric, inputVars, supplied>>
    BY <1>8 DEF OutIsPaused, OutIsResumed
  <2>2. o \in Queues /\ \A k \in Links : k \in Queues \ {o}
    BY PfcAssumption DEF Queues
  <2>3. /\ OutputTypes' /\ ServiceIsRight'
        /\ \A r \in Queues \ {o} : state_send'[r] = state_send[r]
    BY <1>1, <2>1, <2>2, FrameRight
  <2> QED
    BY <1>1, <2>1, <2>2, <2>3, OutputStepRight DEF SuppliedOK
<1>9. CASE UNCHANGED vars
  BY <1>1, <1>9, OutputStepRight DEF SuppliedOK, vars, outputVars, inputVars, OutputTypes, ServiceIsRight
<1> QED
  BY <1>2, <1>3, <1>4, <1>5, <1>6, <1>7, <1>8, <1>9 DEF Next

LEMMA SpecInv == Spec => []Inv
BY InitInv, NextInv, PTL DEF Spec

LEMMA InvGivesRoom == Inv => Headroom
<1> SUFFICES ASSUME Inv, NEW l \in Links PROVE queuesize[l] <= High + 2 * Slots + 1
  BY DEF Headroom
<1>1. /\ LinkInv(l) /\ queuesize[l] \in Int /\ Len(wire[l]) \in Nat
      /\ frames[l] \in Seq(BOOLEAN) /\ ages[l] \in Seq(Nat) /\ Len(frames[l]) = Len(ages[l])
  <2>1. /\ wire[l] \in Seq(Packets) /\ LinkInv(l) /\ queuesize[l] \in Int
        /\ frames[l] \in Seq(BOOLEAN) /\ ages[l] \in Seq(Nat) /\ Len(frames[l]) = Len(ages[l])
    BY InvIsLinkInv DEF Types
  <2> QED
    BY <2>1, EmptyFacts
<1>2. CASE ~state_recv[l]
  BY <1>1, <1>2, PfcAssumption DEF LinkInv, Thresholds
<1>3. CASE state_recv[l]
  <2>1. Allowed(l) \in Nat
    <3>1. CASE frames[l] = <<>>
      BY <3>1 DEF Allowed
    <3>2. CASE frames[l] # <<>>
      <4> DEFINE n == Len(ages[l])
      <4>1. n \in 1..Len(ages[l])
        BY <1>1, <3>2, EmptySeq
      <4>2. ages[l][n] \in Nat /\ ages[l][n] <= Slots
        BY <1>1, <4>1, ElementOfSeq DEF LinkInv, InTime
      <4>3. Allowed(l) = Slots - ages[l][n] + 1
        BY <3>2 DEF Allowed
      <4> HIDE DEF n
      <4> QED
        BY <4>2, <4>3, PfcAssumption
    <3> QED
      BY <3>1, <3>2
  <2>2. queuesize[l] + Len(wire[l]) + Allowed(l) <= High + 2 * Slots + 1
    BY <1>1, <1>3 DEF LinkInv, HasRoom
  <2> QED
    BY <1>1, <2>1, <2>2, PfcAssumption
<1> QED
  BY <1>2, <1>3

-----------------------------------------------------------------------------
(* Theorems.                                                                 *)

(* LosslessOutputQueue sends exactly when it should: none of the assertions  *)
(* of beginService and completeService can fail, whatever is paused when.    *)
THEOREM QueuesServeRight == Spec => []ServiceIsRight
BY SpecInv, PTL DEF Inv

(* LosslessOutputQueue::_state_send follows LosslessInputQueue::_state_recv, *)
(* up to the frames that are still on the way.                               *)
THEOREM BothEndsAgree == Spec => []EndsAgree
BY SpecInv, PTL DEF Inv

(* sendPause never repeats itself.                                           *)
THEOREM NoFrameIsWasted == Spec => []FramesAlternate
BY SpecInv, PTL DEF Inv

(* The thresholds of LosslessInputQueue are kept.                            *)
THEOREM ThresholdsHold == Spec => []Hysteresis
BY SpecInv, PTL DEF Inv

(* LosslessInputQueue never needs more than the high threshold, two wires    *)
(* full of packets and the one in service: for every number of links, every  *)
(* threshold and every length of the wire.                                   *)
THEOREM HeadroomSuffices == Spec => []Headroom
BY SpecInv, InvGivesRoom, PTL

-----------------------------------------------------------------------------
(* What an input queue counts                                                *)

AreQueues(D, Q) == Q \in [D -> Seq(Packets)]

LEMMA HeldIs ==
  ASSUME NEW D, NEW Q, AreQueues(D, Q), NEW l
  PROVE  /\ \A k, i : <<k, i>> \in Held(Q, l)
                        <=> k \in D /\ i \in 1..Len(Q[k]) /\ Q[k][i].link = l
         /\ \A e \in Held(Q, l) : \E k, i : k \in D /\ i \in 1..Len(Q[k]) /\ e = <<k, i>>
<1>1. \A k \in D : DOMAIN Q[k] = 1..Len(Q[k])
  BY DEF AreQueues
<1>2. ASSUME NEW k, NEW i
      PROVE  <<k, i>> \in UNION {{q} \X DOMAIN Q[q] : q \in D} <=> k \in D /\ i \in DOMAIN Q[k]
  OBVIOUS
<1>3. ASSUME NEW k, NEW i
      PROVE  <<k, i>> \in Held(Q, l) <=> k \in D /\ i \in 1..Len(Q[k]) /\ Q[k][i].link = l
  <2>1. DOMAIN Q = D /\ <<k, i>>[1] = k /\ <<k, i>>[2] = i
    BY DEF AreQueues
  <2> QED BY <1>1, <1>2, <2>1 DEF Held
<1>4. ASSUME NEW e \in Held(Q, l)
      PROVE  \E k, i : k \in D /\ i \in 1..Len(Q[k]) /\ e = <<k, i>>
  <2>1. PICK k \in D : e \in {k} \X DOMAIN Q[k]
    BY DEF Held, AreQueues
  <2>2. PICK i \in DOMAIN Q[k] : e = <<k, i>>
    BY <2>1
  <2> QED BY <1>1, <2>2
<1> QED BY <1>3, <1>4

(* One packet more in one of the queues *)
IsLonger(D, Q, R, d, pkt) ==
  /\ Q \in [D -> Seq(Packets)] /\ R \in [D -> Seq(Packets)]
  /\ d \in D /\ pkt \in Packets /\ R[d] = Append(Q[d], pkt)
  /\ \A x \in D \ {d} : R[x] = Q[x]

LEMMA HeldAppend ==
  ASSUME NEW D, NEW Q, NEW R, NEW d, NEW pkt, IsLonger(D, Q, R, d, pkt),
         NEW l, IsFiniteSet(Held(Q, l))
  PROVE  /\ IsFiniteSet(Held(R, l))
         /\ Cardinality(Held(R, l)) = Cardinality(Held(Q, l)) + (IF pkt.link = l THEN 1 ELSE 0)
<1> DEFINE n == Len(Q[d])
           new == <<d, n + 1>>
<1>0. /\ Q \in [D -> Seq(Packets)] /\ R \in [D -> Seq(Packets)] /\ d \in D
      /\ AreQueues(D, Q) /\ AreQueues(D, R)
      /\ \A x \in D \ {d} : R[x] = Q[x]
  BY DEF IsLonger, AreQueues
<1>1. /\ n \in Nat /\ Len(R[d]) = n + 1 /\ R[d][n + 1] = pkt
      /\ \A i \in 1..n : R[d][i] = Q[d][i]
  BY AppendFacts DEF IsLonger
<1>2. \A k, i : <<k, i>> \in Held(R, l)
                  <=> <<k, i>> \in Held(Q, l) \/ (pkt.link = l /\ k = d /\ i = n + 1)
  <2> SUFFICES ASSUME NEW k, NEW i
               PROVE  <<k, i>> \in Held(R, l)
                        <=> <<k, i>> \in Held(Q, l) \/ (pkt.link = l /\ k = d /\ i = n + 1)
    OBVIOUS
  <2>1. /\ <<k, i>> \in Held(Q, l) <=> k \in D /\ i \in 1..Len(Q[k]) /\ Q[k][i].link = l
        /\ <<k, i>> \in Held(R, l) <=> k \in D /\ i \in 1..Len(R[k]) /\ R[k][i].link = l
    BY <1>0, HeldIs
  <2> HIDE DEF n
  <2>2. CASE k # d
    BY <1>0, <2>1, <2>2
  <2>3. CASE k = d /\ i \in 1..n
    BY <1>0, <1>1, <2>1, <2>3 DEF n
  <2>4. CASE k = d /\ i = n + 1
    BY <1>0, <1>1, <2>1, <2>4 DEF n
  <2>5. CASE k = d /\ i \notin 1..n /\ i # n + 1
    BY <1>0, <1>1, <2>1, <2>5 DEF n
  <2> QED BY <2>2, <2>3, <2>4, <2>5
<1>3. \A e \in Held(R, l) \cup Held(Q, l) : \E k, i : e = <<k, i>>
  BY <1>0, HeldIs
<1>4. new \notin Held(Q, l)
  <2>1. n + 1 \notin 1..n
    BY <1>1
  <2> QED BY <1>0, <2>1, HeldIs
<1> HIDE DEF n
<1>5. CASE pkt.link = l
  <2>1. new \in Held(R, l)
    BY <1>2, <1>5
  <2>2. ASSUME NEW e \in Held(R, l) PROVE e \in Held(Q, l) \cup {new}
    <3>1. PICK k, i : e = <<k, i>>
      BY <1>3
    <3> QED BY <1>2, <3>1
  <2>3. Held(Q, l) \subseteq Held(R, l)
    BY <1>2, <1>3
  <2>4. Held(R, l) = Held(Q, l) \cup {new}
    BY <2>1, <2>2, <2>3
  <2> HIDE DEF new
  <2> QED BY <1>4, <1>5, <2>4, FS_AddElement
<1>6. CASE pkt.link # l
  <2>1. Held(R, l) \subseteq Held(Q, l) /\ Held(Q, l) \subseteq Held(R, l)
    BY <1>2, <1>3, <1>6
  <2>2. Held(R, l) = Held(Q, l)
    BY <2>1
  <2> QED BY <1>6, <2>2, FS_CardinalityType
<1> QED BY <1>5, <1>6

(* The oldest packet of one of the queues less: the others move up. *)
IsShorter(D, Q, R, d, pkt) ==
  /\ Q \in [D -> Seq(Packets)] /\ R \in [D -> Seq(Packets)]
  /\ d \in D /\ Q[d] # <<>> /\ pkt = Head(Q[d]) /\ R[d] = Tail(Q[d])
  /\ \A x \in D \ {d} : R[x] = Q[x]

LEMMA HeldTail ==
  ASSUME NEW D, NEW Q, NEW R, NEW d, NEW pkt, IsShorter(D, Q, R, d, pkt),
         NEW l, IsFiniteSet(Held(Q, l))
  PROVE  /\ IsFiniteSet(Held(R, l))
         /\ Cardinality(Held(R, l)) = Cardinality(Held(Q, l)) - (IF pkt.link = l THEN 1 ELSE 0)
<1> DEFINE n == Len(Q[d])
           old == <<d, 1>>
           S == Held(Q, l) \ {old}
           Up(e) == IF e[1] = d THEN <<d, e[2] - 1>> ELSE e
           f == [e \in S |-> Up(e)]
<1>0. /\ Q \in [D -> Seq(Packets)] /\ R \in [D -> Seq(Packets)] /\ d \in D
      /\ AreQueues(D, Q) /\ AreQueues(D, R)
      /\ \A x \in D \ {d} : R[x] = Q[x]
  BY DEF IsShorter, AreQueues
<1>1. /\ n \in Nat \ {0} /\ Len(R[d]) = n - 1 /\ pkt = Q[d][1]
      /\ \A i \in 1..(n - 1) : R[d][i] = Q[d][i + 1]
  BY TailFacts DEF IsShorter
<1>2. old \in Held(Q, l) <=> pkt.link = l
  <2>1. 1 \in 1..n
    BY <1>1
  <2> QED BY <1>0, <1>1, <2>1, HeldIs
<1>3. /\ \A k, i : <<k, i>> \in Held(Q, l)
                      <=> k \in D /\ i \in 1..Len(Q[k]) /\ Q[k][i].link = l
      /\ \A k, i : <<k, i>> \in Held(R, l)
                      <=> k \in D /\ i \in 1..Len(R[k]) /\ R[k][i].link = l
  <2>1. \A k, i : <<k, i>> \in Held(Q, l)
                    <=> k \in D /\ i \in 1..Len(Q[k]) /\ Q[k][i].link = l
    <3> TAKE k, i
    <3> QED BY <1>0, HeldIs
  <2>2. \A k, i : <<k, i>> \in Held(R, l)
                    <=> k \in D /\ i \in 1..Len(R[k]) /\ R[k][i].link = l
    <3> TAKE k, i
    <3> QED BY <1>0, HeldIs
  <2> QED BY <2>1, <2>2
<1>4. /\ \A e \in S : \E k, i : k \in D /\ i \in 1..Len(Q[k]) /\ e = <<k, i>>
      /\ \A e \in Held(R, l) : \E k, i : k \in D /\ i \in 1..Len(R[k]) /\ e = <<k, i>>
  BY <1>0, HeldIs
<1>5. \A k, i : Up(<<k, i>>) = IF k = d THEN <<d, i - 1>> ELSE <<k, i>>
  OBVIOUS
<1>6. \A i : <<d, i>> \in S => i \in 2..n
  <2> SUFFICES ASSUME NEW i, <<d, i>> \in S PROVE i \in 2..n
    OBVIOUS
  <2>1. i \in 1..n /\ i # 1
    BY <1>3
  <2> QED BY <1>1, <2>1
<1> HIDE DEF Up, n
<1>7. ASSUME NEW e \in S PROVE Up(e) \in Held(R, l)
  <2>1. PICK k, i : k \in D /\ i \in 1..Len(Q[k]) /\ e = <<k, i>>
    BY <1>4
  <2>2. Q[k][i].link = l
    BY <1>3, <2>1
  <2>3. CASE k = d
    <3>1. i \in 2..n
      BY <1>6, <2>1, <2>3
    <3>2. i - 1 \in 1..(n - 1) /\ R[d][i - 1] = Q[d][i]
      BY <1>1, <3>1
    <3>3. <<d, i - 1>> \in Held(R, l)
      BY <1>0, <1>1, <1>3, <2>2, <2>3, <3>2
    <3>4. Up(e) = <<d, i - 1>>
      BY <1>5, <2>1, <2>3
    <3> QED BY <3>3, <3>4
  <2>4. CASE k # d
    <3>1. <<k, i>> \in Held(R, l)
      BY <1>0, <1>3, <2>1, <2>2, <2>4
    <3>2. Up(e) = <<k, i>>
      BY <1>5, <2>1, <2>4
    <3> QED BY <3>1, <3>2
  <2> QED BY <2>3, <2>4
<1>8. ASSUME NEW e \in Held(R, l) PROVE \E x \in S : Up(x) = e
  <2>1. PICK k, i : k \in D /\ i \in 1..Len(R[k]) /\ e = <<k, i>>
    BY <1>4
  <2>2. R[k][i].link = l
    BY <1>3, <2>1
  <2>3. CASE k = d
    <3>1. i \in 1..(n - 1)
      BY <1>1, <2>1, <2>3
    <3>2. i + 1 \in 1..n /\ i + 1 # 1 /\ (i + 1) - 1 = i /\ Q[d][i + 1] = R[d][i]
      BY <1>1, <3>1
    <3>3. <<d, i + 1>> \in Held(Q, l) /\ <<d, i + 1>> # old
      BY <1>0, <1>3, <2>2, <2>3, <3>2 DEF n
    <3>4. Up(<<d, i + 1>>) = e
      BY <1>5, <2>1, <2>3, <3>2
    <3> QED BY <3>3, <3>4
  <2>4. CASE k # d
    <3>1. e \in Held(Q, l) /\ e # old
      BY <1>0, <1>3, <2>1, <2>2, <2>4
    <3>2. Up(e) = e
      BY <1>5, <2>1, <2>4
    <3> QED BY <3>1, <3>2
  <2> QED BY <2>3, <2>4
<1>9. ASSUME NEW a \in S, NEW b \in S, Up(a) = Up(b) PROVE a = b
  <2>1. PICK k, i : k \in D /\ i \in 1..Len(Q[k]) /\ a = <<k, i>>
    BY <1>4
  <2>2. PICK m, j : m \in D /\ j \in 1..Len(Q[m]) /\ b = <<m, j>>
    BY <1>4
  <2>3. /\ Up(a) = IF k = d THEN <<d, i - 1>> ELSE <<k, i>>
        /\ Up(b) = IF m = d THEN <<d, j - 1>> ELSE <<m, j>>
    BY <1>5, <2>1, <2>2
  <2>4. (k = d => i \in 2..n) /\ (m = d => j \in 2..n)
    BY <1>6, <2>1, <2>2
  <2>5. CASE k = d /\ m = d
    <3>1. <<d, i - 1>> = <<d, j - 1>>
      BY <1>9, <2>3, <2>5
    <3>2. i - 1 = j - 1
      BY <3>1
    <3>3. i = j
      BY <1>1, <2>4, <2>5, <3>2
    <3> QED BY <2>1, <2>2, <2>5, <3>3
  <2>6. CASE k = d /\ m # d
    <3>1. <<d, i - 1>> = <<m, j>>
      BY <1>9, <2>3, <2>6
    <3> QED BY <2>6, <3>1
  <2>7. CASE k # d /\ m = d
    <3>1. <<k, i>> = <<d, j - 1>>
      BY <1>9, <2>3, <2>7
    <3> QED BY <2>7, <3>1
  <2>8. CASE k # d /\ m # d
    BY <1>9, <2>1, <2>2, <2>3, <2>8
  <2> QED BY <2>5, <2>6, <2>7, <2>8
<1> HIDE DEF S, old
<1>10. ExistsBijection(S, Held(R, l))
  <2>1. f \in [S -> Held(R, l)]
    BY <1>7
  <2>2. \A a, b \in S : f[a] = f[b] => a = b
    BY <1>9
  <2>3. \A e \in Held(R, l) : \E x \in S : f[x] = e
    BY <1>8
  <2> HIDE DEF f
  <2>4. f \in Bijection(S, Held(R, l))
    BY <2>1, <2>2, <2>3 DEF Bijection, Injection, Surjection, IsInjective
  <2> QED BY <2>4 DEF ExistsBijection
<1>11. /\ IsFiniteSet(S)
       /\ Cardinality(S) = IF old \in Held(Q, l) THEN Cardinality(Held(Q, l)) - 1
                           ELSE Cardinality(Held(Q, l))
  BY FS_RemoveElement DEF S
<1>12. Cardinality(Held(Q, l)) \in Nat
  BY FS_CardinalityType
<1> QED BY <1>2, <1>10, <1>11, <1>12, FS_Bijection

(* The fabric as a queue, and the output queues of this switch *)
Crossing == [x \in {0} |-> fabric]
Leaving  == [o \in Outs |-> enqueued[o]]

Over(l) == {p \in Packets : p.link = l}

(* The packets of a link are its own. *)
OwnPackets == \A l \in Links : enqueued[l] \in Seq(Over(l)) /\ wire[l] \in Seq(Over(l))

Counts(l) ==
  /\ IsFiniteSet(Held(Crossing, l)) /\ IsFiniteSet(Held(Leaving, l))
  /\ queuesize[l] = Cardinality(Held(Crossing, l)) + Cardinality(Held(Leaving, l))

CountInv == OwnPackets /\ \A l \in Links : Counts(l)

LEMMA BothAreQueues ==
  ASSUME Types
  PROVE  Crossing \in [{0} -> Seq(Packets)] /\ Leaving \in [Outs -> Seq(Packets)]
BY DEF Types, Crossing, Leaving, Queues

LEMMA EmptyHoldsNothing ==
  ASSUME NEW D, NEW Q, Q = [d \in D |-> <<>>], NEW l
  PROVE  IsFiniteSet(Held(Q, l)) /\ Cardinality(Held(Q, l)) = 0
<1>1. Held(Q, l) = {}
  BY DEF Held
<1> QED BY <1>1, FS_EmptySet

LEMMA InitCountInv == Init => CountInv
<1> SUFFICES ASSUME Init PROVE CountInv
  OBVIOUS
<1>1. OwnPackets
  BY EmptySeq DEF Init, OwnPackets, Queues
<1>2. ASSUME NEW l \in Links PROVE Counts(l)
  <2>1. Crossing = [x \in {0} |-> <<>>] /\ Leaving = [o \in Outs |-> <<>>] /\ queuesize[l] = 0
    BY DEF Init, Crossing, Leaving, Queues
  <2> QED BY <2>1, EmptyHoldsNothing DEF Counts
<1> QED BY <1>1, <1>2 DEF CountInv

(* A step that no count sees *)
LEMMA SameCounts ==
  ASSUME CountInv, UNCHANGED queuesize, UNCHANGED fabric,
         \A o \in Outs : enqueued'[o] = enqueued[o]
  PROVE  \A l \in Links : Counts(l)'
<1>1. Crossing' = Crossing /\ Leaving' = Leaving
  BY DEF Crossing, Leaving
<1> QED BY <1>1 DEF CountInv, Counts

LEMMA OwnAppend ==
  ASSUME NEW l, NEW s \in Seq(Over(l)), NEW p \in Over(l)
  PROVE  Append(s, p) \in Seq(Over(l))
OBVIOUS

LEMMA OwnTail ==
  ASSUME NEW l, NEW s \in Seq(Over(l)), s # <<>>
  PROVE  Tail(s) \in Seq(Over(l)) /\ Head(s) \in Over(l)
BY TailFacts

LEMMA LinkSendsCounts ==
  ASSUME Types, ServiceIsRight, CountInv, NEW l \in Links, LinkSends(l)
  PROVE  CountInv'
<1>1. /\ enqueued' = [enqueued EXCEPT ![l] = Tail(@)]
      /\ wire' = [wire EXCEPT ![l] = Append(@, Head(enqueued[l]))]
      /\ sending[l] /\ UNCHANGED <<queuesize, fabric>>
  BY DEF LinkSends, CompleteService
<1>2. /\ enqueued \in [Queues -> Seq(Packets)] /\ wire \in [Links -> Seq(Packets)]
      /\ Links \subseteq Queues /\ Outs \subseteq Queues /\ l \notin Outs
      /\ state_send[l] \in {"ready", "paused", "pause_received"}
  BY PfcAssumption DEF Types, Queues
<1>3. enqueued[l] # <<>>
  BY <1>1, <1>2 DEF ServiceIsRight
<1>4. ASSUME NEW k \in Links PROVE enqueued'[k] \in Seq(Over(k)) /\ wire'[k] \in Seq(Over(k))
  <2>1. enqueued[k] \in Seq(Over(k)) /\ wire[k] \in Seq(Over(k))
    BY DEF CountInv, OwnPackets
  <2>2. CASE k = l
    <3>1. enqueued'[k] = Tail(enqueued[k]) /\ wire'[k] = Append(wire[k], Head(enqueued[k]))
      BY <1>1, <1>2, <2>2
    <3> QED BY <1>3, <2>1, <2>2, <3>1, OwnTail, OwnAppend
  <2>3. CASE k # l
    BY <1>1, <1>2, <2>1, <2>3
  <2> QED BY <2>2, <2>3
<1>5. \A o \in Outs : enqueued'[o] = enqueued[o]
  BY <1>1, <1>2
<1> QED BY <1>1, <1>4, <1>5, SameCounts DEF CountInv, OwnPackets

LEMMA ArriveCounts ==
  ASSUME Types, CountInv, NEW l \in Links, Arrive(l)
  PROVE  CountInv'
<1>1. PICK o \in Outs : Enqueue(l, Packet(l, o))
  BY DEF Arrive
<1>2. /\ enqueued' = [enqueued EXCEPT ![l] = Append(@, Packet(l, o))]
      /\ UNCHANGED <<queuesize, fabric, wire>>
  BY <1>1 DEF Arrive, Enqueue, inputVars
<1>3. /\ enqueued \in [Queues -> Seq(Packets)]
      /\ Links \subseteq Queues /\ Outs \subseteq Queues /\ l \notin Outs
  BY PfcAssumption DEF Types, Queues
<1>4. Packet(l, o) \in Over(l)
  BY DEF Packet, Packets, Over
<1>5. ASSUME NEW k \in Links PROVE enqueued'[k] \in Seq(Over(k)) /\ wire'[k] \in Seq(Over(k))
  <2>1. enqueued[k] \in Seq(Over(k)) /\ wire[k] \in Seq(Over(k))
    BY DEF CountInv, OwnPackets
  <2>2. CASE k = l
    <3>1. enqueued'[k] = Append(enqueued[k], Packet(l, o))
      BY <1>2, <1>3, <2>2
    <3> QED BY <1>2, <1>4, <2>1, <2>2, <3>1, OwnAppend
  <2>3. CASE k # l
    BY <1>2, <1>3, <2>1, <2>3
  <2> QED BY <2>2, <2>3
<1>6. \A q \in Outs : enqueued'[q] = enqueued[q]
  BY <1>2, <1>3
<1> QED BY <1>2, <1>5, <1>6, SameCounts DEF CountInv, OwnPackets

LEMMA LinkDeliversCounts ==
  ASSUME Types, Types', CountInv, NEW l \in Links, LinkDelivers(l)
  PROVE  CountInv'
<1> DEFINE p == Head(wire[l])
<1>1. /\ wire' = [wire EXCEPT ![l] = Tail(@)] /\ wire[l] # <<>>
      /\ queuesize' = [queuesize EXCEPT ![l] = @ + 1]
      /\ fabric' = Append(fabric, p) /\ UNCHANGED enqueued
  BY DEF LinkDelivers, CountIn, outputVars
<1>2. wire \in [Links -> Seq(Packets)] /\ queuesize \in [Links -> Int]
  BY DEF Types
<1>3. p \in Over(l) /\ Tail(wire[l]) \in Seq(Over(l))
  BY <1>1, OwnTail DEF CountInv, OwnPackets
<1> HIDE DEF p
<1>4. OwnPackets'
  <2> SUFFICES ASSUME NEW k \in Links
               PROVE  enqueued'[k] \in Seq(Over(k)) /\ wire'[k] \in Seq(Over(k))
    BY DEF OwnPackets
  <2>1. enqueued[k] \in Seq(Over(k)) /\ wire[k] \in Seq(Over(k))
    BY DEF CountInv, OwnPackets
  <2> QED BY <1>1, <1>2, <1>3, <2>1
<1>5. /\ Crossing \in [{0} -> Seq(Packets)] /\ Crossing' \in [{0} -> Seq(Packets)]
      /\ Crossing'[0] = Append(Crossing[0], p) /\ Leaving' = Leaving
      /\ \A x \in {0} \ {0} : Crossing'[x] = Crossing[x]
  BY <1>1, BothAreQueues DEF Crossing, Leaving, Types
<1>6. ASSUME NEW k \in Links PROVE Counts(k)'
  <2>1. Counts(k)
    BY DEF CountInv
  <2>2. /\ IsFiniteSet(Held(Crossing', k))
        /\ Cardinality(Held(Crossing', k))
             = Cardinality(Held(Crossing, k)) + (IF p.link = k THEN 1 ELSE 0)
    <3> PICK Q, R : Q = Crossing /\ R = Crossing'
      OBVIOUS
    <3> PICK D, d : D = {0} /\ d = 0
      OBVIOUS
    <3>1. IsLonger(D, Q, R, d, p) /\ IsFiniteSet(Held(Q, k))
      BY <1>3, <1>5, <2>1 DEF Counts, Over, IsLonger
    <3>2. /\ IsFiniteSet(Held(R, k))
          /\ Cardinality(Held(R, k)) = Cardinality(Held(Q, k)) + (IF p.link = k THEN 1 ELSE 0)
      BY <3>1, HeldAppend
    <3> QED BY <3>2
  <2>3. queuesize'[k] = queuesize[k] + (IF p.link = k THEN 1 ELSE 0)
    BY <1>1, <1>2, <1>3 DEF Over
  <2>4. Cardinality(Held(Crossing, k)) \in Nat /\ Cardinality(Held(Leaving, k)) \in Nat
    BY <2>1, FS_CardinalityType DEF Counts
  <2> QED BY <1>5, <2>1, <2>2, <2>3, <2>4 DEF Counts
<1> QED BY <1>4, <1>6 DEF CountInv

LEMMA ForwardCounts ==
  ASSUME Types, Types', CountInv, Forward
  PROVE  CountInv'
<1> DEFINE p == Head(fabric)
<1>1. /\ fabric # <<>> /\ fabric' = Tail(fabric)
      /\ enqueued' = [enqueued EXCEPT ![p.out] = Append(@, p)]
      /\ UNCHANGED <<wire, queuesize>>
  BY DEF Forward, Enqueue, inputVars
<1>2. p \in Packets
  BY <1>1, TailFacts DEF Types
<1>3. p.out \in Outs /\ p.out \in Queues /\ p.out \notin Links
  BY <1>2, PacketFields, PfcAssumption DEF Queues
<1>4. enqueued \in [Queues -> Seq(Packets)] /\ Links \subseteq Queues /\ Outs \subseteq Queues
  BY DEF Types, Queues
<1> HIDE DEF p
<1>5. OwnPackets'
  <2>1. \A k \in Links : enqueued'[k] = enqueued[k] /\ wire'[k] = wire[k]
    BY <1>1, <1>3, <1>4
  <2> QED BY <2>1 DEF CountInv, OwnPackets
<1>6. /\ Crossing \in [{0} -> Seq(Packets)] /\ Crossing' \in [{0} -> Seq(Packets)]
      /\ Crossing[0] # <<>> /\ Crossing'[0] = Tail(Crossing[0]) /\ p = Head(Crossing[0])
      /\ \A x \in {0} \ {0} : Crossing'[x] = Crossing[x]
  BY <1>1, BothAreQueues DEF Crossing, Types, p
<1>7. /\ Leaving \in [Outs -> Seq(Packets)] /\ Leaving' \in [Outs -> Seq(Packets)]
      /\ Leaving'[p.out] = Append(Leaving[p.out], p)
      /\ \A x \in Outs \ {p.out} : Leaving'[x] = Leaving[x]
  <2>1. Leaving \in [Outs -> Seq(Packets)]
    BY BothAreQueues
  <2>2. Leaving' \in [Outs -> Seq(Packets)]
    BY <1>4 DEF Leaving, Types
  <2>3. \A x \in Outs : Leaving[x] = enqueued[x] /\ Leaving'[x] = enqueued'[x]
    BY DEF Leaving
  <2>4. enqueued'[p.out] = Append(enqueued[p.out], p)
    BY <1>1, <1>3, <1>4
  <2>5. \A x \in Outs \ {p.out} : enqueued'[x] = enqueued[x]
    BY <1>1, <1>4
  <2> QED BY <1>3, <2>1, <2>2, <2>3, <2>4, <2>5
<1>8. ASSUME NEW k \in Links PROVE Counts(k)'
  <2>1. Counts(k)
    BY DEF CountInv
  <2>2. /\ IsFiniteSet(Held(Crossing', k))
        /\ Cardinality(Held(Crossing', k))
             = Cardinality(Held(Crossing, k)) - (IF p.link = k THEN 1 ELSE 0)
    <3> PICK Q, R : Q = Crossing /\ R = Crossing'
      OBVIOUS
    <3> PICK D, d : D = {0} /\ d = 0
      OBVIOUS
    <3>1. IsShorter(D, Q, R, d, p) /\ IsFiniteSet(Held(Q, k))
      BY <1>6, <2>1 DEF Counts, IsShorter
    <3>2. /\ IsFiniteSet(Held(R, k))
          /\ Cardinality(Held(R, k)) = Cardinality(Held(Q, k)) - (IF p.link = k THEN 1 ELSE 0)
      BY <3>1, HeldTail
    <3> QED BY <3>2
  <2>3. /\ IsFiniteSet(Held(Leaving', k))
        /\ Cardinality(Held(Leaving', k))
             = Cardinality(Held(Leaving, k)) + (IF p.link = k THEN 1 ELSE 0)
    <3> PICK Q, R : Q = Leaving /\ R = Leaving'
      OBVIOUS
    <3> PICK d : d = p.out
      OBVIOUS
    <3>1. IsLonger(Outs, Q, R, d, p) /\ IsFiniteSet(Held(Q, k))
      BY <1>2, <1>3, <1>7, <2>1 DEF Counts, IsLonger
    <3>2. /\ IsFiniteSet(Held(R, k))
          /\ Cardinality(Held(R, k)) = Cardinality(Held(Q, k)) + (IF p.link = k THEN 1 ELSE 0)
      BY <3>1, HeldAppend
    <3> QED BY <3>2
  <2>4. Cardinality(Held(Crossing, k)) \in Nat /\ Cardinality(Held(Leaving, k)) \in Nat
    BY <2>1, FS_CardinalityType DEF Counts
  <2>5. queuesize'[k] = queuesize[k]
    BY <1>1
  <2> QED BY <2>1, <2>2, <2>3, <2>4, <2>5 DEF Counts
<1> QED BY <1>5, <1>8 DEF CountInv

LEMMA OutSendsCounts ==
  ASSUME Types, Types', ServiceIsRight, CountInv, NEW o \in Outs, OutSends(o)
  PROVE  CountInv'
<1> DEFINE p == Head(enqueued[o])
<1>1. /\ enqueued' = [enqueued EXCEPT ![o] = Tail(@)] /\ sending[o]
      /\ queuesize' = [queuesize EXCEPT ![p.link] = @ - 1]
      /\ UNCHANGED <<wire, fabric>>
  BY DEF OutSends, CompleteService, CountOut
<1>2. /\ enqueued \in [Queues -> Seq(Packets)] /\ queuesize \in [Links -> Int]
      /\ Links \subseteq Queues /\ Outs \subseteq Queues /\ o \notin Links
      /\ state_send[o] \in {"ready", "paused", "pause_received"}
  BY PfcAssumption DEF Types, Queues
<1>3. enqueued[o] # <<>>
  BY <1>1, <1>2 DEF ServiceIsRight
<1>4. p \in Packets /\ p.link \in Links
  <2>1. p \in Packets
    BY <1>2, <1>3, TailFacts
  <2> QED BY <2>1, PacketFields
<1> HIDE DEF p
<1>5. OwnPackets'
  <2>1. \A k \in Links : enqueued'[k] = enqueued[k] /\ wire'[k] = wire[k]
    BY <1>1, <1>2
  <2> QED BY <2>1 DEF CountInv, OwnPackets
<1>6. /\ Leaving \in [Outs -> Seq(Packets)] /\ Leaving' \in [Outs -> Seq(Packets)]
      /\ Leaving[o] # <<>> /\ Leaving'[o] = Tail(Leaving[o]) /\ p = Head(Leaving[o])
      /\ \A x \in Outs \ {o} : Leaving'[x] = Leaving[x]
  <2>1. Leaving \in [Outs -> Seq(Packets)]
    BY BothAreQueues
  <2>2. Leaving' \in [Outs -> Seq(Packets)]
    BY <1>2 DEF Leaving, Types
  <2>3. \A x \in Outs : Leaving[x] = enqueued[x] /\ Leaving'[x] = enqueued'[x]
    BY DEF Leaving
  <2>4. enqueued'[o] = Tail(enqueued[o])
    BY <1>1, <1>2
  <2>5. \A x \in Outs \ {o} : enqueued'[x] = enqueued[x]
    BY <1>1, <1>2
  <2> QED BY <1>3, <2>1, <2>2, <2>3, <2>4, <2>5 DEF p
<1>7. Crossing' = Crossing
  BY <1>1 DEF Crossing
<1>8. ASSUME NEW k \in Links PROVE Counts(k)'
  <2>1. Counts(k)
    BY DEF CountInv
  <2>2. /\ IsFiniteSet(Held(Leaving', k))
        /\ Cardinality(Held(Leaving', k))
             = Cardinality(Held(Leaving, k)) - (IF p.link = k THEN 1 ELSE 0)
    <3> PICK Q, R : Q = Leaving /\ R = Leaving'
      OBVIOUS
    <3>1. IsShorter(Outs, Q, R, o, p) /\ IsFiniteSet(Held(Q, k))
      BY <1>6, <2>1 DEF Counts, IsShorter
    <3>2. /\ IsFiniteSet(Held(R, k))
          /\ Cardinality(Held(R, k)) = Cardinality(Held(Q, k)) - (IF p.link = k THEN 1 ELSE 0)
      BY <3>1, HeldTail
    <3> QED BY <3>2
  <2>3. queuesize'[k] = queuesize[k] - (IF p.link = k THEN 1 ELSE 0)
    BY <1>1, <1>2, <1>4
  <2>4. Cardinality(Held(Crossing, k)) \in Nat /\ Cardinality(Held(Leaving, k)) \in Nat
    BY <2>1, FS_CardinalityType DEF Counts
  <2> QED BY <1>7, <2>1, <2>2, <2>3, <2>4 DEF Counts
<1> QED BY <1>5, <1>8 DEF CountInv

LEMMA NextCountInv == Inv /\ Inv' /\ CountInv /\ [Next]_vars => CountInv'
<1> SUFFICES ASSUME Inv, Inv', CountInv, [Next]_vars PROVE CountInv'
  OBVIOUS
<1>1. Types /\ Types' /\ ServiceIsRight
  BY DEF Inv
<1>2. CASE \E l \in Links : Arrive(l)
  BY <1>1, <1>2, ArriveCounts
<1>3. CASE \E l \in Links : LinkSends(l)
  BY <1>1, <1>3, LinkSendsCounts
<1>4. CASE \E l \in Links : LinkDelivers(l)
  BY <1>1, <1>4, LinkDeliversCounts
<1>5. CASE Forward
  BY <1>1, <1>5, ForwardCounts
<1>6. CASE \E o \in Outs : OutSends(o)
  BY <1>1, <1>6, OutSendsCounts
<1>7. CASE \/ \E l \in Links : FrameArrives(l)
           \/ \E o \in Outs : OutIsPaused(o) \/ OutIsResumed(o)
           \/ UNCHANGED vars
  <2>1. UNCHANGED <<enqueued, wire, fabric, queuesize>>
    BY <1>7 DEF FrameArrives, OutIsPaused, OutIsResumed, ReceiveFrame, vars, outputVars, inputVars
  <2> QED BY <2>1, SameCounts DEF CountInv, OwnPackets
<1> QED
  BY <1>2, <1>3, <1>4, <1>5, <1>6, <1>7 DEF Next

LEMMA SpecCountInv == Spec => [](Inv /\ CountInv)
<1>1. Init => Inv /\ CountInv
  BY InitInv, InitCountInv
<1>2. Inv /\ CountInv /\ [Next]_vars => Inv' /\ CountInv'
  BY NextInv, NextCountInv
<1> QED BY <1>1, <1>2, PTL DEF Spec

(* LosslessInputQueue counts exactly what the switch still has of its link.  *)
THEOREM NothingIsMiscounted == Spec => []CountIsExact
<1>1. CountInv => CountIsExact
  BY DEF CountInv, Counts, CountIsExact, Crossing, Leaving
<1> QED BY <1>1, SpecCountInv, PTL

(* The assertion of completedService never fails: no count is negative.      *)
THEOREM TypesHold == Spec => []TypeOK
<1>1. Inv /\ CountInv => TypeOK
  <2> SUFFICES ASSUME Inv, CountInv PROVE TypeOK
    OBVIOUS
  <2>1. Types
    BY DEF Inv
  <2>2. ASSUME NEW l \in Links PROVE queuesize[l] \in Nat
    <3>1. Counts(l)
      BY DEF CountInv
    <3>2. Cardinality(Held(Crossing, l)) \in Nat /\ Cardinality(Held(Leaving, l)) \in Nat
      BY <3>1, FS_CardinalityType DEF Counts
    <3> QED BY <3>1, <3>2 DEF Counts
  <2>3. queuesize \in [Links -> Nat]
    BY <2>1, <2>2 DEF Types
  <2> QED BY <2>1, <2>3 DEF Types, TypeOK, SuppliedOK
<1> QED BY <1>1, SpecCountInv, PTL
=============================================================================
