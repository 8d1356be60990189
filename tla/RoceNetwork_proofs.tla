------------------------ MODULE RoceNetwork_proofs ------------------------
(***************************************************************************)
(* Two properties of the network, for any number of ports, any thresholds  *)
(* and any load.  A neighbour of a lossless switch is silent only while    *)
(* another queue of the switch asks for it: this is inductive once it is   *)
(* known that the queues stay records with the fields of EmptyQueue (Inv). *)
(* And no queue, of a link or of a host, stops serving (Serving): each     *)
(* handler leaves behind a queue that serves, as the lemmas say.           *)
(***************************************************************************)
EXTENDS RoceNetwork, TLAPS, SequenceTheorems

(* A record with the fields of a queue *)
IsQueue(q) ==
  q = [packets |-> q.packets, sending |-> q.sending, send |-> q.send, recv |-> q.recv]

QueueArray(queues) == queues = [p \in Ports |-> queues[p]] /\ \A p \in Ports : IsQueue(queues[p])

(* Some other queue of the switch than the one to p asks for silence. *)
Asked(queues, p) == \E o \in Ports \ {p} : queues[o].recv = "PAUSED"

Inv == QueueArray(down) /\ QueueArray(up) /\ NoneLeftSilenced

-----------------------------------------------------------------------------
(* What the handlers do to a queue *)

(* A packet that comes leaves _state_send alone (receivePacket). *)
LEMMA ReceiveKeeps ==
  ASSUME NEW q, NEW pk, IsQueue(q)
  PROVE  IsQueue(Receive(q, pk)) /\ Receive(q, pk).send = q.send
BY DEF IsQueue, Receive

(* So do all the packets of a handler. *)
LEMMA ReceiveAllKeeps ==
  ASSUME NEW q, NEW pks, IsQueue(q)
  PROVE  IsQueue(ReceiveAll(q, pks)) /\ ReceiveAll(q, pks).send = q.send
<1>1. CASE pks = <<>>
  BY <1>1 DEF ReceiveAll
<1>2. CASE pks # <<>> /\ Len(pks) = 1
  BY <1>2, ReceiveKeeps DEF ReceiveAll
<1>3. CASE pks # <<>> /\ Len(pks) # 1
  <2>1. IsQueue(Receive(q, pks[1])) /\ Receive(q, pks[1]).send = q.send
    BY ReceiveKeeps
  <2>2. /\ IsQueue(Receive(Receive(q, pks[1]), pks[2]))
        /\ Receive(Receive(q, pks[1]), pks[2]).send = Receive(q, pks[1]).send
    BY <2>1, ReceiveKeeps
  <2> QED BY <1>3, <2>1, <2>2 DEF ReceiveAll
<1> QED BY <1>1, <1>2, <1>3

(* The end of a service does not make a queue silent that was not. *)
LEMMA CompleteKeeps ==
  ASSUME NEW q, IsQueue(q)
  PROVE  /\ IsQueue(CompleteService(q))
         /\ CompleteService(q).send # "READY" => q.send # "READY"
<1>1. IsQueue(CompleteService(q))
  BY DEF IsQueue, CompleteService
<1>2. CompleteService(q).send # "READY" => q.send # "READY"
  BY DEF CompleteService
<1> QED BY <1>1, <1>2

(* A frame changes the state of sending only. *)
LEMMA FrameKeeps ==
  ASSUME NEW q, IsQueue(q)
  PROVE  /\ IsQueue(ReceivePause(q)) /\ ReceivePause(q).recv = q.recv
         /\ IsQueue(ReceiveResume(q)) /\ ReceiveResume(q).recv = q.recv
         /\ ReceiveResume(q).send = "READY"
<1>1. IsQueue(ReceivePause(q)) /\ ReceivePause(q).recv = q.recv
  BY DEF IsQueue, ReceivePause
<1>2. DOMAIN q = {"packets", "sending", "send", "recv"}
  BY DEF IsQueue
<1>3. ReceiveResume(q).recv = q.recv /\ ReceiveResume(q).send = "READY"
  BY <1>2 DEF ReceiveResume
<1>4. IsQueue(ReceiveResume(q))
  <2> DEFINE serves == q.sending \/ q.packets # <<>>
  <2>1. ReceiveResume(q) = [q EXCEPT !.send = "READY", !.sending = serves]
    BY DEF ReceiveResume
  <2> HIDE DEF serves
  <2> QED BY <2>1 DEF IsQueue
<1> QED BY <1>1, <1>3, <1>4

-----------------------------------------------------------------------------
(* The actions of the network *)

(* The queues of the neighbours after sendPause are still queues; with a    *)
(* resume, all but the one to the queue that asked may send.                *)
LEMMA SendPauseQueues ==
  ASSUME NEW queues, QueueArray(queues), NEW p \in Ports, NEW pause \in BOOLEAN
  PROVE  /\ QueueArray(SendPause(queues, p, pause))
         /\ SendPause(queues, p, pause)[p] = queues[p]
         /\ ~pause => \A r \in Ports \ {p} : SendPause(queues, p, pause)[r].send = "READY"
<1> DEFINE told == SendPause(queues, p, pause)
<1>1. ASSUME NEW r \in Ports
      PROVE  IsQueue(told[r]) /\ (~pause /\ r # p => told[r].send = "READY")
  <2>1. IsQueue(queues[r])
    BY DEF QueueArray
  <2> QED BY <2>1, FrameKeeps DEF SendPause
<1>2. told = [r \in Ports |-> told[r]]
  BY DEF SendPause
<1>3. told[p] = queues[p]
  BY DEF SendPause
<1> QED BY <1>1, <1>2, <1>3 DEF QueueArray

(* One queue of the switch changes from down[p] to q and the neighbours are *)
(* told: whoever is silent is asked for.                                    *)
LEMMA ToldIsSafe ==
  ASSUME NEW queues, QueueArray(queues), QueueArray(down), NEW p \in Ports, NEW q, IsQueue(q),
         \A r \in Ports : queues[r].send # "READY" => Asked(down, r),
         down' = [down EXCEPT ![p] = q], up' = Told(queues, p, q)
  PROVE  Inv'
<1>1. QueueArray(down')
  BY DEF QueueArray
<1>2. down'[p] = q /\ \A o \in Ports \ {p} : down'[o] = down[o]
  BY DEF QueueArray
<1>3. CASE q.recv = down[p].recv
  <2>1. up' = queues
    BY <1>3 DEF Told
  <2>2. \A o \in Ports : down'[o].recv = down[o].recv
    BY <1>2, <1>3
  <2> QED BY <1>1, <2>1, <2>2 DEF Inv, NoneLeftSilenced, Asked
<1>4. CASE q.recv # down[p].recv
  <2> DEFINE pause == q.recv = "PAUSED"
  <2>1. pause \in BOOLEAN /\ up' = SendPause(queues, p, pause)
    BY <1>4 DEF Told
  <2> HIDE DEF pause
  <2>2. /\ QueueArray(up') /\ up'[p] = queues[p]
        /\ ~pause => \A r \in Ports \ {p} : up'[r].send = "READY"
    BY <2>1, SendPauseQueues
  <2>3. ASSUME NEW r \in Ports, up'[r].send # "READY"
        PROVE  \E o \in Ports \ {r} : down'[o].recv = "PAUSED"
    <3>1. CASE r = p
      BY <3>1, <2>2, <2>3, <1>2 DEF Asked
    <3>2. CASE r # p
      <4>1. pause
        BY <3>2, <2>2, <2>3
      <4> QED BY <4>1, <3>2, <1>2 DEF pause
    <3> QED BY <3>1, <3>2
  <2> QED BY <1>1, <2>2, <2>3 DEF Inv, NoneLeftSilenced
<1> QED BY <1>3, <1>4

(* The neighbours' queues change without being silenced, and the queues of  *)
(* the switch without a change of mind.                                     *)
LEMMA QuietChange ==
  ASSUME Inv, QueueArray(down'), QueueArray(up'),
         \A r \in Ports : up'[r].send # "READY" => up[r].send # "READY",
         \A r \in Ports : down'[r].recv = down[r].recv
  PROVE  Inv'
BY DEF Inv, NoneLeftSilenced

(* A neighbour's queue takes what a handler sends (SrcEvent, IntervalEnd).  *)
LEMMA HandlerSends ==
  ASSUME Inv, NEW p \in Ports, NEW pks, up' = [up EXCEPT ![p] = ReceiveAll(@, pks)], down' = down
  PROVE  Inv'
<1>1. IsQueue(up[p])
  BY DEF Inv, QueueArray
<1>2. IsQueue(ReceiveAll(up[p], pks)) /\ ReceiveAll(up[p], pks).send = up[p].send
  BY <1>1, ReceiveAllKeeps
<1>3. QueueArray(up') /\ \A r \in Ports : up'[r].send = up[r].send
  BY <1>2 DEF Inv, QueueArray
<1> QED BY <1>3, QuietChange DEF Inv

-----------------------------------------------------------------------------
(* The invariant *)

LEMMA InitInv == Init => Inv
<1> SUFFICES ASSUME Init PROVE Inv
  OBVIOUS
<1>1. IsQueue(EmptyQueue) /\ EmptyQueue.send = "READY"
  BY DEF EmptyQueue, IsQueue
<1> QED BY <1>1 DEF Init, Inv, QueueArray, NoneLeftSilenced

LEMMA NextInv == Inv /\ [Next]_vars => Inv'
<1> SUFFICES ASSUME Inv, [Next]_vars PROVE Inv'
  OBVIOUS
<1> USE PortsAssumption
<1>0. /\ QueueArray(down) /\ QueueArray(up)
      /\ \A r \in Ports : IsQueue(up[r]) /\ IsQueue(down[r])
      /\ \A r \in Ports : up[r].send # "READY" => Asked(down, r)
  BY DEF Inv, QueueArray, NoneLeftSilenced, Asked
<1>1. ASSUME NEW p \in Ports, OtherArrives(p) PROVE Inv'
  <2>1. PICK pk : Arrives(up, p, pk)
    BY <1>1 DEF OtherArrives
  <2>2. IsQueue(Receive(down[p], pk))
    BY <1>0, ReceiveKeeps
  <2> QED BY <1>0, <2>1, <2>2, ToldIsSafe DEF Arrives
<1>2. ASSUME NEW p \in Ports, UpCompletes(p) PROVE Inv'
  <2> DEFINE queues == [up EXCEPT ![p] = CompleteService(@)]
  <2>1. IsQueue(CompleteService(up[p])) /\ (CompleteService(up[p]).send # "READY" => up[p].send # "READY")
    BY <1>0, CompleteKeeps
  <2>2. QueueArray(queues) /\ \A r \in Ports : queues[r].send # "READY" => up[r].send # "READY"
    BY <2>1, <1>0 DEF QueueArray
  <2>3. ASSUME NEW pk, NEW o \in Ports, Arrives(queues, o, pk) PROVE Inv'
    <3>1. IsQueue(Receive(down[o], pk))
      BY <1>0, ReceiveKeeps
    <3>2. \A r \in Ports : queues[r].send # "READY" => Asked(down, r)
      BY <2>2, <1>0
    <3> HIDE DEF queues
    <3> QED BY <1>0, <2>2, <2>3, <3>1, <3>2, ToldIsSafe DEF Arrives
  <2>4. CASE up' = queues /\ down' = down
    BY <2>4, <2>2, <1>0, QuietChange
  <2>5. \A pk : Exit(pk) \in Ports
    BY DEF Exit
  <2>6. \/ \E pk : Arrives(queues, Exit(pk), pk)
        \/ \E pk : Arrives(queues, Exit(pk), [pk EXCEPT !.marked = TRUE])
        \/ up' = queues /\ down' = down
    BY <1>2 DEF UpCompletes
  <2> HIDE DEF queues
  <2> QED BY <2>3, <2>4, <2>5, <2>6
<1>3. ASSUME NEW p \in Ports, DownCompletes(p) PROVE Inv'
  <2>1. IsQueue(CompleteService(down[p]))
    BY <1>0, CompleteKeeps
  <2>2. CASE up' = Told(up, p, CompleteService(down[p]))
    BY <2>1, <2>2, <1>0, <1>3, ToldIsSafe DEF DownCompletes
  <2>3. ASSUME NEW pks, up' = Told([up EXCEPT ![Target] = ReceiveAll(@, pks)], p, CompleteService(down[p]))
        PROVE  Inv'
    <3> DEFINE queues == [up EXCEPT ![Target] = ReceiveAll(@, pks)]
    <3>1. IsQueue(ReceiveAll(up[Target], pks)) /\ ReceiveAll(up[Target], pks).send = up[Target].send
      BY <1>0, ReceiveAllKeeps
    <3>2. QueueArray(queues) /\ \A r \in Ports : queues[r].send = up[r].send
      BY <3>1, <1>0 DEF QueueArray
    <3>3. \A r \in Ports : queues[r].send # "READY" => Asked(down, r)
      BY <3>2, <1>0
    <3>4. up' = Told(queues, p, CompleteService(down[p])) /\ down' = [down EXCEPT ![p] = CompleteService(down[p])]
      BY <2>3, <1>3 DEF DownCompletes
    <3> HIDE DEF queues
    <3> QED BY <2>1, <3>2, <3>3, <3>4, <1>0, ToldIsSafe
  <2>4. \/ up' = Told(up, p, CompleteService(down[p]))
        \/ \E pks : up' = Told([up EXCEPT ![Target] = ReceiveAll(@, pks)], p, CompleteService(down[p]))
    BY <1>3 DEF DownCompletes
  <2> QED BY <2>2, <2>3, <2>4
<1>4. ASSUME NEW p \in Ports, NeighbourPauses(p) \/ NeighbourResumes(p) PROVE Inv'
  <2>1. PICK q : /\ IsQueue(q) /\ q.recv = down[p].recv
                 /\ down' = [down EXCEPT ![p] = q] /\ up' = up
    <3>1. CASE NeighbourPauses(p)
      BY <3>1, <1>0, FrameKeeps DEF NeighbourPauses
    <3>2. CASE NeighbourResumes(p)
      BY <3>2, <1>0, FrameKeeps DEF NeighbourResumes
    <3> QED BY <3>1, <3>2, <1>4
  <2>2. QueueArray(down') /\ \A r \in Ports : down'[r].recv = down[r].recv
    BY <2>1, <1>0 DEF QueueArray
  <2> QED BY <2>1, <2>2, <1>0, QuietChange
<1>5. ASSUME NEW e \in SrcEvents, SrcEvent(e) PROVE Inv'
  <2>1. \E pks : up' = [up EXCEPT ![Origin] = ReceiveAll(@, pks)] /\ down' = down
    BY <1>5 DEF SrcEvent
  <2> QED BY <2>1, HandlerSends
<1>6. CASE IntervalEnd
  <2>1. \E pks : up' = [up EXCEPT ![Target] = ReceiveAll(@, pks)] /\ down' = down
    BY <1>6 DEF IntervalEnd
  <2> QED BY <2>1, HandlerSends
<1>7. CASE UNCHANGED net
  <2>1. up' = up /\ down' = down
    BY <1>7 DEF net
  <2> QED BY <2>1 DEF Inv, QueueArray, NoneLeftSilenced
<1>8. CASE Elapse \/ AckTimer \/ ScannerStops \/ Activate
  BY <1>8, <1>7 DEF Elapse, AckTimer, ScannerStops, Activate
<1>9. CASE HostFrame \/ HostService \/ \E p \in H!Priorities : HostPacket(p)
  BY <1>9, <1>7 DEF HostFrame, HostService, HostPacket
<1>10. CASE UNCHANGED vars
  BY <1>10, <1>7 DEF vars
<1> QED BY <1>1, <1>2, <1>3, <1>4, <1>5, <1>6, <1>8, <1>9, <1>10 DEF Next

(* No neighbour stays silenced when no queue asks for it, for any number of *)
(* ports, any thresholds and any interleaving of the queues that fill and   *)
(* drain (Switch::sendPause, LosslessQueue::receivePacket, completeService).*)
THEOREM SilenceIsAskedFor == Spec => []NoneLeftSilenced
<1>1. Inv => NoneLeftSilenced
  BY DEF Inv
<1> QED BY InitInv, NextInv, <1>1, PTL DEF Spec

-----------------------------------------------------------------------------
(* The service of the links *)

(* The fields are those of a queue, its packets are a sequence and it serves. *)
LinkOK(q) ==
  /\ IsQueue(q) /\ q.sending \in BOOLEAN /\ LinkServes(q)
  /\ \E S : q.packets \in Seq(S)

LEMMA SequenceFacts ==
  ASSUME NEW S, NEW s \in Seq(S), NEW e
  PROVE  /\ \E T : Append(s, e) \in Seq(T)
         /\ Append(s, e) # <<>>
         /\ s # <<>> => Tail(s) \in Seq(S)
         /\ Len(s) >= MaxSize => Front(s) \in Seq(S) /\ Front(s) # <<>> /\ s # <<>>
<1>1. s \in Seq(S \cup {e})
  BY SeqDef
<1>2. Append(s, e) \in Seq(S \cup {e}) /\ Append(s, e) # <<>>
  BY <1>1, AppendProperties
<1>3. s # <<>> => Tail(s) \in Seq(S)
  BY HeadTailProperties
<1>4. ASSUME Len(s) >= MaxSize
      PROVE  Front(s) \in Seq(S) /\ Front(s) # <<>> /\ s # <<>>
  <2>1. Len(s) \in Nat /\ Len(s) >= 2
    BY <1>4, ThresholdAssumption
  <2>2. Front(s) \in Seq(S) /\ Len(Front(s)) = Len(s) - 1
    BY <2>1, SubSeqProperties DEF Front
  <2> QED BY <2>1, <2>2
<1> QED BY <1>2, <1>3, <1>4

LEMMA ReceiveServes ==
  ASSUME NEW q, NEW pk, LinkOK(q)
  PROVE  LinkOK(Receive(q, pk))
<1> DEFINE s == q.packets
           k == Kept(q)
           t == Receive(q, pk)
           full == Len(s) >= MaxSize
<1>1. PICK S : s \in Seq(S)
  BY DEF LinkOK
<1>2. k \in Seq(S) /\ (full => k # <<>> /\ s # <<>>) /\ (~full => k = s)
  BY <1>1, SequenceFacts DEF Kept, Full
<1>3. IsQueue(t) /\ t.send = q.send
  BY ReceiveKeeps DEF LinkOK
<1>4. CASE t.packets = k /\ t.sending = q.sending /\ full
  BY <1>2, <1>3, <1>4 DEF LinkOK, LinkServes
<1>5. CASE t.packets = Append(k, pk) /\ t.sending = (q.sending \/ (s = <<>> /\ q.send = "READY"))
  <2>1. (\E T : t.packets \in Seq(T)) /\ t.packets # <<>>
    <3>1. k \in Seq(S)
      BY <1>2
    <3> HIDE DEF k, t
    <3>2. (\E T : Append(k, pk) \in Seq(T)) /\ Append(k, pk) # <<>>
      BY <3>1, SequenceFacts
    <3> QED BY <1>5, <3>2
  <2>2. q.sending \in BOOLEAN /\ LinkServes(q)
    BY DEF LinkOK
  <2>3. t.sending <=> q.sending \/ (s = <<>> /\ q.send = "READY")
    BY <1>5
  <2>4. t.sending \in BOOLEAN
    BY <1>5, <2>2
  <2>5. LinkServes(t)
    BY <1>3, <2>1, <2>2, <2>3 DEF LinkServes
  <2> QED BY <1>3, <2>1, <2>4, <2>5 DEF LinkOK
<1>6. \/ t.packets = k /\ t.sending = q.sending /\ full
      \/ t.packets = Append(k, pk) /\ t.sending = (q.sending \/ (s = <<>> /\ q.send = "READY"))
  <2>1. DOMAIN q = {"packets", "sending", "send", "recv"}
    BY DEF LinkOK, IsQueue
  <2>2. CASE Full(q) /\ ~Control(Last(q.packets))
    <3>1. t = [q EXCEPT !.packets = k] /\ full
      BY <2>2 DEF Receive, Full
    <3> HIDE DEF t, k
    <3> QED BY <2>1, <3>1
  <2>3. CASE ~(Full(q) /\ ~Control(Last(q.packets)))
    <3> DEFINE r == IF Len(k) + 1 > High THEN "PAUSED" ELSE q.recv
               v == q.sending \/ (s = <<>> /\ q.send = "READY")
    <3>1. t = [q EXCEPT !.packets = Append(k, pk), !.recv = r, !.sending = v]
      BY <2>3 DEF Receive
    <3> HIDE DEF t, k, r, v
    <3>2. t.packets = Append(k, pk) /\ t.sending = v
      BY <2>1, <3>1
    <3> QED BY <3>2 DEF v
  <2> QED BY <2>2, <2>3
<1> QED BY <1>4, <1>5, <1>6

LEMMA ReceiveAllServes ==
  ASSUME NEW q, NEW pks, LinkOK(q)
  PROVE  LinkOK(ReceiveAll(q, pks))
<1>1. LinkOK(Receive(q, pks[1]))
  BY ReceiveServes
<1>2. LinkOK(Receive(Receive(q, pks[1]), pks[2]))
  BY <1>1, ReceiveServes
<1> QED BY <1>1, <1>2 DEF ReceiveAll

LEMMA CompleteServes ==
  ASSUME NEW q, LinkOK(q), q.sending
  PROVE  LinkOK(CompleteService(q))
<1> DEFINE t == CompleteService(q)
           tail == Tail(q.packets)
           send == IF q.send = "PAUSE_RECEIVED" THEN "PAUSED" ELSE q.send
<1>1. IsQueue(t)
  BY CompleteKeeps DEF LinkOK
<1>2. q.packets # <<>>
  BY DEF LinkOK, LinkServes
<1>3. \E S : tail \in Seq(S)
  BY <1>2, SequenceFacts DEF LinkOK
<1>4. t.packets = tail /\ t.send = send /\ t.sending = (tail # <<>> /\ send = "READY")
  BY DEF CompleteService
<1> HIDE DEF t, tail, send
<1>5. t.sending \in BOOLEAN /\ (t.sending <=> tail # <<>> /\ send = "READY")
  BY <1>4
<1>6. LinkServes(t)
  BY <1>4, <1>5 DEF LinkServes
<1>7. LinkOK(t)
  BY <1>1, <1>3, <1>4, <1>5, <1>6 DEF LinkOK
<1> QED BY <1>7 DEF t

LEMMA FrameServes ==
  ASSUME NEW q, LinkOK(q)
  PROVE  LinkOK(ReceivePause(q)) /\ LinkOK(ReceiveResume(q))
<1>1. /\ DOMAIN q = {"packets", "sending", "send", "recv"} /\ IsQueue(q)
      /\ q.sending \in BOOLEAN /\ LinkServes(q) /\ \E S : q.packets \in Seq(S)
  BY DEF LinkOK, IsQueue
<1>2. LinkOK(ReceivePause(q))
  <2> DEFINE t == ReceivePause(q)
  <2>1. /\ t.packets = q.packets /\ t.sending = q.sending
        /\ t.send = IF q.sending THEN "PAUSE_RECEIVED" ELSE "PAUSED"
    BY <1>1 DEF ReceivePause
  <2>2. IsQueue(t)
    BY <1>1, FrameKeeps
  <2> HIDE DEF t
  <2>3. LinkServes(t)
    BY <1>1, <2>1 DEF LinkServes
  <2>4. LinkOK(t)
    BY <1>1, <2>1, <2>2, <2>3 DEF LinkOK
  <2> QED BY <2>4 DEF t
<1>3. LinkOK(ReceiveResume(q))
  <2> DEFINE t == ReceiveResume(q)
             v == q.sending \/ q.packets # <<>>
  <2>1. t = [q EXCEPT !.send = "READY", !.sending = v]
    BY DEF ReceiveResume
  <2>2. IsQueue(t)
    BY <1>1, FrameKeeps
  <2> HIDE DEF t, v
  <2>3. t.packets = q.packets /\ t.send = "READY" /\ t.sending = v
    BY <1>1, <2>1
  <2>4. v \in BOOLEAN /\ (v <=> q.sending \/ q.packets # <<>>)
    BY DEF v
  <2>5. LinkServes(t)
    BY <1>1, <2>3, <2>4 DEF LinkServes
  <2>6. LinkOK(t)
    BY <1>1, <2>2, <2>3, <2>4, <2>5 DEF LinkOK
  <2> QED BY <2>6 DEF t
<1> QED BY <1>2, <1>3

-----------------------------------------------------------------------------
(* The host queue *)

HostOK(h) ==
  /\ h = [fair |-> h.fair, size |-> h.size, servicing |-> h.servicing,
          sending |-> h.sending, due |-> h.due, send |-> h.send, left |-> h.left]
  /\ h.fair \in BOOLEAN /\ h.sending \in BOOLEAN /\ h.due \in Nat
  /\ h.size \in [H!Priorities -> Nat] /\ h.servicing \in H!Priorities \cup {H!None}
  /\ h.send \in {"READY", "PAUSED", "PAUSE_RECEIVED"}
  /\ h.sending => h.fair /\ h.servicing \in H!Priorities /\ h.size[h.servicing] > 0

(* What HostServes follows from, of any host queue *)
Serves(h) ==
  /\ H!Waiting(h) /\ h.send = "READY" => h.due > 0
  /\ h.fair => h.due = (IF h.sending THEN 1 ELSE 0)
  /\ h.fair /\ h.send = "PAUSED" => ~h.sending

(* Some priority is the highest of those that wait. *)
LEMMA TopExists ==
  ASSUME NEW h, HostOK(h), H!Waiting(h)
  PROVE  \E p \in H!Priorities :
           h.size[p] > 0 /\ \A r \in H!Priorities : h.size[r] > 0 => r <= p
<1>1. \A p : p \in H!Priorities <=> p \in {0, 1, 2}
  BY DEF H!Priorities
<1>2. \E p \in {0, 1, 2} : h.size[p] > 0
  BY <1>1 DEF H!Waiting
<1>3. \E p \in {0, 1, 2} : h.size[p] > 0 /\ \A r \in {0, 1, 2} : h.size[r] > 0 => r <= p
  <2>1. CASE h.size[2] > 0
    BY <2>1
  <2>2. CASE ~(h.size[2] > 0) /\ h.size[1] > 0
    BY <2>2
  <2>3. CASE ~(h.size[2] > 0) /\ ~(h.size[1] > 0) /\ h.size[0] > 0
    BY <2>3
  <2> QED BY <1>2, <2>1, <2>2, <2>3
<1> QED BY <1>1, <1>3

(* A service that begins is one of a packet, if there is one. *)
LEMMA BeginIs ==
  ASSUME NEW h, HostOK(h)
  PROVE  LET b == H!BeginService(h)
         IN /\ ~H!Waiting(h) => b = h
            /\ H!Waiting(h) => /\ HostOK(b) /\ b.due = h.due + 1 /\ b.sending = h.fair
                               /\ b.fair = h.fair /\ b.send = h.send /\ b.size = h.size
<1> DEFINE top == CHOOSE p \in H!Priorities :
                   h.size[p] > 0 /\ \A r \in H!Priorities : h.size[r] > 0 => r <= p
           b == H!BeginService(h)
<1>1. CASE ~H!Waiting(h)
  BY <1>1 DEF H!BeginService
<1>2. CASE H!Waiting(h)
  <2>1. top \in H!Priorities /\ h.size[top] > 0
    BY <1>2, TopExists
  <2>2. b = [h EXCEPT !.servicing = top, !.due = h.due + 1, !.sending = h.fair]
    BY <1>2 DEF H!BeginService
  <2> HIDE DEF top, b
  <2>3. b = [fair |-> h.fair, size |-> h.size, servicing |-> top, sending |-> h.fair,
             due |-> h.due + 1, send |-> h.send, left |-> h.left]
    BY <2>2 DEF HostOK
  <2>4. HostOK(b)
    BY <2>1, <2>3 DEF HostOK
  <2>5. /\ b.due = h.due + 1 /\ b.sending = h.fair
        /\ b.fair = h.fair /\ b.send = h.send /\ b.size = h.size
    BY <2>3
  <2> QED BY <1>2, <2>4, <2>5 DEF b
<1> QED BY <1>1, <1>2

LEMMA HostPauseServes ==
  ASSUME NEW h, HostOK(h), Serves(h)
  PROVE  HostOK(H!HostPause(h)) /\ Serves(H!HostPause(h))
<1> DEFINE t == H!HostPause(h)
           v == IF H!Waiting(h) THEN "PAUSE_RECEIVED" ELSE "PAUSED"
<1>1. t = [h EXCEPT !.send = v]
  BY DEF H!HostPause
<1>2. v \in {"PAUSED", "PAUSE_RECEIVED"} /\ (v = "PAUSED" => ~H!Waiting(h))
  OBVIOUS
<1> HIDE DEF t, v
<1>3. t = [fair |-> h.fair, size |-> h.size, servicing |-> h.servicing,
           sending |-> h.sending, due |-> h.due, send |-> v, left |-> h.left]
  BY <1>1 DEF HostOK
<1>4. HostOK(t)
  BY <1>2, <1>3 DEF HostOK
<1>5. h.sending => H!Waiting(h)
  BY DEF HostOK, H!Waiting
<1>6. Serves(t)
  BY <1>2, <1>3, <1>5 DEF Serves
<1> QED BY <1>4, <1>6 DEF t

LEMMA HostResumeServes ==
  ASSUME NEW h, HostOK(h), Serves(h)
  PROVE  HostOK(H!HostResume(h)) /\ Serves(H!HostResume(h))
<1> DEFINE r == [h EXCEPT !.send = "READY"]
           t == H!HostResume(h)
<1>1. r = [fair |-> h.fair, size |-> h.size, servicing |-> h.servicing,
           sending |-> h.sending, due |-> h.due, send |-> "READY", left |-> h.left]
  BY DEF HostOK
<1>2. t = IF h.fair /\ h.sending THEN r ELSE H!BeginService(r)
  BY DEF H!HostResume
<1> HIDE DEF r, t
<1>3. HostOK(r)
  BY <1>1 DEF HostOK
<1>4. r.fair = h.fair /\ r.sending = h.sending /\ r.due = h.due /\ r.send = "READY"
  BY <1>1
<1>5. CASE h.fair /\ h.sending
  <2>1. Serves(r)
    BY <1>4, <1>5 DEF Serves
  <2> QED BY <1>2, <1>3, <1>5, <2>1 DEF t
<1>6. CASE ~(h.fair /\ h.sending)
  <2>1. t = H!BeginService(r)
    BY <1>2, <1>6
  <2>2. h.fair => h.due = 0
    BY <1>6 DEF Serves
  <2>3. CASE ~H!Waiting(r)
    <3>1. t = r
      BY <2>1, <2>3, <1>3, BeginIs
    <3>2. Serves(r)
      BY <1>4, <1>6, <2>2, <2>3 DEF Serves
    <3> QED BY <1>3, <3>1, <3>2 DEF t
  <2>4. CASE H!Waiting(r)
    <3>1. HostOK(t) /\ t.due = r.due + 1 /\ t.sending = r.fair /\ t.fair = r.fair
          /\ t.send = r.send
      BY <2>1, <2>4, <1>3, BeginIs
    <3>2. Serves(t)
      BY <1>3, <1>4, <2>2, <3>1 DEF Serves, HostOK
    <3> QED BY <3>1, <3>2 DEF t
  <2> QED BY <2>3, <2>4
<1> QED BY <1>5, <1>6

LEMMA HostReceiveServes ==
  ASSUME NEW h, HostOK(h), Serves(h), NEW p \in H!Priorities
  PROVE  HostOK(H!HostReceive(h, p)) /\ Serves(H!HostReceive(h, p))
<1> DEFINE size == [h.size EXCEPT ![p] = @ + 1]
           more == [h EXCEPT !.size[p] = @ + 1]
           t == H!HostReceive(h, p)
           idle == ~H!Waiting(h) /\ h.send = "READY" /\ ~h.sending
<1>1. more = [fair |-> h.fair, size |-> size, servicing |-> h.servicing,
              sending |-> h.sending, due |-> h.due, send |-> h.send, left |-> h.left]
  BY DEF HostOK
<1>2. t = IF idle THEN H!BeginService(more) ELSE more
  BY DEF H!HostReceive
<1>3. size \in [H!Priorities -> Nat] /\ size[p] > 0
      /\ \A r \in H!Priorities : h.size[r] > 0 => size[r] > 0
  BY DEF HostOK
<1>4. h.sending => H!Waiting(h)
  BY DEF HostOK, H!Waiting
<1> HIDE DEF more, t, size
<1>5. HostOK(more)
  BY <1>1, <1>3 DEF HostOK
<1>6. more.fair = h.fair /\ more.sending = h.sending /\ more.due = h.due /\ more.send = h.send
      /\ H!Waiting(more)
  BY <1>1, <1>3 DEF H!Waiting
<1>7. CASE idle
  <2>1. HostOK(t) /\ t.due = more.due + 1 /\ t.sending = more.fair /\ t.fair = more.fair
        /\ t.send = more.send
    BY <1>2, <1>5, <1>6, <1>7, BeginIs
  <2>2. Serves(t)
    BY <1>5, <1>6, <1>7, <2>1 DEF Serves, HostOK
  <2> QED BY <2>1, <2>2 DEF t
<1>8. CASE ~idle
  <2>1. t = more
    BY <1>2, <1>8
  <2>2. Serves(more)
    BY <1>4, <1>6, <1>8 DEF Serves
  <2> QED BY <1>5, <2>1, <2>2 DEF t
<1> QED BY <1>7, <1>8

LEMMA HostCompleteServes ==
  ASSUME NEW h, HostOK(h), Serves(h), h.due > 0
  PROVE  HostOK(H!HostComplete(h)) /\ Serves(H!HostComplete(h))
<1> DEFINE now == [h EXCEPT !.due = @ - 1]
           gone == H!Depart(now)
           send == IF gone.send = "PAUSE_RECEIVED" THEN "PAUSED" ELSE gone.send
           x == [gone EXCEPT !.send = send]
           t == H!HostComplete(h)
<1>1. ~(h.fair /\ h.send = "PAUSED")
  BY DEF Serves
<1>2. t = H!ServeNext(x)
  BY <1>1 DEF H!HostComplete
<1>3. now = [fair |-> h.fair, size |-> h.size, servicing |-> h.servicing,
             sending |-> h.sending, due |-> h.due - 1, send |-> h.send, left |-> h.left]
  BY DEF HostOK
<1> HIDE DEF now
<1>4. h.fair => h.sending /\ h.due = 1
  BY DEF Serves, HostOK
<1>5. /\ HostOK(gone) /\ gone.fair = h.fair /\ gone.sending = FALSE
      /\ gone.due = h.due - 1 /\ gone.send = h.send
  <2>1. CASE now.servicing = H!None
             \/ (IF now.fair THEN ~now.sending ELSE now.size[now.servicing] = 0)
    <3>1. gone = now
      BY <2>1 DEF H!Depart
    <3>2. ~h.fair
      <4>1. h.fair => h.sending /\ h.servicing # H!None
        BY <1>4 DEF HostOK, H!None, H!Priorities
      <4>2. now.fair = h.fair /\ now.sending = h.sending /\ now.servicing = h.servicing
        BY <1>3
      <4> QED BY <2>1, <4>1, <4>2
    <3>3. h.sending = FALSE
      BY <3>2 DEF HostOK
    <3>4. now.fair = h.fair /\ now.sending = FALSE /\ now.due = h.due - 1 /\ now.send = h.send
      BY <1>3, <3>3
    <3>5. HostOK(now)
      BY <1>3, <3>3 DEF HostOK
    <3> HIDE DEF gone
    <3> QED BY <3>1, <3>4, <3>5
  <2>2. CASE ~(now.servicing = H!None
               \/ (IF now.fair THEN ~now.sending ELSE now.size[now.servicing] = 0))
    <3> DEFINE size == [h.size EXCEPT ![h.servicing] = @ - 1]
    <3>1. gone = [now EXCEPT !.size[now.servicing] = @ - 1, !.sending = FALSE, !.left = @ + 1]
      BY <2>2 DEF H!Depart
    <3>2. gone = [fair |-> h.fair, size |-> size, servicing |-> h.servicing,
                  sending |-> FALSE, due |-> h.due - 1, send |-> h.send, left |-> h.left + 1]
      BY <1>3, <3>1
    <3>3. h.servicing \in H!Priorities /\ h.size[h.servicing] \in Nat /\ h.size[h.servicing] # 0
      BY <1>3, <1>4, <2>2 DEF HostOK
    <3>4. size \in [H!Priorities -> Nat]
      BY <3>3 DEF HostOK
    <3> HIDE DEF size, gone
    <3>5. HostOK(gone)
      BY <3>2, <3>4 DEF HostOK
    <3> QED BY <3>2, <3>5
  <2> QED BY <2>1, <2>2
<1> HIDE DEF gone
<1>6. x = [fair |-> gone.fair, size |-> gone.size, servicing |-> gone.servicing,
           sending |-> gone.sending, due |-> gone.due, send |-> send, left |-> gone.left]
  BY <1>5 DEF HostOK
<1>7. send \in {"READY", "PAUSED"}
  BY <1>5 DEF HostOK
<1> HIDE DEF x, send
<1>8. /\ x.fair = h.fair /\ x.sending = FALSE /\ x.due = h.due - 1 /\ x.send = send
      /\ HostOK(x)
  <2>1. x.fair = h.fair /\ x.sending = FALSE /\ x.due = h.due - 1 /\ x.send = send
    BY <1>5, <1>6
  <2>2. HostOK(x)
    BY <1>5, <1>6, <1>7 DEF HostOK
  <2> QED BY <2>1, <2>2
<1>9. CASE H!Waiting(x) /\ x.send = "READY"
  <2>1. t = H!BeginService(x)
    BY <1>2, <1>9 DEF H!ServeNext
  <2>2. HostOK(t) /\ t.due = x.due + 1 /\ t.sending = x.fair /\ t.fair = x.fair
        /\ t.send = x.send
    <3> HIDE DEF t
    <3> QED BY <1>8, <1>9, <2>1, BeginIs
  <2> HIDE DEF t
  <2>3. Serves(t)
    BY <1>4, <1>8, <1>9, <2>2 DEF Serves, HostOK
  <2> QED BY <2>2, <2>3 DEF t
<1>10. CASE ~(H!Waiting(x) /\ x.send = "READY")
  <2>1. t = x \/ t = [x EXCEPT !.servicing = H!None]
    BY <1>2, <1>10 DEF H!ServeNext
  <2>2. Serves(x)
    BY <1>4, <1>8, <1>10 DEF Serves
  <2>3. ASSUME t = [x EXCEPT !.servicing = H!None]
        PROVE  HostOK(t) /\ Serves(t)
    <3> HIDE DEF t
    <3>1. t = [fair |-> x.fair, size |-> x.size, servicing |-> H!None,
               sending |-> x.sending, due |-> x.due, send |-> x.send, left |-> x.left]
      BY <1>8, <2>3 DEF HostOK
    <3>2. HostOK(t)
      BY <1>8, <3>1 DEF HostOK
    <3>3. Serves(t)
      BY <2>2, <3>1 DEF Serves, H!Waiting
    <3> QED BY <3>2, <3>3
  <2> QED BY <1>8, <2>1, <2>2, <2>3 DEF t
<1> QED BY <1>9, <1>10

-----------------------------------------------------------------------------
(* All the queues *)

AllServe(queues) == \A p \in Ports : LinkOK(queues[p])

Serving == AllServe(down) /\ AllServe(up) /\ HostOK(host) /\ Serves(host)

LEMMA ToldServes ==
  ASSUME NEW queues, AllServe(queues), NEW p, NEW q
  PROVE  AllServe(Told(queues, p, q))
<1>1. ASSUME NEW pause PROVE AllServe(SendPause(queues, p, pause))
  <2> SUFFICES ASSUME NEW r \in Ports PROVE LinkOK(SendPause(queues, p, pause)[r])
    BY DEF AllServe
  <2>1. LinkOK(queues[r])
    BY DEF AllServe
  <2> QED BY <2>1, FrameServes DEF SendPause
<1> QED BY <1>1 DEF Told

(* One queue of an array changes. *)
LEMMA OneServes ==
  ASSUME NEW queues, QueueArray(queues), AllServe(queues), NEW p \in Ports, NEW q, LinkOK(q)
  PROVE  AllServe([queues EXCEPT ![p] = q])
<1>1. DOMAIN queues = Ports
  BY DEF QueueArray
<1> QED BY <1>1 DEF AllServe

LEMMA InitServing == Init => Serving
<1> SUFFICES ASSUME Init PROVE Serving
  OBVIOUS
<1>1. LinkOK(EmptyQueue)
  <2>1. EmptyQueue.packets \in Seq({})
    BY DEF EmptyQueue
  <2>2. IsQueue(EmptyQueue) /\ EmptyQueue.sending \in BOOLEAN /\ LinkServes(EmptyQueue)
    BY DEF EmptyQueue, IsQueue, LinkServes
  <2> QED BY <2>1, <2>2 DEF LinkOK
<1>2. AllServe(down) /\ AllServe(up)
  BY <1>1 DEF Init, AllServe
<1>3. PICK fair \in BOOLEAN : host = H!EmptyHostQueue(fair)
  BY DEF Init
<1>4. HostOK(host)
  BY <1>3 DEF H!EmptyHostQueue, HostOK
<1>5. Serves(host)
  BY <1>3 DEF H!EmptyHostQueue, Serves, H!Waiting
<1> QED BY <1>2, <1>4, <1>5 DEF Serving

LEMMA NextServing == Inv /\ Serving /\ [Next]_vars => Serving'
<1> SUFFICES ASSUME Inv, Serving, [Next]_vars PROVE Serving'
  OBVIOUS
<1> USE PortsAssumption
<1>0. /\ QueueArray(down) /\ QueueArray(up) /\ AllServe(down) /\ AllServe(up)
      /\ \A r \in Ports : LinkOK(up[r]) /\ LinkOK(down[r])
      /\ HostOK(host) /\ Serves(host)
  BY DEF Inv, Serving, AllServe
<1>a. ASSUME AllServe(down'), AllServe(up'), UNCHANGED rest PROVE Serving'
  BY <1>0, <1>a DEF Serving, rest, HostOK, Serves, H!Waiting, AllServe
<1>b. ASSUME NEW queues, AllServe(queues), NEW p \in Ports, NEW pk, Arrives(queues, p, pk)
      PROVE  AllServe(down') /\ AllServe(up')
  <2>1. LinkOK(Receive(down[p], pk))
    BY <1>0, ReceiveServes
  <2>2. AllServe([down EXCEPT ![p] = Receive(down[p], pk)])
    BY <1>0, <2>1, OneServes
  <2>3. AllServe(Told(queues, p, Receive(down[p], pk)))
    BY <1>b, ToldServes
  <2> QED BY <1>b, <2>2, <2>3 DEF Arrives, AllServe
<1>c. ASSUME UNCHANGED <<net, host>> PROVE Serving'
  BY <1>0, <1>c DEF Serving, net, HostOK, Serves, H!Waiting, AllServe
<1>d. ASSUME NEW p \in Ports, NEW pks, up' = [up EXCEPT ![p] = ReceiveAll(@, pks)], down' = down
      PROVE  AllServe(down') /\ AllServe(up')
  <2>1. LinkOK(ReceiveAll(up[p], pks))
    BY <1>0, ReceiveAllServes
  <2>2. AllServe([up EXCEPT ![p] = ReceiveAll(up[p], pks)])
    BY <1>0, <2>1, OneServes
  <2> QED BY <1>0, <1>d, <2>2 DEF AllServe
<1>1. ASSUME NEW p \in Ports, OtherArrives(p) PROVE Serving'
  BY <1>0, <1>1, <1>a, <1>b DEF OtherArrives
<1>2. ASSUME NEW p \in Ports, UpCompletes(p) PROVE Serving'
  <2> DEFINE queues == [up EXCEPT ![p] = CompleteService(@)]
  <2>1. LinkOK(CompleteService(up[p]))
    BY <1>0, <1>2, CompleteServes DEF UpCompletes
  <2>2. AllServe(queues)
    BY <1>0, <2>1, OneServes
  <2>3. \A pk : Exit(pk) \in Ports
    BY DEF Exit
  <2>4. \/ \E pk : Arrives(queues, Exit(pk), pk)
        \/ \E pk : Arrives(queues, Exit(pk), [pk EXCEPT !.marked = TRUE])
        \/ up' = queues /\ down' = down
    BY <1>2 DEF UpCompletes
  <2> HIDE DEF queues
  <2>5. AllServe(down') /\ AllServe(up')
    <3>1. CASE up' = queues /\ down' = down
      BY <1>0, <2>2, <3>1 DEF AllServe
    <3> QED BY <1>b, <2>2, <2>3, <2>4, <3>1
  <2>6. UNCHANGED rest
    BY <1>2 DEF UpCompletes
  <2> QED BY <1>a, <2>5, <2>6
<1>3. ASSUME NEW p \in Ports, DownCompletes(p) PROVE Serving'
  <2> DEFINE q == CompleteService(down[p])
  <2>1. LinkOK(q)
    BY <1>0, <1>3, CompleteServes DEF DownCompletes
  <2>2. AllServe([down EXCEPT ![p] = q])
    BY <1>0, <2>1, OneServes
  <2>3. down' = [down EXCEPT ![p] = q] /\ UNCHANGED rest
    BY <1>3 DEF DownCompletes
  <2>4. \/ up' = Told(up, p, q)
        \/ \E pks : up' = Told([up EXCEPT ![Target] = ReceiveAll(@, pks)], p, q)
    BY <1>3 DEF DownCompletes
  <2>5. AllServe(Told(up, p, q))
    BY <1>0, ToldServes
  <2>6. ASSUME NEW pks PROVE AllServe(Told([up EXCEPT ![Target] = ReceiveAll(@, pks)], p, q))
    <3>1. LinkOK(ReceiveAll(up[Target], pks))
      BY <1>0, ReceiveAllServes
    <3>2. AllServe([up EXCEPT ![Target] = ReceiveAll(up[Target], pks)])
      BY <1>0, <3>1, OneServes
    <3> QED BY <3>2, ToldServes
  <2> HIDE DEF q
  <2>7. AllServe(down') /\ AllServe(up')
    BY <2>2, <2>3, <2>4, <2>5, <2>6 DEF AllServe
  <2> QED BY <1>a, <2>3, <2>7
<1>4. ASSUME NEW p \in Ports, NeighbourPauses(p) \/ NeighbourResumes(p) PROVE Serving'
  <2>1. LinkOK(ReceivePause(down[p])) /\ LinkOK(ReceiveResume(down[p]))
    BY <1>0, FrameServes
  <2>2. /\ AllServe([down EXCEPT ![p] = ReceivePause(down[p])])
        /\ AllServe([down EXCEPT ![p] = ReceiveResume(down[p])])
    BY <1>0, <2>1, OneServes
  <2>3. up' = up /\ UNCHANGED rest
        /\ \/ down' = [down EXCEPT ![p] = ReceivePause(down[p])]
           \/ down' = [down EXCEPT ![p] = ReceiveResume(down[p])]
    BY <1>4 DEF NeighbourPauses, NeighbourResumes
  <2>4. AllServe(down') /\ AllServe(up')
    BY <1>0, <2>2, <2>3 DEF AllServe
  <2> QED BY <1>a, <2>3, <2>4
<1>5. ASSUME NEW e \in SrcEvents, SrcEvent(e) PROVE Serving'
  <2>1. \E pks : up' = [up EXCEPT ![Origin] = ReceiveAll(@, pks)] /\ down' = down
    BY <1>5 DEF SrcEvent
  <2>2. UNCHANGED rest
    BY <1>5 DEF SrcEvent
  <2> QED BY <1>a, <1>d, <2>1, <2>2
<1>6. CASE IntervalEnd
  <2>1. \E pks : up' = [up EXCEPT ![Target] = ReceiveAll(@, pks)] /\ down' = down
    BY <1>6 DEF IntervalEnd
  <2>2. UNCHANGED rest
    BY <1>6 DEF IntervalEnd
  <2> QED BY <1>a, <1>d, <2>1, <2>2
<1>7. CASE Elapse \/ AckTimer \/ ScannerStops \/ Activate
  BY <1>7, <1>c DEF Elapse, AckTimer, ScannerStops, Activate, rest
<1>8. CASE HostFrame \/ HostService \/ \E p \in H!Priorities : HostPacket(p)
  <2>1. HostOK(host') /\ Serves(host')
    <3>1. CASE HostFrame
      <4>1. host' = H!HostPause(host) \/ host' = H!HostResume(host)
        BY <3>1 DEF HostFrame
      <4> QED BY <1>0, <4>1, HostPauseServes, HostResumeServes
    <3>2. CASE HostService
      <4>1. host' = H!HostComplete(host) /\ host.due > 0
        BY <3>2 DEF HostService
      <4> QED BY <1>0, <4>1, HostCompleteServes
    <3>3. ASSUME NEW p \in H!Priorities, HostPacket(p) PROVE HostOK(host') /\ Serves(host')
      <4>1. host' = H!HostReceive(host, p)
        BY <3>3 DEF HostPacket
      <4> QED BY <1>0, <4>1, HostReceiveServes
    <3> QED BY <1>8, <3>1, <3>2, <3>3
  <2>2. down' = down /\ up' = up
    BY <1>8 DEF HostFrame, HostService, HostPacket, net
  <2> QED BY <1>0, <2>1, <2>2 DEF Serving, AllServe
<1>9. CASE UNCHANGED vars
  BY <1>9, <1>c DEF vars, rest
<1> QED BY <1>1, <1>2, <1>3, <1>4, <1>5, <1>6, <1>7, <1>8, <1>9 DEF Next

(* For any number of ports, any thresholds and load, however PAUSE and       *)
(* resume frames, packets and completions are interleaved: a queue that may  *)
(* send and has a packet has a service under way.  Lossless queues and       *)
(* FairPriorityQueues are moreover served for a packet they hold only, never *)
(* while PAUSED and, FairPriorityQueues, by one completion at a time.  Of    *)
(* PriorityQueue that is false and not claimed (queue.cpp:261 and :340).     *)
THEOREM QueuesNeverStall == Spec => []QueuesServe
<1>1. ASSUME Inv, Serving PROVE QueuesServe
  <2>1. DOMAIN up = Ports /\ DOMAIN down = Ports
    BY <1>1 DEF Inv, QueueArray
  <2>2. ASSUME NEW q \in Queues PROVE LinkServes(q)
    <3>1. \E p \in Ports : q = up[p] \/ q = down[p]
      BY <2>1 DEF Queues, Range
    <3> QED BY <1>1, <3>1 DEF Serving, AllServe, LinkOK
  <2>3. HostServes
    <3>1. HostOK(host) /\ Serves(host)
      BY <1>1 DEF Serving
    <3>2. ASSUME host.fair PROVE FairServes
      <4>1. host.sending => H!Waiting(host)
        BY <3>1 DEF HostOK, H!Waiting
      <4> QED BY <3>1, <3>2, <4>1 DEF Serves, FairServes
    <3>3. PriorityGoesOn
      BY <3>1 DEF Serves, PriorityGoesOn
    <3> QED BY <3>1, <3>2, <3>3 DEF HostOK, HostServes
  <2> QED BY <2>2, <2>3 DEF QueuesServe
<1> QED BY <1>1, InitInv, NextInv, InitServing, NextServing, PTL DEF Spec
=============================================================================
