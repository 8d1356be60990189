----------------------------- MODULE HostQueue -----------------------------
(***************************************************************************)
(* The queue between a host and its switch, PriorityQueue and              *)
(* FairPriorityQueue (queue.cpp).  Under priority flow control the input   *)
(* queue of the switch pauses and resumes it.  The queue is a record and   *)
(* each handler an operator on it; of the packets only the priority is     *)
(* kept, since the order within one is not looked at.                      *)
(***************************************************************************)
EXTENDS Integers

(* Q_LO, Q_MID and Q_HI *)
Priorities == 0 .. 2
None == -1

EmptyHostQueue(fair) ==
  [fair      |-> fair,          \* FairPriorityQueue or PriorityQueue
   size      |-> [p \in Priorities |-> 0],   \* _queuesize
   servicing |-> None,          \* _servicing
   sending   |-> FALSE,         \* _sending # NULL (FairPriorityQueue)
   due       |-> 0,             \* completions in the event list
   send      |-> "READY",       \* _state_send
   left      |-> 0]             \* packets sent on

Waiting(h) == \E p \in Priorities : h.size[p] > 0

(* beginService: the highest priority that has a packet *)
BeginService(h) ==
  LET top == CHOOSE p \in Priorities :
               h.size[p] > 0 /\ \A r \in Priorities : h.size[r] > 0 => r <= p
  IN IF Waiting(h)
     THEN [h EXCEPT !.servicing = top, !.due = @ + 1, !.sending = h.fair]
     ELSE h

(* The queue is paused at once, although a packet is in service. *)
HostPause_AtOnce(h) == [h EXCEPT !.send = "PAUSED"]

(* receivePacket of a PAUSE frame.  PriorityQueue takes one that comes while *)
(* it is not ready for a resume, but frames alternate.                       *)
HostPause(h) ==
  [h EXCEPT !.send = IF Waiting(h) THEN "PAUSE_RECEIVED" ELSE "PAUSED"]

(* receivePacket of a resume frame: PriorityQueue begins a service although *)
(* one may be going on.                                                     *)
HostResume(h) ==
  LET ready == [h EXCEPT !.send = "READY"]
  IN IF h.fair /\ h.sending THEN ready ELSE BeginService(ready)

(* receivePacket of any other packet *)
HostReceive(h, p) ==
  LET more == [h EXCEPT !.size[p] = @ + 1]
  IN IF ~Waiting(h) /\ h.send = "READY" /\ ~h.sending
     THEN BeginService(more) ELSE more

(* The packet in service leaves, if it is still there. *)
Depart(h) ==
  IF h.servicing = None \/ (IF h.fair THEN ~h.sending ELSE h.size[h.servicing] = 0)
  THEN h
  ELSE [h EXCEPT !.size[h.servicing] = @ - 1, !.sending = FALSE, !.left = @ + 1]

(* The service goes on, or stops until a packet or a resume comes. *)
ServeNext(h) ==
  CASE Waiting(h) /\ h.send = "READY"              -> BeginService(h)
    [] Waiting(h) /\ h.send # "READY" /\ ~h.fair -> h
    [] OTHER                                       -> [h EXCEPT !.servicing = None]

(* completeService.  A FairPriorityQueue that is paused does nothing. *)
HostComplete(h) ==
  LET now  == [h EXCEPT !.due = @ - 1]
      gone == Depart(now)
  IN IF h.fair /\ h.send = "PAUSED" THEN now
     ELSE ServeNext([gone EXCEPT
            !.send = IF @ = "PAUSE_RECEIVED" THEN "PAUSED" ELSE @])
=============================================================================
