---------------------------- MODULE ReliableFlow ----------------------------
(***************************************************************************)
(* What a UEC connection promises: every byte of the payload is counted    *)
(* once at the receiver, the sender reports the end of the flow only when  *)
(* all of it has arrived, and eventually it does.                          *)
(***************************************************************************)
EXTENDS Naturals

CONSTANTS FlowSize, Mss   \* bytes of payload of the flow and of one packet

VARIABLES received, done

Init == received = 0 /\ done = FALSE

Deliver ==
  /\ received < FlowSize
  /\ received' = received + Mss
  /\ UNCHANGED done

Finish ==
  /\ received = FlowSize /\ ~done
  /\ done' = TRUE
  /\ UNCHANGED received

Next == Deliver \/ Finish

Safety == Init /\ [][Next]_<<received, done>>
Spec   == Safety /\ WF_<<received, done>>(Next)
=============================================================================
