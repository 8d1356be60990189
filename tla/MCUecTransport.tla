--------------------------- MODULE MCUecTransport ---------------------------
(* Instances of UecTransport for TLC. *)
EXTENDS UecTransport, TLC

(* Two packets, or one, in the window. *)
MCWindows == {Mtu, 2 * Mtu}

(* Timers that expire at any time next to one or two faults; and timely ones, *)
(* with more expiries than two faults and a slow NIC can cause.               *)
B(f, t, i) == [faults |-> f, timeouts |-> t, timely |-> i]
MCBudgets == {B(1, 2, FALSE), B(2, 1, FALSE), B(2, 6, TRUE)}
=============================================================================
