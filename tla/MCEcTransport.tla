--------------------------- MODULE MCEcTransport ---------------------------
(* EcTransport for TLC: all four variants of the code. *)
EXTENDS EcTransport

\* kec_cc, kecbr, 1ec_cc and 1ecbr
MCVariants == BOOLEAN \X BOOLEAN

\* The window of kec_cc closes after three or four packets; that of 1ec_cc
\* is not closed by the first sending of the flow.
MCWindows == (TRUE :> {3, 4}) @@ (FALSE :> {7})
MCStartWindow == (TRUE :> 4) @@ (FALSE :> 7)

\* After a single loss the receiver's timer is first; the sender's own timer
\* needs a second one, which kec_cc gets.
MCMaxFaults == [v \in MCVariants |-> IF v[1] /\ v[2] THEN 2 ELSE 1]
NoFaults == [v \in MCVariants |-> 0]

\* 1ec_cc alone, with a window that closes in the middle of a stripe
OneEcCc == {<<FALSE, TRUE>>}
SmallWindows == [b \in BOOLEAN |-> {4}]
SmallStartWindow == [b \in BOOLEAN |-> 4]
=============================================================================
