------------------------------- MODULE EcSink -------------------------------
(***************************************************************************)
(* The receiver of the erasure-coded transports.  kec_cc and kecbr keep one*)
(* bitmap for each path, 1ec_cc and 1ecbr one bitmap for the flow; here    *)
(* both are the set of the packets <<stripe, path>> beyond the expected    *)
(* ones, with the stripes numbered through all messages, and the single    *)
(* bitmap is the case in which all paths expect the same stripe.  The      *)
(* handlers are operators on the receiver's record.                        *)
(***************************************************************************)
EXTENDS Integers, Sequences, FiniteSets, SequencesExt, FiniteSetsExt

CONSTANTS
  Stripes, K, M,       \* as in EcSrc
  LossyThreshold,      \* lossy_skip_threshold, in stripes
  RecoverThreshold,    \* recoverable_skip_threshold, in stripes
  BitmapSize,          \* BITMAP_SIZE_KEC, BITMAP_SIZE_1EC: in stripes
  MaxBoundaries,       \* MAX_MESSAGE_BOUNDARIES
  Big                  \* UINT32_MAX: the end of the message is not known yet

Width == K + M
AllPaths == 0 .. Width - 1

\* The receiver before its first packet, of one of the four variants.
InitSink(perPath, windowed) ==
  [ perPath  |-> perPath,    \* one bitmap for each path (kec_cc, kecbr)
    windowed |-> windowed,   \* with congestion control (kec_cc, 1ec_cc)
    epsn     |-> [p \in AllPaths |-> 0], \* per_path_epsns; epsn
    bits     |-> {},         \* per_path_bitmaps; bitmap
    top      |-> 0,          \* global_max_psn; max_stripe_offset
    base     |-> 0,          \* mbl_base_msn
    mbl      |-> <<>>,       \* message_boundary_list, from head to tail
    missing  |-> {},         \* missing_stripes_map
    armed    |-> FALSE,      \* _nack_restart_timeout is set
    change   |-> FALSE,      \* _mbl_change
    pending  |-> FALSE,      \* _restart_timeout_pending
    active   |-> TRUE,       \* flow_active
    acked    |-> 0,          \* _acked_bytes_per_metric_ack
    canSend  |-> FALSE,      \* _can_send_metric_ack
    metric   |-> FALSE ]     \* _metric_ack_timeout_pending

GlobalMin(k) == Min({k.epsn[p] : p \in AllPaths})

-----------------------------------------------------------------------------
(* The message boundary list *)

\* update_mbl: the packet tells the last stripe of its message, and that the
\* messages before it end before it begins.  A list that is extended to its
\* full length at once loses the boundary (head and tail coincide).
UpdateBoundariesOwn(k, pk) ==
  LET rel == pk.msn - k.base
      n   == Len(k.mbl)
  IN  IF rel < 0 THEN k
      ELSE [k EXCEPT !.mbl = [i \in 1 .. Max({n, rel + 1}) |->
              IF i = rel + 1 THEN pk.msn * Stripes + pk.num - 1
              ELSE IF i <= n THEN @[i] ELSE Big]]
UpdateBoundaries(k, pk) ==
  LET rel   == pk.msn - k.base
      n     == Len(k.mbl)
      first == pk.msn * Stripes
      last  == first + pk.num - 1
      lost  == rel >= MaxBoundaries \/ (n = 0 /\ rel + 1 = MaxBoundaries)
      grown == IF rel < n \/ rel >= MaxBoundaries THEN k.mbl
               ELSE [i \in 1 .. rel + 1 |-> IF i <= n THEN k.mbl[i] ELSE Big]
  IN  IF rel < 0 THEN k
      ELSE IF lost THEN [k EXCEPT !.mbl = grown]
      ELSE [k EXCEPT !.mbl = [i \in DOMAIN grown |->
                                IF i = rel + 1 THEN last
                                ELSE IF i <= rel THEN Min({grown[i], first - 1})
                                ELSE grown[i]]]

\* The members of a set of numbers in ascending order: that in which stripes
\* are given up, because the expected stripe only moves up.
Ascending(S) ==
  [i \in 1 .. Cardinality(S) |->
     CHOOSE x \in S : Cardinality({y \in S : y <= x}) = i]

\* The SACK for a message: the stripes of it that were given up.
SackFor(k, msn) ==
  LET gone == {x - msn * Stripes : x \in
                 {y \in k.missing : y \div Stripes = msn}}
  IN  [type |-> "SACK", msn |-> msn, missing |-> Ascending(gone), bytes |-> 0]

\* complete_mbl: [sink, acks].  The loop visits every entry, counts those that
\* are behind the expected stripe and takes as many off the head; it visits
\* none when the list is full, because head and tail coincide.
CompleteBoundaries(k) ==
  LET ended(i) == k.mbl[i] < GlobalMin(k)
      n == IF Len(k.mbl) = MaxBoundaries THEN 0
           ELSE Cardinality({i \in DOMAIN k.mbl : ended(i)})
  IN  [sink |-> [k EXCEPT
                  !.mbl    = IF n = 0 THEN @
                             ELSE [i \in 1 .. Len(@) - n |->
                                     IF ended(i + n) THEN Big ELSE @[i + n]],
                  !.base   = @ + n,
                  !.missing = {x \in @ : x \div Stripes >= k.base + n},
                  !.change = @ \/ n > 0,
                  !.armed  = @ \/ IF k.windowed THEN n > 0 ELSE k.mbl # <<>>],
       acks |-> [i \in 1 .. n |-> SackFor(k, k.base + i - 1)]]

-----------------------------------------------------------------------------
(* The bitmaps *)

Expected(k, pk) == k.epsn[pk.path]
StripeOf(pk)    == pk.msn * Stripes + pk.stripe

\* The positions beyond the end of a short message, which count as received:
\* on the packet's own path, or on all of them with the single bitmap.
VirtualBits(k, pk) ==
  {b \in (pk.msn * Stripes + pk.num .. (pk.msn + 1) * Stripes - 1) \X AllPaths :
     /\ k.perPath => b[2] = pk.path
     /\ b[1] >= k.epsn[b[2]]
     /\ b[1] - k.epsn[b[2]] < BitmapSize}

\* The packet is recorded: it is neither behind nor beyond the bitmap.
Accepts(k, pk) ==
  /\ StripeOf(pk) >= Expected(k, pk)
  /\ StripeOf(pk) - Expected(k, pk) < BitmapSize

\* Move the expected stripe of each path past what the bitmap holds of it.
Advance(k, e) ==
  [k EXCEPT !.epsn = e, !.bits = {b \in @ : b[1] >= e[b[2]]}]

Limit(k) == Max({b[1] : b \in k.bits} \cup {k.epsn[p] : p \in AllPaths}) + 1

\* The first stripe from `from` on that is not recorded on all of the paths.
FirstMissing(k, paths, from) ==
  Min({x \in from .. Limit(k) : \E p \in paths : <<x, p>> \notin k.bits})

\* Stripes of bytes that the receiver counts for the next metric ACK.
Acked(k, n) == IF k.windowed THEN [k EXCEPT !.acked = @ + n] ELSE k

\* check_pkt with a bitmap for each path
CheckPacketPerPath(k, pk) ==
  LET marked == [k EXCEPT !.bits = @ \cup VirtualBits(k, pk)
                                     \cup {<<StripeOf(pk), pk.path>>}]
      e      == FirstMissing(marked, {pk.path}, Expected(k, pk))
      moved  == Advance(marked, [k.epsn EXCEPT ![pk.path] = e])
  IN  IF Accepts(k, pk) THEN Acked(moved, (GlobalMin(moved) - GlobalMin(k)) * Width)
      ELSE [k EXCEPT !.bits = @ \cup VirtualBits(k, pk)]

\* check_pkt with one bitmap: it moves by whole stripes, and only if the
\* packet is the expected one.
CheckPacketBlock(k, pk) ==
  LET marked == [k EXCEPT !.bits = @ \cup VirtualBits(k, pk)
                     \cup IF Accepts(k, pk) THEN {<<StripeOf(pk), pk.path>>} ELSE {}]
      e      == FirstMissing(marked, AllPaths, GlobalMin(k))
  IN  IF StripeOf(pk) = GlobalMin(k) /\ pk.path = 0
      THEN Advance(marked, [p \in AllPaths |-> e])
      ELSE marked

\* One stripe further on every path that still waits for the smallest one.
StepOver(k) ==
  Acked(Advance(k, [p \in AllPaths |->
          IF k.epsn[p] = GlobalMin(k) THEN k.epsn[p] + 1 ELSE k.epsn[p]]),
        IF k.perPath THEN Width ELSE 0)

\* check_trivial_skip: the data packets of the stripe are all there.
TrivialTarget(k) ==
  IF k.perPath THEN Min({k.epsn[p] : p \in 0 .. K - 1})
  ELSE FirstMissing(k, 0 .. K - 1, GlobalMin(k))
TrivialSkip(k) ==
  LET target == TrivialTarget(k)
  IN  Acked(Advance(k, [p \in AllPaths |-> Max({k.epsn[p], target})]),
            IF k.perPath THEN (target - GlobalMin(k)) * Width ELSE 0)

\* check_recoverable_skip: any K packets of the stripe are there.
IsRecoverable(k) ==
  /\ k.top - GlobalMin(k) > RecoverThreshold
  /\ Cardinality({p \in AllPaths :
        IF k.perPath THEN k.epsn[p] > GlobalMin(k)
        ELSE <<GlobalMin(k), p>> \in k.bits}) >= K

\* check_lossy_skip: the stripe is given up and reported in the SACK.
IsLossy(k) == k.top - GlobalMin(k) > LossyThreshold
LossySkipUnreported(k) == StepOver(k)
LossySkip(k) == StepOver([k EXCEPT !.missing = @ \cup {GlobalMin(k)}])

\* At most one of the three, tried in this order.
Skip(k) ==
  IF TrivialTarget(k) > GlobalMin(k) THEN TrivialSkip(k)
  ELSE IF IsRecoverable(k) THEN StepOver(k)
  ELSE IF IsLossy(k) THEN LossySkip(k)
  ELSE k

\* receivePacket: [sink, acks].  The boundary list is completed only if some
\* expected stripe moved.
ReceivePacket(k, pk) ==
  LET seen == [k EXCEPT !.active  = TRUE,
                        !.top     = Max({@, StripeOf(pk)}),
                        !.canSend = k.windowed,
                        !.armed   = @ \/ (k.windowed /\ ~k.perPath),
                        !.acked   = IF k.windowed /\ ~k.perPath THEN @ + 1 ELSE @]
      known == UpdateBoundaries(seen, pk)
      after == Skip(IF k.perPath THEN CheckPacketPerPath(known, pk)
                    ELSE CheckPacketBlock(known, pk))
  IN  IF after.epsn = k.epsn THEN [sink |-> after, acks |-> <<>>]
      ELSE CompleteBoundaries(after)

-----------------------------------------------------------------------------
(* The timers *)

\* check_flow_active: only the variants without congestion control ever find
\* the flow inactive.
FlowActive(k) ==
  \/ k.windowed
  \/ k.bits # {}
  \/ \E p \in AllPaths : k.epsn[p] # k.epsn[0]

\* restart_flow_timer_hook when the timer has run out
RestartHook(k) ==
  IF k.change THEN [k EXCEPT !.change = FALSE, !.pending = FALSE]
  ELSE IF k.pending THEN k
  ELSE [k EXCEPT !.pending = TRUE,
                 !.active  = IF k.perPath /\ k.windowed THEN @ ELSE FlowActive(k)]

\* metric_ack_timer_hook when the timer has run out
MetricHook(k) == [k EXCEPT !.metric = TRUE]

NackPacket == [type |-> "NACK", msn |-> 0, missing |-> <<>>, bytes |-> 0]

\* restartFlow: [sink, acks].  1ec_cc sends its NACK twice.
SinkRestartKeepsExpected(k) ==
  [sink |-> [k EXCEPT !.bits = {}, !.top = 0, !.base = 0, !.mbl = <<>>, !.missing = {}],
   acks |-> <<NackPacket>>]
SinkRestart(k) ==
  [sink |-> [k EXCEPT !.epsn = [p \in AllPaths |-> 0], !.bits = {}, !.top = 0,
                      !.base = 0, !.mbl = <<>>, !.missing = {},
                      !.change  = IF k.perPath THEN FALSE ELSE @,
                      !.active  = IF k.windowed THEN TRUE ELSE @,
                      !.canSend = k.windowed,
                      !.metric  = IF k.perPath THEN @ ELSE FALSE],
   acks |-> IF k.windowed /\ ~k.perPath THEN <<NackPacket, NackPacket>>
            ELSE <<NackPacket>>]

\* doNextEvent: [sink, acks]
SinkEvent(k) ==
  LET restarted == IF k.pending
                   THEN SinkRestart([k EXCEPT !.pending = FALSE])
                   ELSE [sink |-> k, acks |-> <<>>]
      r == restarted.sink
  IN  IF ~r.metric THEN restarted
      ELSE IF ~r.canSend THEN [restarted EXCEPT !.sink.metric = FALSE]
      ELSE [sink |-> [r EXCEPT !.metric = FALSE, !.canSend = FALSE, !.acked = 0],
            acks |-> Append(restarted.acks,
                       [type |-> "METRIC", msn |-> 0, missing |-> <<>>,
                        bytes |-> r.acked])]
=============================================================================
