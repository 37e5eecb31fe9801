------------------------------ MODULE MCRinging ------------------------------
(***************************************************************************)
(* 8-sample voltage channels around Nominal 10 with two levels above it    *)
(* (peaks of decaying ringing) and two below, on a uniform time axis and   *)
(* on one whose first step is longer than the rest, as LTspice's variable  *)
(* time step produces.                                                     *)
(***************************************************************************)
EXTENDS Ringing, MCSignals

MCRingSignals == AllSignals(8, {0, 9, 11, 13})

MCTimes ==
  { [i \in 0..7 |-> i],
    [i \in 0..7 |-> IF i = 0 THEN 0 ELSE i + 2] }
=============================================================================
