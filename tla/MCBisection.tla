----------------------------- MODULE MCBisection -----------------------------
(***************************************************************************)
(* The bisection detector on every 7-sample signal around Nominal 10, the  *)
(* synthetic steps of spec 8 among them.                                   *)
(***************************************************************************)
EXTENDS Bisection, MCSignals

MCAll == AllSignals(7, MCValues)
=============================================================================
