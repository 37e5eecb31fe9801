--------------------------- MODULE MCSwitchingTimes ---------------------------
(***************************************************************************)
(* SwitchingTimes on 7-sample signals (6-sample steps) around Nominal 10.  *)
(***************************************************************************)
EXTENDS SwitchingTimes, MCSignals

MCGeneric == GenericSignals(7, MCValues)
MCAll     == AllSignals(7, MCValues)
MCSteps   == StepSignals(6, MCValues)
=============================================================================
