-------------------------- MODULE MCChannelAnalysis --------------------------
(***************************************************************************)
(* One 7-sample voltage channel around Nominal 10: every signal without    *)
(* equal neighbours over the six values of MCSignals, and every signal     *)
(* over {0, 5, 10}.  The hysteresis loop compares each sample only with    *)
(* 10% and 90% of nominal, so the second set gives it every sequence of    *)
(* below / between / above, plateaus included.  The time axis has a first  *)
(* step three times the others, as LTspice's variable step produces, so a *)
(* period in samples and a time differ.                                    *)
(***************************************************************************)
EXTENDS ChannelAnalysis, MCSignals

MCChannelSignals ==
  GenericSignals(7, MCValues) \cup AllSignals(7, {0, 5, 10})

MCChannelTimes == { [i \in 0..6 |-> IF i = 0 THEN 0 ELSE i + 2] }
=============================================================================
