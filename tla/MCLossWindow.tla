---------------------------- MODULE MCLossWindow ----------------------------
(***************************************************************************)
(* An 8-sample trace with a growth step of 2 samples: the code's 100-sample *)
(* step against traces of thousands of samples, scaled so that the window  *)
(* can settle in the first step, after several steps, or run off the end.  *)
(* period 0 is reachable: np.where(time < time[0] + 1/f)[0][-1] is 0 when  *)
(* the first sampling interval is longer than the ringing period.          *)
(***************************************************************************)
EXTENDS LossWindow

MCPeriods == {0, 1, 2}

\* A first sampling interval three times the others, as LTspice's start-up
\* step gives: the closed form holds only if every interval is weighed.
MCTimeAxis == [k \in 0..7 |-> IF k = 0 THEN 0 ELSE k + 2]
=============================================================================
