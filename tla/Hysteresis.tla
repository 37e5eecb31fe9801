------------------------------ MODULE Hysteresis ------------------------------
(***************************************************************************)
(* calculate_switching_times_alternative of MATLAB scripts/analysis_tools  *)
(* .py (lines 365-414; analysis_tools.py lines 252-296 is the same loop    *)
(* returning only (rise, fall)): a single forward pass with the states     *)
(* idle / going-up / going-down of spec 4.2.                               *)
(*                                                                         *)
(* One step is one iteration of the for-loop over data[1:]: its four       *)
(* threshold tests run in order, each seeing the flags the previous one    *)
(* set.  Windows are recorded as the loop's step, which is the position of *)
(* data_point_prev, the last sample before the crossing.                   *)
(***************************************************************************)
EXTENDS Integers, Extrema

CONSTANTS
  Signals,   \* the input signals: functions from 0..n-1 to sample values
  Nominal    \* nominal_value

ASSUME Nominal \in Nat \ {0}

VARIABLES
  data,
  step,       \* the loop's step; data_point is data[step + 1]
  goingUp,    \* going_up
  goingDown,  \* going_down
  rise,       \* rise = [start, stop], initially [0, 0]
  fall,       \* fall, likewise
  foundRise,  \* found_rise
  foundFall,  \* found_fall
  pc

vars == <<data, step, goingUp, goingDown, rise, fall, foundRise, foundFall, pc>>

n == LastIdx(data) + 1

Hi(v, pct) == Above(v, pct, Nominal)
Lo(v, pct) == Below(v, pct, Nominal)

\* The four tests on (data_point_prev, data_point), strict on both sides.
UpThrough(p, c, pct)   == Hi(c, pct) /\ Lo(p, pct)
DownThrough(p, c, pct) == Lo(c, pct) /\ Hi(p, pct)

Init ==
  /\ data \in Signals
  /\ step = 0
  /\ goingUp = FALSE
  /\ goingDown = FALSE
  /\ rise = <<0, 0>>
  /\ fall = <<0, 0>>
  /\ foundRise = FALSE
  /\ foundFall = FALSE
  /\ pc = "loop"

\* Lines 377-381: crossing 10% upwards opens a rise unless one is open.
UpTen(p, c, s, st) ==
  IF UpThrough(p, c, 10)
    THEN [st EXCEPT !.rise[1] = IF st.up THEN @ ELSE s, !.up = TRUE,
                    !.down = FALSE]
    ELSE st

\* Lines 382-389: crossing 90% upwards closes an open rise; during a fall
\* it resets rise[0] to 0.
UpNinety(p, c, s, st) ==
  IF UpThrough(p, c, 90)
    THEN [st EXCEPT !.rise = IF st.up THEN <<@[1], s>> ELSE
                               IF st.down THEN <<0, @[2]>> ELSE @,
                    !.foundRise = @ \/ st.up,
                    !.up = FALSE, !.down = FALSE]
    ELSE st

\* Lines 390-394: crossing 90% downwards opens a fall unless one is open.
DownNinety(p, c, s, st) ==
  IF DownThrough(p, c, 90)
    THEN [st EXCEPT !.fall[1] = IF st.down THEN @ ELSE s, !.up = FALSE,
                    !.down = TRUE]
    ELSE st

\* Lines 395-402: crossing 10% downwards closes an open fall; during a rise
\* it resets fall[0] to 0.
DownTen(p, c, s, st) ==
  IF DownThrough(p, c, 10)
    THEN [st EXCEPT !.fall = IF st.down THEN <<@[1], s>> ELSE
                               IF st.up THEN <<0, @[2]>> ELSE @,
                    !.foundFall = @ \/ st.down,
                    !.up = FALSE, !.down = FALSE]
    ELSE st

\* One iteration (lines 376-407): the four tests in order, then the break
\* once both transitions are found, else data_point_prev = data_point.
Iterate ==
  /\ pc = "loop"
  /\ step + 1 < n
  /\ LET p  == data[step]
         c  == data[step + 1]
         st0 == [up |-> goingUp, down |-> goingDown, rise |-> rise,
                 fall |-> fall, foundRise |-> foundRise,
                 foundFall |-> foundFall]
         st == DownTen(p, c, step, DownNinety(p, c, step,
                 UpNinety(p, c, step, UpTen(p, c, step, st0))))
     IN /\ goingUp' = st.up
        /\ goingDown' = st.down
        /\ rise' = st.rise
        /\ fall' = st.fall
        /\ foundRise' = st.foundRise
        /\ foundFall' = st.foundFall
        /\ IF st.foundRise /\ st.foundFall
             THEN pc' = "done" /\ UNCHANGED step
             ELSE pc' = "loop" /\ step' = step + 1
  /\ UNCHANGED data

\* The loop runs out of samples.
Exhausted ==
  /\ pc = "loop"
  /\ step + 1 >= n
  /\ pc' = "done"
  /\ UNCHANGED <<data, step, goingUp, goingDown, rise, fall, foundRise, foundFall>>

Terminated ==
  /\ pc = "done"
  /\ UNCHANGED vars

Next == Iterate \/ Exhausted \/ Terminated

Spec == Init /\ [][Next]_vars

-----------------------------------------------------------------------------
TypeOK ==
  /\ data \in Signals
  /\ step \in 0..(n - 1)
  /\ goingUp \in BOOLEAN /\ goingDown \in BOOLEAN
  /\ rise \in (0..(n - 1)) \X (0..(n - 1))
  /\ fall \in (0..(n - 1)) \X (0..(n - 1))
  /\ foundRise \in BOOLEAN /\ foundFall \in BOOLEAN
  /\ pc \in {"loop", "done"}

(***************************************************************************)
(* Line 410: return (rise, fall, True, True).  rise and fall are bound    *)
(* before the loop, so the except UnboundLocalError of 411-414 never runs: *)
(* the caller receives both flags True whatever found_rise / found_fall    *)
(* say, and the windows as the loop left them.                             *)
(***************************************************************************)
Returned == [rise |-> rise, fall |-> fall, riseFound |-> TRUE, fallFound |-> TRUE]
=============================================================================
