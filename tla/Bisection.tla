------------------------------ MODULE Bisection ------------------------------
(***************************************************************************)
(* calculate_switching_times of MATLAB scripts/analysis_tools.py (lines   *)
(* 303-327): the bisection detector of spec 4.2.  The trace is split at    *)
(* mid_point = len(data) / 2 (Python 2 integer division); the midpoint     *)
(* sample decides which half holds the rise and which the fall, and each   *)
(* window is the first crossing of 10% and of 90% within its half.         *)
(*                                                                         *)
(* The call is straight-line code, so it is one step.  An empty np.where   *)
(* match makes [0][0] raise IndexError, which nothing in the function      *)
(* catches: the try only wraps the return, which cannot raise.             *)
(***************************************************************************)
EXTENDS Integers, Extrema

CONSTANTS
  Signals,   \* the input signals: functions from 0..n-1 to sample values
  Nominal    \* nominal_value

ASSUME Nominal \in Nat \ {0}

VARIABLES
  data,
  pc,     \* "bisect", then "done" or "IndexError"
  out     \* the returned (rise, fall, rise_found, fall_found)

vars == <<data, pc, out>>

n == LastIdx(data) + 1

Hi(v, pct) == Above(v, pct, Nominal)
Lo(v, pct) == Below(v, pct, Nominal)

\* mid_point = len(data) / 2
MidPoint == n \div 2

\* The positions of data[a:b] where P holds; np.where(...)[0] + a.
Matches(a, b, pct, up) ==
  { j \in a..(b - 1) : IF up THEN Hi(data[j], pct) ELSE Lo(data[j], pct) }

\* data[mid_point] > nominal_value/2: the rise lies in the first half.
RiseFirst == 2 * data[MidPoint] > Nominal

\* The halves the two windows are searched in, as <<from, to>>.
RiseHalf == IF RiseFirst THEN <<0, MidPoint>> ELSE <<MidPoint, n>>
FallHalf == IF RiseFirst THEN <<MidPoint, n>> ELSE <<0, MidPoint>>

\* The four np.where matches of lines 309-312 / 315-318, in order.
Searches ==
  << Matches(RiseHalf[1], RiseHalf[2], 10, TRUE),
     Matches(RiseHalf[1], RiseHalf[2], 90, TRUE),
     Matches(FallHalf[1], FallHalf[2], 90, FALSE),
     Matches(FallHalf[1], FallHalf[2], 10, FALSE) >>

Init ==
  /\ data \in Signals
  /\ pc = "bisect"
  /\ out = [rise |-> <<0, 0>>, fall |-> <<0, 0>>,
            riseFound |-> FALSE, fallFound |-> FALSE]

\* The whole call: the four searches, then return (rise, fall, True, True).
Bisect ==
  /\ pc = "bisect"
  /\ IF \E k \in 1..4 : Searches[k] = {}
       THEN /\ pc' = "IndexError"
            /\ UNCHANGED out
       ELSE /\ pc' = "done"
            /\ out' = [rise |-> <<Min(Searches[1]), Min(Searches[2])>>,
                       fall |-> <<Min(Searches[3]), Min(Searches[4])>>,
                       riseFound |-> TRUE, fallFound |-> TRUE]
  /\ UNCHANGED data

Terminated ==
  /\ pc \in {"done", "IndexError"}
  /\ UNCHANGED vars

Next == Bisect \/ Terminated

Spec == Init /\ [][Next]_vars

-----------------------------------------------------------------------------
TypeOK ==
  /\ data \in Signals
  /\ pc \in {"bisect", "done", "IndexError"}
  /\ out \in [rise : (0..(n - 1)) \X (0..(n - 1)),
              fall : (0..(n - 1)) \X (0..(n - 1)),
              riseFound : BOOLEAN, fallFound : BOOLEAN]

HasRise(d) == \E i, j \in DOMAIN d : i < j /\ Lo(d[i], 10) /\ Hi(d[j], 90)
HasFall(d) == \E i, j \in DOMAIN d : i < j /\ Hi(d[i], 90) /\ Lo(d[j], 10)

(***************************************************************************)
(* Spec 4.2: a flag is true only for a window that was found; a channel    *)
(* that never rose from below 10% to above 90% (or fell back) reports the  *)
(* transition not found.  The code returns True, True whenever the four    *)
(* searches matched anything, and a half that starts below 10% matches    *)
(* "first sample below 90%" and "below 10%" at its first sample.           *)
(***************************************************************************)
BisectionRealTransitions ==
  pc = "done" =>
    /\ out.riseFound => HasRise(data)
    /\ out.fallFound => HasFall(data)
=============================================================================
