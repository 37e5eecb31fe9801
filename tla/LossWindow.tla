------------------------------ MODULE LossWindow ------------------------------
(***************************************************************************)
(* The switching-loss window search of analysis_tools.py: lines 107-117    *)
(* (turn-on) and 120-130 (turn-off) of analyze_data, and lines 246-257 /   *)
(* 261-272 of analyze_data_single in MATLAB scripts/analysis_tools.py.     *)
(*                                                                         *)
(* The union of two transition windows is widened backwards, then its end *)
(* grows in steps of 100 samples until a lookahead of three ringing        *)
(* periods is below the settle limit; the energy is integrated over the    *)
(* Python slice [start:stop].  The settle test only asks whether every     *)
(* sample of the lookahead is below the limit, so a channel is abstracted  *)
(* to the set of its samples at or above the limit.                        *)
(***************************************************************************)
EXTENDS Integers, Sequences, FiniteSets, FiniteSetsExt

CONSTANTS
  NumSamples,  \* the trace length after the 40 us cut
  Step,        \* the growth step of delta (100 in the code)
  Periods,     \* values of period, in samples (the ringing-based estimate or 50)
  Variant,     \* "analyze_data" or "analyze_data_single"
  TimeAxis,    \* time[k] of each sample, strictly increasing
  Partner,     \* the level of the other channel of the power product
  Below,       \* a sample of the settle channel below the limit
  Above        \* a sample of the settle channel at or above the limit

ASSUME NumSamples \in Nat \ {0}
ASSUME Step \in Nat \ {0}
ASSUME Periods \subseteq Nat
ASSUME Variant \in {"analyze_data", "analyze_data_single"}
ASSUME Below < Above

VARIABLES
  winA,       \* first transition window <<start, stop>> (rise_i or fall_i)
  winB,       \* second transition window (fall_v or rise_v)
  unsettled,  \* samples of the settle channel at or above the limit
  period,     \* the ringing period in samples
  start,      \* start of the integration slice
  stop,       \* stop of the integration slice
  delta,      \* the growth of stop
  energy,     \* E_turnon (or E_turnoff) once integrated, doubled
  pc

vars == <<winA, winB, unsettled, period, start, stop, delta, energy, pc>>

Samples == 0..(NumSamples - 1)

\* Transition windows as calculate_switching_times returns them; the
\* sentinel <<0, 0>> is among them.
Windows == { w \in Samples \X Samples : w[1] <= w[2] }

\* Python's normalisation of a slice bound for a sequence of NumSamples
\* elements: a negative bound counts from the end, then both are clipped.
PyBound(b) ==
  IF b < 0 THEN Max({b + NumSamples, 0}) ELSE Min({b, NumSamples})

\* The positions of seq[a:b].
PySlice(a, b) == PyBound(a)..(PyBound(b) - 1)

\* Lines 108-110: start = min(starts); stop = max(stops); start -= 2*(stop-start)
WidenAnalyzeData(a, b) ==
  LET s == Min({a[1], b[1]})
      e == Max({a[2], b[2]})
  IN <<s - 2 * (e - s), e>>

\* (Mutant: the single-channel widening without the max(1, start) clamp.)
WidenAnalyzeDataSingleNoClamp(a, b) ==
  LET s == Min({a[1], b[1]})
      e == Max({a[2], b[2]})
  IN <<s - (e - s), e>>

\* Lines 247-250: the single-channel variant widens by one window width and
\* clamps the start with max(1, start).
WidenAnalyzeDataSingle(a, b) ==
  LET s == Min({a[1], b[1]})
      e == Max({a[2], b[2]})
  IN <<Max({1, s - (e - s)}), e>>

Widen(a, b) ==
  IF Variant = "analyze_data" THEN WidenAnalyzeData(a, b)
                              ELSE WidenAnalyzeDataSingle(a, b)

(***************************************************************************)
(* calc_switch_loss (analysis_tools.py 223-227, the same in the MATLAB     *)
(* copy): E += (time[i+1]-time[i])/2.0 * (v[i]*c[i] + v[i+1]*c[i+1]) for i *)
(* in range(len(voltage)-1).  The model sums twice E, so that integer      *)
(* samples give an exact result.  LossFrom(.., i) is the loop from i on.    *)
(***************************************************************************)
RECURSIVE LossFromShortRange(_, _, _, _)
\* (Mutant: the loop stops one step early, range(len(voltage)-2).)
LossFromShortRange(time, voltage, current, i) ==
  IF i >= Len(voltage) - 2 THEN 0
  ELSE (time[i+2] - time[i+1]) * (voltage[i+1] * current[i+1] + voltage[i+2] * current[i+2])
       + LossFromShortRange(time, voltage, current, i + 1)

RECURSIVE LossFrom(_, _, _, _)
LossFrom(time, voltage, current, i) ==
  IF i >= Len(voltage) - 1 THEN 0
  ELSE (time[i+2] - time[i+1]) * (voltage[i+1] * current[i+1] + voltage[i+2] * current[i+2])
       + LossFrom(time, voltage, current, i + 1)

CalcSwitchLoss(time, voltage, current) == LossFrom(time, voltage, current, 0)

\* The samples of the settle channel, two levels either side of the limit.
SettleChannel == [k \in Samples |-> IF k \in unsettled THEN Above ELSE Below]

\* The other channel of the product.
PartnerChannel == [k \in Samples |-> Partner]

\* f[a:b] of a channel, as a sequence.
SliceOf(f, a, b) == [j \in 1..(PyBound(b) - PyBound(a)) |-> f[PyBound(a) + j - 1]]

\* Line 117 (E_turnon = calc_switch_loss(time[start:stop], data[.., col],
\* data[.., col+1])): the settle channel is the current there; line 254 of
\* analyze_data_single settles on the voltage.
SwitchLoss(a, b) ==
  IF Variant = "analyze_data"
    THEN CalcSwitchLoss(SliceOf(TimeAxis, a, b), SliceOf(PartnerChannel, a, b),
                        SliceOf(SettleChannel, a, b))
    ELSE CalcSwitchLoss(SliceOf(TimeAxis, a, b), SliceOf(SettleChannel, a, b),
                        SliceOf(PartnerChannel, a, b))

\* break; stop += delta; the energy over time[start:stop] (lines 115-117).
Break(d) ==
  /\ pc' = "done"
  /\ stop' = stop + d
  /\ energy' = SwitchLoss(start, stop + d)

Init ==
  /\ winA \in Windows
  /\ winB \in Windows
  /\ unsettled \in SUBSET Samples
  /\ period \in Periods
  /\ start = Widen(winA, winB)[1]
  /\ stop = Widen(winA, winB)[2]
  /\ delta = 0
  /\ energy = 0
  /\ pc = "grow"

\* (Mutant: the loop without its delta += 100.)
GrowNoIncrement ==
  /\ pc = "grow"
  /\ delta' = delta
  /\ LET ahead == PySlice(stop + delta', stop + delta' + 3 * period)
     IN CASE ahead = {} -> pc' = "ValueError" /\ UNCHANGED <<stop, energy>>
          [] ahead \cap unsettled = {} -> Break(delta')
          [] OTHER -> pc' = "grow" /\ UNCHANGED <<stop, energy>>
  /\ UNCHANGED <<winA, winB, unsettled, period, start>>

\* (Mutant: delta -= 100, searching backwards.)
GrowDecrement ==
  /\ pc = "grow"
  /\ delta' = delta - Step
  /\ LET ahead == PySlice(stop + delta', stop + delta' + 3 * period)
     IN CASE ahead = {} -> pc' = "ValueError" /\ UNCHANGED <<stop, energy>>
          [] ahead \cap unsettled = {} -> Break(delta')
          [] OTHER -> pc' = "grow" /\ UNCHANGED <<stop, energy>>
  /\ UNCHANGED <<winA, winB, unsettled, period, start>>

\* One iteration of while True: delta += 100; if max(data[lo:hi]) < limit:
\* break; then stop += delta (lines 111-116).  max() of an empty slice
\* raises ValueError.
Grow ==
  /\ pc = "grow"
  /\ delta' = delta + Step
  /\ LET ahead == PySlice(stop + delta', stop + delta' + 3 * period)
     IN CASE ahead = {} ->
               pc' = "ValueError" /\ UNCHANGED <<stop, energy>>
          [] ahead \cap unsettled = {} ->
               Break(delta')
          [] OTHER ->
               pc' = "grow" /\ UNCHANGED <<stop, energy>>
  /\ UNCHANGED <<winA, winB, unsettled, period, start>>

\* The search has ended: the loss is integrated over [start:stop], or
\* the exception propagates out of analyze_data.
Terminated ==
  /\ pc \in {"done", "ValueError"}
  /\ UNCHANGED vars

Next == Grow \/ Terminated

\* analyze_data runs the loop to its end: weak fairness on Grow.
Spec == Init /\ [][Next]_vars /\ WF_vars(Grow)

\* The samples calc_switch_loss integrates over.
Integrated == PySlice(start, stop)

-----------------------------------------------------------------------------
TypeOK ==
  /\ winA \in Windows /\ winB \in Windows
  /\ unsettled \subseteq Samples
  /\ period \in Periods
  /\ start \in Int /\ stop \in Int
  /\ delta \in Nat
  /\ energy \in Int
  /\ pc \in {"grow", "done", "ValueError"}

\* The samples from the earlier start to the later stop of the two
\* transition windows.
Span == Min({winA[1], winB[1]})..Max({winA[2], winB[2]})

(***************************************************************************)
(* When the search ends normally, the slice the energy is integrated over  *)
(* contains both transition windows, so E_turnon / E_turnoff include the   *)
(* whole switching event.  Sample 0 is exempt: analyze_data_single clamps  *)
(* the start to 1.  A negative start is taken by Python as counting from   *)
(* the end of the trace, which can leave the slice wrapped or empty.       *)
(***************************************************************************)
CoversTransitions ==
  pc = "done" => Span \ {0} \subseteq Integrated

\* The end of the later transition window: stop before the search.
WindowEnd == Max({winA[2], winB[2]})

(***************************************************************************)
(* Spec 4.5: stop grows until the channel settles over a lookahead of     *)
(* three ringing periods.  A channel that is already settled from the end  *)
(* of the transition windows on, with room for one growth step before the  *)
(* end of the trace, is integrated; the search does not raise.  The code   *)
(* takes the lookahead as data[stop+delta : stop+delta+3*period], which is  *)
(* empty when period is 0, and max() of it raises ValueError.              *)
(***************************************************************************)
SettledNeverRaises ==
  /\ unsettled \cap (WindowEnd..(NumSamples - 1)) = {}
  /\ WindowEnd + Step < NumSamples
  => pc # "ValueError"

\* time[last] - time[first] of the samples integrated; 0 for fewer than two.
Duration == IF Integrated = {} THEN 0
            ELSE TimeAxis[Max(Integrated)] - TimeAxis[Min(Integrated)]

(***************************************************************************)
(* Spec 8: the loss integrator on a constant voltage V and a constant     *)
(* current I over an interval of length T returns V*I*T exactly.  When the *)
(* window search breaks and calc_switch_loss runs on time[start:stop] and  *)
(* channels that are constant over that slice, E_turnon is Partner times   *)
(* the settle level times the time the slice spans, on a non-uniform time  *)
(* axis, for a slice clipped at the end of the trace or of one sample.     *)
(***************************************************************************)
ConstantPowerClosedForm ==
  pc = "done" /\ (Integrated \subseteq unsettled \/ Integrated \cap unsettled = {})
    => energy = 2 * Partner * (IF Integrated \subseteq unsettled THEN Above ELSE Below)
                  * Duration

(***************************************************************************)
(* The grow-until-settled loop of spec 4.5 always ends: either the         *)
(* lookahead settles or it runs off the trace and max() raises.            *)
(***************************************************************************)
SearchEnds == <>(pc \in {"done", "ValueError"})
=============================================================================
