------------------------------- MODULE Ringing -------------------------------
(***************************************************************************)
(* calculate_ringing and the code of analyze_data that turns its result    *)
(* into the lookahead period (analysis_tools.py lines 97-105 and 232-250;  *)
(* MATLAB scripts/analysis_tools.py lines 118-126 and 339-363).            *)
(*                                                                         *)
(* Frequencies, logarithms and NaN are abstracted to what the caller       *)
(* tells apart: whether a frequency came out (or the IndexError fallback   *)
(* of period 50 was taken), the period in samples it gives, how many peaks *)
(* it used and whether they were all above nominal (the precondition of    *)
(* log(voltage_peaks[i+1] / voltage_peaks[i]) being a finite decay).       *)
(* Times are integers: mean(time_diff) of k peaks is                       *)
(* (t_last - t_first) / (k - 1), compared exactly.                         *)
(***************************************************************************)
EXTENDS Integers, Sequences, Extrema

CONSTANTS
  Signals,   \* the voltage channels
  Times,     \* the time axes: strictly increasing functions on the samples
  Nominal,   \* input_voltage
  Variant    \* "analysis_tools" or "matlab_analysis_tools"

ASSUME Variant \in {"analysis_tools", "matlab_analysis_tools"}

VARIABLES
  data,
  time,
  pc,
  out     \* [fallback, period, peaks, aboveNominal]

vars == <<data, time, pc, out>>

\* The code's fallback period of 50 samples.
FallbackPeriod == 50

n == LastIdx(data) + 1

\* first_peak = np.where(data == max(data))[0][0]
FirstPeak(d) ==
  LET top == Max({d[i] : i \in DOMAIN d})
  IN Min({i \in DOMAIN d : d[i] = top})

\* local_extrema(data[first_peak:])[1] shifted back by first_peak, in order.
PeaksAfter(d, f) ==
  LET suffix == [j \in 0..(LastIdx(d) - f) |-> d[f + j]]
      S      == { f + j : j \in LocalMax(suffix) }
  IN InOrder(d, S)

\* The first m elements of s: s[0:m].
Take(s, m) == SubSeq(s, 1, IF m < Len(s) THEN m ELSE Len(s))

\* Every peak used lies above nominal, so each voltage_peaks[i] > 0.
AboveNominal(d, idx) == \A i \in 1..Len(idx) : d[idx[i]] > Nominal

\* (Mutant: the time of the last matching sample instead of its index.)
PeriodOfTime(t, idx) ==
  LET k    == Len(idx)
      span == t[idx[k]] - t[idx[1]]
  IN t[Max({j \in DOMAIN t : (k - 1) * (t[j] - t[0]) < span})]

\* period = np.where(time < time[0] + 1/ringing_freq)[0][-1] for k >= 2
\* peaks, with 1/ringing_freq = (t_last - t_first) / (k - 1).
PeriodOf(t, idx) ==
  LET k    == Len(idx)
      span == t[idx[k]] - t[idx[1]]
  IN Max({j \in DOMAIN t : (k - 1) * (t[j] - t[0]) < span})

Fallback == [fallback |-> TRUE, period |-> FallbackPeriod, peaks |-> 0,
             aboveNominal |-> TRUE]

\* analysis_tools.py: the first 5 maxima from the global peak, unfiltered;
\* time_diff indexes peak_times[i+1] for i < 4, an IndexError (caught by
\* the caller, lines 100-103) with fewer than 5.
RingingAnalysisTools(d, t) ==
  LET idx == Take(PeaksAfter(d, FirstPeak(d)), 5)
  IN IF Len(idx) < 5
       THEN Fallback
       ELSE [fallback |-> FALSE, period |-> PeriodOf(t, idx), peaks |-> 5,
             aboveNominal |-> AboveNominal(d, idx)]

\* (Mutant: the peaks taken without the above-nominal filter.)
RingingMatlabUnfiltered(d, t) ==
  LET idx == Take(PeaksAfter(d, FirstPeak(d)), 8)
  IN IF Len(idx) < 2
       THEN Fallback
       ELSE [fallback |-> FALSE, period |-> PeriodOf(t, idx),
             peaks |-> Len(idx), aboveNominal |-> AboveNominal(d, idx)]

\* MATLAB scripts: the first 8 maxima, of which those above nominal are
\* kept.  With fewer than 2 the mean of an empty time_diff is NaN, the
\* np.where of the caller is empty and its [-1] raises the IndexError the
\* caller turns into the fallback.
RingingMatlab(d, t) ==
  LET first8 == Take(PeaksAfter(d, FirstPeak(d)), 8)
      idx    == SelectSeq(first8, LAMBDA i : d[i] > Nominal)
  IN IF Len(idx) < 2
       THEN Fallback
       ELSE [fallback |-> FALSE, period |-> PeriodOf(t, idx),
             peaks |-> Len(idx), aboveNominal |-> AboveNominal(d, idx)]

Init ==
  /\ data \in Signals
  /\ time \in Times
  /\ pc = "analyze"
  /\ out = Fallback

\* Lines 97-105: the try around calculate_ringing and the period.
Analyze ==
  /\ pc = "analyze"
  /\ out' = IF Variant = "analysis_tools" THEN RingingAnalysisTools(data, time)
                                          ELSE RingingMatlab(data, time)
  /\ pc' = "done"
  /\ UNCHANGED <<data, time>>

Terminated == pc = "done" /\ UNCHANGED vars

Next == Analyze \/ Terminated

Spec == Init /\ [][Next]_vars

-----------------------------------------------------------------------------
TypeOK ==
  /\ data \in Signals /\ time \in Times
  /\ pc \in {"analyze", "done"}
  /\ out \in [fallback : BOOLEAN, period : DOMAIN time \cup {FallbackPeriod},
              peaks : 0..8,
              aboveNominal : BOOLEAN]

\* N of spec 4.4 as each variant fixes it.
NumberOfPeaks == IF Variant = "analysis_tools" THEN 5 ELSE 8

\* The peaks spec 4.4 estimates from: the first N local maxima after the
\* global peak, of those the ones above nominal.
UsablePeaks(d) ==
  { i \in ToSet(Take(PeaksAfter(d, FirstPeak(d)), NumberOfPeaks)) :
      d[i] > Nominal }

(***************************************************************************)
(* Spec 4.4: the ringing analysis falls back to the zero sentinel (and the *)
(* caller to the default period) exactly when fewer than two usable peaks  *)
(* exist; with two or more it estimates a frequency.  The code reaches the *)
(* fallback only through an IndexError, raised in calculate_ringing or in  *)
(* the caller's np.where on a NaN frequency.                               *)
(***************************************************************************)
RingingSentinel ==
  pc = "done" => (out.fallback <=> Cardinality(UsablePeaks(data)) < 2)
=============================================================================
