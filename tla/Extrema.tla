------------------------------- MODULE Extrema -------------------------------
(***************************************************************************)
(* The sampled-signal primitives of analysis_tools.py.                     *)
(*                                                                         *)
(* A signal is a function from numpy's 0-based sample positions to         *)
(* integer sample values.  The thresholds of the code are fractions of a   *)
(* nominal value (0.1*nominal, 0.9*nominal, ...); they are compared here   *)
(* in percent, exactly, which is what the floats do for the nominal values *)
(* the models use (0.1*10 = 1.0, 0.9*10 = 9.0, ...).                       *)
(***************************************************************************)
EXTENDS Integers, SequencesExt, FiniteSetsExt

\* The last sample position of signal d.
LastIdx(d) == Cardinality(DOMAIN d) - 1

\* local_extrema: a maximum is strictly above both neighbours, a boundary
\* sample only needs to be strictly above its one neighbour (the np.r_
\* padding with True).
LocalMax(d) ==
  { i \in DOMAIN d : /\ (i = 0 \/ d[i] > d[i-1])
                     /\ (i = LastIdx(d) \/ d[i] > d[i+1]) }

LocalMin(d) ==
  { i \in DOMAIN d : /\ (i = 0 \/ d[i] < d[i-1])
                     /\ (i = LastIdx(d) \/ d[i] < d[i+1]) }

\* The positions of S, a set of sample positions of d, in ascending order.
InOrder(d, S) == SelectSeq([k \in 1..(LastIdx(d) + 1) |-> k - 1], LAMBDA i : i \in S)

\* calculate_switching_times: np.sort(np.concatenate([local_min, local_max])),
\* as a 1-based TLA+ sequence of sample positions.
SortedExtrema(d) == InOrder(d, LocalMin(d) \cup LocalMax(d))

\* v > pct% of nominal and v < pct% of nominal, e.g. data[x] > 0.9*nominal.
Above(v, pct, nominal) == 100 * v > pct * nominal
Below(v, pct, nominal) == 100 * v < pct * nominal

\* The local maxima of spec section 4.1: a sample not exceeded by either
\* neighbour.  This is the reference the code's strict test is held to.
SpecLocalMax(d) ==
  { i \in DOMAIN d : /\ (i = 0 \/ d[i] >= d[i-1])
                     /\ (i = LastIdx(d) \/ d[i] >= d[i+1]) }
=============================================================================
