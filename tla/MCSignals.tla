------------------------------ MODULE MCSignals ------------------------------
(***************************************************************************)
(* Input classes shared by the detector models.  With Nominal = 10 the     *)
(* thresholds are 1 (10%), 4, 6 and 9 (90%); the sample values sit on both *)
(* sides of each, never on one, and include an overshoot (12).             *)
(***************************************************************************)
EXTENDS Integers

\* Every signal of k samples over the value set V.
AllSignals(k, V) == [0..(k-1) -> V]

\* Signals with no two equal neighbouring samples: what a simulator's float
\* output almost always is, and what leaves no plateau between two strict
\* extrema.
GenericSignals(k, V) ==
  { d \in AllSignals(k, V) : \A i \in 0..(k-2) : d[i] # d[i+1] }

\* Non-decreasing steps from below 10% of 10 to above 90%.
StepSignals(k, V) ==
  { d \in AllSignals(k, V) :
      /\ \A i \in 0..(k-2) : d[i] <= d[i+1]
      /\ d[0] < 1 /\ d[k-1] > 9 }

MCValues == {0, 3, 5, 7, 10, 12}
=============================================================================
