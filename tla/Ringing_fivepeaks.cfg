\* calculate_ringing of analysis_tools.py, which needs five maxima.
CONSTANTS
  Nominal = 10
  Signals <- MCRingSignals
  Times <- MCTimes
  Variant = "analysis_tools"
SPECIFICATION Spec
INVARIANT
  RingingSentinel
