\* The bisection detector reports a transition the signal never made.
CONSTANTS
  Nominal = 10
  Signals <- MCAll
SPECIFICATION Spec
INVARIANT
  BisectionRealTransitions
