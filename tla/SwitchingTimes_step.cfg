CONSTANTS
  Nominal = 10
  Signals <- MCSteps
SPECIFICATION Spec
INVARIANT StepRiseReported
