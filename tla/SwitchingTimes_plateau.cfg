CONSTANTS
  Nominal = 10
  Signals <- MCAll
SPECIFICATION Spec
INVARIANT WindowsOrdered
