CONSTANTS
  Nominal = 10
  Signals <- MCGeneric
SPECIFICATION Spec
INVARIANT NoIndexError
