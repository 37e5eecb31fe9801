\* analyze_data_single's window search on a channel already settled after its transitions.
CONSTANTS
  NumSamples = 8
  Step = 2
  Periods <- MCPeriods
  TimeAxis <- MCTimeAxis
  Partner = 3
  Below = 1
  Above = 2
  Variant = "analyze_data_single"
SPECIFICATION Spec
INVARIANT
  SettledNeverRaises
