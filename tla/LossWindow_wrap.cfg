\* analyze_data's window search (analysis_tools.py), which does not clamp start.
CONSTANTS
  NumSamples = 8
  Step = 2
  Periods <- MCPeriods
  TimeAxis <- MCTimeAxis
  Partner = 3
  Below = 1
  Above = 2
  Variant = "analyze_data"
SPECIFICATION Spec
INVARIANT
  CoversTransitions
