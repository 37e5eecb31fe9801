\* analyze_data_single's window search (MATLAB scripts/analysis_tools.py).
CONSTANTS
  NumSamples = 8
  Step = 2
  Periods <- MCPeriods
  TimeAxis <- MCTimeAxis
  Partner = 3
  Below = 1
  Above = 2
  Variant = "analyze_data_single"
SPECIFICATION Spec
INVARIANTS
  TypeOK
  CoversTransitions
  ConstantPowerClosedForm
PROPERTY
  SearchEnds
