\* A failure analysing one trace ends the whole batch (spec section 7).
CONSTANTS
  OptionLists <- MCOptionLists
  ParamFiles <- MCParamFiles
  AscParams <- MCAscParams
  Values <- MCValues
  Naming = "number"
  NumColumns = 5
  SwitchOutcomes <- MCSwitchOutcomes
SPECIFICATION Spec
INVARIANT BatchCompletes
