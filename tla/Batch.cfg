\* run.py batch: options, command loop, analysis files and report.
CONSTANTS
  OptionLists <- MCOptionLists
  ParamFiles <- MCParamFiles
  AscParams <- MCAscParams
  Values <- MCValues
  Naming = "number"
  NumColumns = 5
  SwitchOutcomes <- MCSwitchOutcomes
SPECIFICATION Spec
INVARIANT TypeOK
PROPERTY RefinesBatchLog
