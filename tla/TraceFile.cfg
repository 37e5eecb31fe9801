\* One output file: raw file cleaning, reading back, the 40 us cut and the header parameters.
CONSTANTS
  RawFiles <- MCRawFiles
  Axes <- MCAxes
  ParamLists <- MCParamLists
  Numbering <- MCNumbering
  Sorting <- MCSorting
  CutTime = 40
SPECIFICATION Spec
INVARIANTS
  TypeOK
  TableFaithful
  TableWrittenUnlessMalformed
  AnalysisInputFaithful
