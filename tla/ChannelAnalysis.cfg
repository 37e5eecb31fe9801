\* The ringing analysis and two transition detectors on one 7-sample channel.
CONSTANTS
  Nominal = 10
  Signals <- MCChannelSignals
  Times <- MCChannelTimes
SPECIFICATION Spec
INVARIANTS
  TypeOK
  ExtremaWindowsOrdered
  ExtremaRealTransitions
  DetectorsAgree
