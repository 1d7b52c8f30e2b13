SPECIFICATION Spec
CONSTANTS
  NCpus = 2
  BUF_SIZE = 2
  Sizes <- MCSizes
  MaxRecords = 3
  Nil = nil
INVARIANTS LinesAreSamples NoSampleSkipped
PROPERTY ProfilerEnds
CHECK_DEADLOCK FALSE
