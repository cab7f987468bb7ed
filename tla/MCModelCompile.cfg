SPECIFICATION Spec
CONSTANTS
  ChunkCap = 4
  Cases <- AllCases
INVARIANTS NeverWrong  ChunkFitsWindow
PROPERTIES ServesWhatItAccepts ReloadsAsWritten
CHECK_DEADLOCK FALSE
