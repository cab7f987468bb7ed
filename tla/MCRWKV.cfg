SPECIFICATION Spec
CONSTANTS
  Tokens = {a, b}
  Seqs = {s1, s2}
  Slots = {m1, m2}
  RawConfigs <- MCRawConfigs
  MaxLen = 3
  MaxChunk = 2
SYMMETRY MCSymmetry
INVARIANTS
  LogitsOfText
  RollbackExact
CHECK_DEADLOCK FALSE
