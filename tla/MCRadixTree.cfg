SPECIFICATION Spec
CONSTANTS
    SeqIds = {s1, s2, s3}
    Tokens = {a, b}
    Capacity = 2
    BlockSize = 4
    MaxLength = 3
SYMMETRY Symmetry
VIEW PageView
INVARIANTS WellFormed MatchIsLongest
 
