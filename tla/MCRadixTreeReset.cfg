SPECIFICATION Spec
CONSTANTS
    SeqIds = {s1, s2}
    Tokens = {a, b}
    Capacity = 2
    BlockSize = 4
    MaxLength = 3
INVARIANT PagesAccounted
