SPECIFICATION Spec
CONSTANTS
    Tasks = {1, 2}
    Cases <- AllCases
INVARIANTS
    TypeOK
    OwnTextInOrder
    CompleteWhenDone
    OneRequestPerId
    AssertionsHold
    NothingLeftBehind
PROPERTY
    EveryCallEnds
CHECK_DEADLOCK FALSE
