SPECIFICATION FairSpec
CONSTANTS
    Models = {m1, m2}
    NoModel = none
    News = {n1, n2}
    Presses = {"news", "generate", "image", "reset", "reload", "terminate"}
    MaxPresses = 4
    MaxGens = 3
    MaxFailures = 1
INVARIANTS TypeOK TransitionUnderWay EngineMatchesName  
PROPERTY TransitionEnds
\* The user may stop pressing, and a crash ends the app.
CHECK_DEADLOCK FALSE
