SPECIFICATION Spec
CONSTANTS
    Models = {m1}
    NoModel = none
    News = {n1}
    Presses = {"generate", "reset", "reload"}
    MaxPresses = 3
    MaxGens = 1
    MaxFailures = 0
INVARIANT EpilogueAfterInterruption
\* The user may stop pressing, and a crash ends the app.
CHECK_DEADLOCK FALSE
