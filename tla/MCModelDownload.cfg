SPECIFICATION FairSpec
CONSTANTS
    Files = {f1, f2, f3, f4}
    ModelConfigFilename = modelConfig
    ParamsConfigFilename = paramsConfig
    maxDownloadTasks = 3
    MaxKills = 2
INVARIANTS TypeOK DownloadsTracked ProgressTrue FinishedWhole
PROPERTIES RemovalConfirmed DownloadEnds RemovalEnds
\* A deleted model has no further step.
CHECK_DEADLOCK FALSE
