SPECIFICATION Spec
CONSTANTS
    Files = {f1, f2, f3, f4}
    ModelConfigFilename = modelConfig
    ParamsConfigFilename = paramsConfig
    maxDownloadTasks = 3
    MaxKills = 0
INVARIANT DownloadingDownloads
CHECK_DEADLOCK FALSE
