----------------------------- MODULE ModelDownload -----------------------------
(***************************************************************************)
(* One model of the list of MLCChat, from AppViewModel.kt: how the app     *)
(* config brings it into the list, AppViewModel.ModelState that downloads, *)
(* pauses, clears and deletes it, and the buttons of StartView.kt.         *)
(*                                                                         *)
(* Handlers run one at a time on the main thread; each download is a       *)
(* thread of its own that posts its end to the main thread.  The process   *)
(* may die at any step: an exception nobody catches (a network error in a  *)
(* download thread, a require that fails on the main thread) ends it, and  *)
(* so may the operating system.  Only the files survive.                   *)
(***************************************************************************)
EXTENDS Naturals, FiniteSets

CONSTANTS Files,                  \* the tokenizer files and the parameter shards
          ModelConfigFilename,
          ParamsConfigFilename,
          maxDownloadTasks,
          MaxKills                \* bound on the deaths that no handler causes

Names == Files \cup {ModelConfigFilename, ParamsConfigFilename}

ASSUME ConstantsAssumption ==
    /\ IsFiniteSet(Files)
    /\ Files # {}
    /\ ModelConfigFilename \notin Files
    /\ ParamsConfigFilename \notin Files
    /\ ModelConfigFilename # ParamsConfigFilename
    /\ maxDownloadTasks \in Nat \ {0}
    /\ MaxKills \in Nat

VARIABLES
    disk,              \* what is under each name of the model directory
    appConfig,         \* whether the app config file has a record of the model
    alive,             \* whether the process runs
    listed,            \* whether modelList has the ModelState
    modelInitState,
    remainingTasks,    \* tasks are identified with the file they fetch
    downloadingTasks,
    progress,
    total,
    thread,            \* the download thread of each name
    isDeletingModel,   \* whether StartView shows the clear and delete buttons
    chatting,          \* whether chatState.modelName is this model
    callback,          \* what runs when the chat has been terminated
    kills

files   == <<disk, appConfig>>
process == <<alive, listed, chatting, isDeletingModel, kills>>
tasks   == <<remainingTasks, downloadingTasks, progress, total>>
vars    == <<files, process, tasks, modelInitState, thread, callback>>

ModelInitState == {"Initializing", "Paused", "Downloading", "Pausing",
                   "Clearing", "Deleting", "Finished"}

\* The invariant that gives every variable its type.
TypeOK ==
    /\ disk \in [Names -> {"absent", "torn", "whole"}]
    /\ appConfig \in {"record", "none", "torn"} /\ alive \in BOOLEAN /\ listed \in BOOLEAN
    /\ chatting \in BOOLEAN /\ isDeletingModel \in BOOLEAN
    /\ modelInitState \in ModelInitState
    /\ remainingTasks \subseteq Files
    /\ downloadingTasks \subseteq Files
    /\ progress \in 0..Cardinality(Files) /\ total \in Nat
    /\ thread \in [Names -> {"none", "fetching", "posted"}]
    /\ callback \in {"none", "clear", "delete"}
    /\ kills \in 0..MaxKills

Exists(d, name) == d[name] # "absent"
Missing(d)      == {f \in Files : ~Exists(d, f)}
NoThread        == [name \in Names |-> "none"]

--------------------------------------------------------------------------------
(* The process starts and dies.                                             *)

\* A fresh install: the app config of the assets has the record, no file is there.
Init ==
    /\ disk = [name \in Names |-> "absent"]
    /\ appConfig = "record" /\ alive = FALSE /\ listed = FALSE
    /\ chatting = FALSE /\ isDeletingModel = FALSE
    /\ modelInitState = "Initializing"
    /\ remainingTasks = {} /\ downloadingTasks = {}
    /\ progress = 0 /\ total = 1
    /\ thread = NoThread
    /\ callback = "none"
    /\ kills = 0

\* What the death of the process leaves of its memory.
Die ==
    /\ alive' = FALSE /\ listed' = FALSE
    /\ chatting' = FALSE /\ isDeletingModel' = FALSE
    /\ modelInitState' = "Initializing"
    /\ remainingTasks' = {} /\ downloadingTasks' = {}
    /\ progress' = 0 /\ total' = 1
    /\ thread' = NoThread
    /\ callback' = "none"

\* Mutant: indexing counts one file too many.
SwitchToIndexingOffByOne(d) ==
    /\ remainingTasks' = remainingTasks \cup Missing(d)
    /\ total' = Cardinality(Files)
    /\ progress' = Cardinality(Files) - Cardinality(Missing(d)) + 1
    /\ modelInitState' = IF progress' < total' THEN "Paused" ELSE "Finished"

\* remainingTasks keeps the tasks it had: what was missing before still is.
SwitchToIndexing(d) ==
    /\ remainingTasks' = remainingTasks \cup Missing(d)
    /\ total' = Cardinality(Files)
    /\ progress' = Cardinality(Files) - Cardinality(Missing(d))
    /\ modelInitState' = IF progress' < total' THEN "Paused" ELSE "Finished"

\* The constructor of ModelState.
SwitchToInitializing ==
    IF Exists(disk, ParamsConfigFilename)
    THEN /\ SwitchToIndexing(disk)
         /\ thread' = NoThread
    ELSE /\ thread' = [NoThread EXCEPT ![ParamsConfigFilename] = "fetching"]
         /\ UNCHANGED <<modelInitState, remainingTasks, progress, total>>

AddModelConfig ==
    /\ listed' = TRUE
    /\ SwitchToInitializing

\* A config file that was cut short does not parse: the constructor of AppViewModel
\* throws, and the app does not start.
LoadAppConfig ==
    /\ ~alive
    /\ appConfig # "torn" /\ disk[ModelConfigFilename] # "torn"
    /\ alive' = TRUE
    /\ \/ /\ appConfig = "record" /\ Exists(disk, ModelConfigFilename)
          /\ AddModelConfig
       \/ /\ appConfig = "record" => ~Exists(disk, ModelConfigFilename)
          /\ listed' = FALSE
          /\ thread' = IF appConfig = "record"
                       THEN [NoThread EXCEPT ![ModelConfigFilename] = "fetching"]
                       ELSE NoThread
          /\ UNCHANGED <<modelInitState, remainingTasks, progress, total>>
    /\ UNCHANGED <<files, chatting, isDeletingModel, kills, downloadingTasks, callback>>

Killed ==
    /\ alive
    /\ kills < MaxKills
    /\ kills' = kills + 1
    /\ Die
    /\ UNCHANGED files

--------------------------------------------------------------------------------
(* Download threads.  A thread writes a temporary file, which nothing reads, *)
(* and renames it to the final name when it is whole.                        *)

\* Mutant: the thread writes to the final name, and may die with half a file there.
RenameTempInPlace(name) ==
    /\ thread[name] = "fetching"
    /\ \/ /\ disk' = [disk EXCEPT ![name] = "whole"]
          /\ thread' = [thread EXCEPT ![name] = "posted"]
       \/ /\ disk' = [disk EXCEPT ![name] = "torn"]
          /\ thread' = thread
    /\ UNCHANGED <<appConfig, process, tasks, modelInitState, callback>>

RenameTemp(name) ==
    /\ thread[name] = "fetching"
    /\ disk' = [disk EXCEPT ![name] = "whole"]
    /\ thread' = [thread EXCEPT ![name] = "posted"]
    /\ UNCHANGED <<appConfig, process, tasks, modelInitState, callback>>

\* The model config waits in the download directory: only the handler that
\* the thread posts copies it to the model directory.
FetchModelConfig ==
    /\ thread[ModelConfigFilename] = "fetching"
    /\ thread' = [thread EXCEPT ![ModelConfigFilename] = "posted"]
    /\ UNCHANGED <<files, process, tasks, modelInitState, callback>>

\* downloadModelConfig catches its exceptions: an alert, and no model this time.
DownloadModelConfigFails ==
    /\ thread[ModelConfigFilename] # "none"
    /\ thread' = [thread EXCEPT ![ModelConfigFilename] = "none"]
    /\ UNCHANGED <<files, process, tasks, modelInitState, callback>>

\* The handler that the thread posts copies the file and adds the model.
CopyModelConfig ==
    /\ thread[ModelConfigFilename] = "posted"
    /\ disk' = [disk EXCEPT ![ModelConfigFilename] = "whole"]
    /\ AddModelConfig
    /\ UNCHANGED <<appConfig, alive, chatting, isDeletingModel, kills,
                   downloadingTasks, callback>>

\* copyTo writes to the final name: a death on the way leaves half a model config.
CopyKilled ==
    /\ thread[ModelConfigFilename] = "posted"
    /\ kills < MaxKills
    /\ kills' = kills + 1
    /\ disk' = [disk EXCEPT ![ModelConfigFilename] = "torn"]
    /\ Die
    /\ UNCHANGED appConfig

LoadParamsConfig ==
    /\ thread[ParamsConfigFilename] = "posted"
    /\ thread' = [thread EXCEPT ![ParamsConfigFilename] = "none"]
    /\ SwitchToIndexing(disk)
    /\ UNCHANGED <<files, process, downloadingTasks, callback>>

--------------------------------------------------------------------------------
(* Removing files.  They go one by one: a death in between leaves a part.    *)

\* Every file but the model config is removed, then the directory is indexed.
Clear ==
    \/ /\ disk' = [name \in Names |-> IF name = ModelConfigFilename
                                      THEN disk[name] ELSE "absent"]
       /\ SwitchToIndexing(disk')
       /\ callback' = "none"
       /\ UNCHANGED <<appConfig, alive, listed, chatting, kills>>
    \/ /\ kills < MaxKills
       /\ kills' = kills + 1
       /\ \E gone \in SUBSET (Names \ {ModelConfigFilename}) :
             disk' = [name \in Names |-> IF name \in gone THEN "absent" ELSE disk[name]]
       /\ Die
       /\ UNCHANGED appConfig

\* deleteModel takes the model from the list and from the app config file.
DeleteModel ==
    /\ listed' = FALSE
    /\ appConfig' = "none"

\* The directory is removed, then the model.
Delete ==
    \/ /\ disk' = [name \in Names |-> "absent"]
       /\ DeleteModel
       /\ modelInitState' = "Deleting"
       /\ callback' = "none"
       /\ UNCHANGED <<alive, chatting, kills, remainingTasks, progress, total>>
    \/ /\ kills < MaxKills
       /\ kills' = kills + 1
       /\ \E gone \in SUBSET Names :
             /\ disk' = [name \in Names |-> IF name \in gone THEN "absent" ELSE disk[name]]
             /\ appConfig' \in IF gone = Names THEN {appConfig, "torn"} ELSE {appConfig}
       /\ Die

Remove(how) == IF how = "clear" THEN Clear ELSE Delete

\* Mutant: the files go without waiting for the downloads under way.
RequestRemovalAtOnce(how) ==
    /\ modelInitState \in {"Paused", "Finished", "Downloading"}
    /\ Remove(how)
    /\ UNCHANGED <<downloadingTasks, thread>>

\* handleClear and handleDelete.  While files are downloaded the removal waits
\* for the last of them; a chat with the model is terminated first, and the
\* request to terminate it throws when the chat cannot be interrupted.
RequestRemoval(how) ==
    \/ /\ \/ modelInitState = "Paused"
          \/ modelInitState = "Finished" /\ ~chatting
       /\ Remove(how)
       /\ UNCHANGED <<downloadingTasks, thread>>
    \/ /\ modelInitState = "Finished" /\ chatting
       /\ \/ Die /\ UNCHANGED <<files, kills>>
          \/ /\ modelInitState' = IF how = "clear" THEN "Clearing" ELSE "Deleting"
             /\ callback' = how
             /\ UNCHANGED <<files, alive, listed, chatting, kills, tasks, thread>>
    \/ /\ modelInitState = "Downloading"
       /\ modelInitState' = IF how = "clear" THEN "Clearing" ELSE "Deleting"
       /\ UNCHANGED <<files, alive, listed, chatting, kills, tasks, thread, callback>>
    \/ /\ modelInitState \notin {"Paused", "Finished", "Downloading"}   \* require
       /\ Die
       /\ UNCHANGED <<files, kills>>

--------------------------------------------------------------------------------
(* The buttons of StartView.                                                 *)

\* switchToDownloading starts the first tasks, up to the limit.
HandleStart ==
    /\ listed
    /\ modelInitState = "Paused"
    /\ modelInitState' = "Downloading"
    /\ \E started \in SUBSET remainingTasks :
          /\ Cardinality(started) =
                IF Cardinality(remainingTasks) < maxDownloadTasks
                THEN Cardinality(remainingTasks) ELSE maxDownloadTasks
          /\ downloadingTasks' = downloadingTasks \cup started
          /\ thread' = [name \in Names |-> IF name \in started THEN "fetching"
                                           ELSE thread[name]]
    /\ UNCHANGED <<files, process, remainingTasks, progress, total, callback>>

HandlePause ==
    /\ listed
    /\ modelInitState = "Downloading"
    /\ modelInitState' = "Pausing"
    /\ UNCHANGED <<files, process, tasks, thread, callback>>

\* The LaunchedEffect of StartView and its chat button.
StartChat ==
    /\ listed
    /\ modelInitState = "Finished"
    /\ chatting' = TRUE
    /\ UNCHANGED <<files, alive, listed, isDeletingModel, kills, tasks,
                   modelInitState, thread, callback>>

ShowDeleteButtons ==
    /\ listed
    /\ modelInitState \in {"Downloading", "Paused", "Finished"}
    /\ isDeletingModel' = TRUE
    /\ UNCHANGED <<files, alive, listed, chatting, kills, tasks,
                   modelInitState, thread, callback>>

CancelDelete ==
    /\ isDeletingModel
    /\ isDeletingModel' = FALSE
    /\ UNCHANGED <<files, alive, listed, chatting, kills, tasks,
                   modelInitState, thread, callback>>

PressRemove(how) ==
    /\ listed
    /\ isDeletingModel
    /\ isDeletingModel' = FALSE
    /\ RequestRemoval(how)

--------------------------------------------------------------------------------
(* Continuations on the main thread.                                         *)

\* The chat has been terminated: the callback of requestTerminateChat runs.
ChatTerminated ==
    /\ callback # "none"
    /\ Remove(callback)
    /\ isDeletingModel' = (isDeletingModel /\ listed')
    /\ UNCHANGED <<downloadingTasks, thread>>

\* The tasks among which handleNextDownload takes the first.
NextTasks(f) == remainingTasks \ (downloadingTasks \cup {f})

\* Mutant: the end of a download is not noted in downloadingTasks.
OthersAndItself(f) == downloadingTasks

\* downloadingTasks without the one that ended.
Others(f) == downloadingTasks \ {f}

\* Mutant: the other downloads under way are not waited for.
LastAny(f) == TRUE

\* Mutant: the tasks that have not been started are waited for too.
LastOfAll(f) == remainingTasks \ {f} = {}

\* downloadingTasks.isEmpty() after the removal.
Last(f) == Others(f) = {}

HandleFinishDownload(f) ==
    /\ thread[f] = "posted"
    /\ \/ /\ modelInitState \in {"Clearing", "Deleting"} /\ Last(f)
          /\ Remove(IF modelInitState = "Clearing" THEN "clear" ELSE "delete")
          /\ isDeletingModel' = (isDeletingModel /\ listed')
          /\ downloadingTasks' = Others(f)
          /\ thread' = [thread EXCEPT ![f] = "none"]
       \/ /\ \/ modelInitState \in {"Clearing", "Deleting"} /\ ~Last(f)
             \/ modelInitState \in {"Downloading", "Pausing"}
          /\ remainingTasks' = remainingTasks \ {f}
          /\ progress' = progress + 1
          /\ \/ /\ modelInitState = "Downloading" /\ NextTasks(f) # {}
                /\ \E next \in NextTasks(f) :
                      /\ downloadingTasks' = Others(f) \cup {next}
                      /\ thread' = [thread EXCEPT ![f] = "none", ![next] = "fetching"]
             \/ /\ modelInitState = "Downloading" => NextTasks(f) = {}
                /\ downloadingTasks' = Others(f)
                /\ thread' = [thread EXCEPT ![f] = "none"]
          /\ modelInitState' =
                CASE modelInitState = "Downloading" /\ remainingTasks' = {} /\ Last(f)
                        -> "Finished"
                  [] modelInitState = "Pausing" /\ Last(f) -> "Paused"
                  [] OTHER -> modelInitState
          /\ UNCHANGED <<files, process, total, callback>>

--------------------------------------------------------------------------------
Press == HandleStart \/ HandlePause \/ StartChat \/ ShowDeleteButtons \/ CancelDelete
         \/ PressRemove("clear") \/ PressRemove("delete")

Threads == FetchModelConfig \/ \E name \in Names \ {ModelConfigFilename} : RenameTemp(name)

Posted == CopyModelConfig \/ LoadParamsConfig \/ ChatTerminated
          \/ \E f \in Files : HandleFinishDownload(f)

Next == LoadAppConfig \/ Killed \/ CopyKilled \/ DownloadModelConfigFails
        \/ Press \/ Threads \/ Posted

Spec == Init /\ [][Next]_vars

\* A download that does not fail ends, and the main thread runs what is posted.
\* Nobody has to press a button, or to start the app again.
Fairness ==
    /\ \A name \in Names \ {ModelConfigFilename} : WF_vars(RenameTemp(name))
    /\ WF_vars(FetchModelConfig) /\ WF_vars(CopyModelConfig)
    /\ WF_vars(LoadParamsConfig) /\ WF_vars(ChatTerminated)
    /\ \A f \in Files : WF_vars(HandleFinishDownload(f))

FairSpec == Spec /\ Fairness

--------------------------------------------------------------------------------
(* Safety.                                                                   *)

Busy == {"Downloading", "Pausing", "Clearing", "Deleting"}

\* The set downloadingTasks is exactly the set of files with a thread, none of them
\* is done, no more than the limit, and they only run in the states that
\* handleFinishDownload accepts: its require, and those of handleNewDownload, hold.
DownloadsTracked ==
    /\ downloadingTasks = {f \in Files : thread[f] # "none"}
    /\ downloadingTasks \subseteq remainingTasks
    /\ Cardinality(downloadingTasks) <= maxDownloadTasks
    /\ downloadingTasks # {} => modelInitState \in Busy

\* The progress bar tells the truth: while the model is listed and indexed, what is
\* done and what remains add up to the total, and a task remains exactly when its
\* file is missing or its end has not been handled yet.
ProgressTrue ==
    listed /\ modelInitState # "Initializing" =>
        /\ progress + Cardinality(remainingTasks) = total
        /\ remainingTasks = Missing(disk) \cup {f \in Files : thread[f] = "posted"}

\* A model is offered for chat only with every tokenizer file and every shard on
\* disk and whole, whatever deaths and partial removals came before: file.exists()
\* in switchToIndexing is as good as a check of the content.
FinishedWhole ==
    modelInitState = "Finished" => \A f \in Files : disk[f] = "whole"

\* A file that was downloaded goes only after the user confirmed a removal, and at
\* a moment when no thread is about to put a file back.
RemovalConfirmed ==
    [][\A f \in Files :
          disk[f] = "whole" /\ disk'[f] # "whole" =>
              /\ isDeletingModel \/ modelInitState \in {"Clearing", "Deleting"}
              /\ \A g \in Files : thread[g] # "fetching"]_vars

--------------------------------------------------------------------------------
(* Liveness, under FairSpec.                                                 *)

\* Every download under way ends in a call of handleFinishDownload, or the process
\* dies: no order of pauses, removals and ends of other downloads strands a task.
DownloadEnds ==
    \A f \in Files : f \in downloadingTasks ~> f \notin downloadingTasks

\* A removal asked for while files are downloaded or the model is in a chat ends:
\* the model leaves the waiting state, or the process dies.
RemovalEnds ==
    /\ modelInitState \in {"Clearing", "Deleting"} /\ listed
    /\ downloadingTasks # {} \/ callback # "none"
    ~> modelInitState \notin {"Clearing", "Deleting"} \/ ~listed

--------------------------------------------------------------------------------
(* What the app says, and does not do.                                       *)

\* The button that leads to the state Downloading is described as "start downloading":
\* a model in that state has a download under way.
DownloadingDownloads ==
    modelInitState = "Downloading" => downloadingTasks # {}
================================================================================
