------------------------- MODULE ModelDownloadProofs -------------------------
(***************************************************************************)
(* Proofs about ModelDownload, for every set of files, every limit of      *)
(* downloads at a time and every number of deaths of the process.          *)
(***************************************************************************)
EXTENDS ModelDownload, FiniteSetTheorems, TLAPS

Fetched == {f \in Files : thread[f] = "posted"}

\* The types the invariant needs.
Types ==
    /\ disk \in [Names -> {"absent", "torn", "whole"}]
    /\ modelInitState \in ModelInitState
    /\ remainingTasks \subseteq Files /\ downloadingTasks \subseteq Files
    /\ thread \in [Names -> {"none", "fetching", "posted"}]
    /\ callback \in {"none", "clear", "delete"}

\* What a process that does not run has in memory.
Dead ==
    /\ ~listed /\ modelInitState = "Initializing" /\ thread = NoThread /\ callback = "none"
    /\ remainingTasks = {} /\ downloadingTasks = {}

\* Threads: of files while they are downloaded, of the two configs while the
\* model has not been indexed.
ThreadsKnown ==
    /\ downloadingTasks = {f \in Files : thread[f] # "none"}
    /\ downloadingTasks # {} => modelInitState \in Busy /\ listed /\ callback = "none"
    /\ thread[ParamsConfigFilename] # "none" => listed /\ modelInitState = "Initializing"
    /\ thread[ModelConfigFilename] # "none" => ~listed /\ modelInitState = "Initializing"

\* States of the model, its tasks and its files.
FilesKnown ==
    /\ modelInitState = "Initializing" => remainingTasks = {}
    /\ ~listed => modelInitState \in {"Initializing", "Deleting"}
    /\ listed /\ modelInitState # "Initializing" =>
           remainingTasks = Missing(disk) \cup Fetched
    /\ callback # "none" => listed /\ modelInitState \in {"Clearing", "Deleting"}
    /\ \A f \in Files : disk[f] # "torn" /\ (thread[f] = "posted" => disk[f] = "whole")
    /\ modelInitState = "Finished" => Missing(disk) = {}

\* The inductive invariant.
IInv ==
    /\ Types
    /\ alive \/ Dead
    /\ ThreadsKnown
    /\ FilesKnown
    /\ downloadingTasks \subseteq remainingTasks
    /\ Cardinality(downloadingTasks) <= maxDownloadTasks

------------------------------------------------------------------------------
\* A name is a file, the model config or the params config, and only one of them.
LEMMA NamesApart ==
    /\ ModelConfigFilename \in Names /\ ParamsConfigFilename \in Names /\ Files \subseteq Names
    /\ ModelConfigFilename \notin Files /\ ParamsConfigFilename \notin Files
    /\ ModelConfigFilename # ParamsConfigFilename
    /\ \A name \in Names : name \in Files \/ name = ModelConfigFilename
                             \/ name = ParamsConfigFilename
  BY ConstantsAssumption DEF Names

\* switchToIndexing compares two counts; they are equal exactly when no file is
\* missing.
LEMMA Indexed ==
  ASSUME NEW d, SwitchToIndexing(d)
  PROVE  /\ modelInitState' = IF Missing(d) = {} THEN "Finished" ELSE "Paused"
         /\ remainingTasks' = remainingTasks \cup Missing(d)
<1>1. IsFiniteSet(Files) /\ Missing(d) \subseteq Files
  BY ConstantsAssumption DEF Missing
<1>2. /\ IsFiniteSet(Missing(d)) /\ Cardinality(Missing(d)) \in Nat
      /\ Cardinality(Files) \in Nat /\ Cardinality(Missing(d)) <= Cardinality(Files)
  BY <1>1, FS_Subset, FS_CardinalityType
<1>3. Cardinality(Missing(d)) = 0 <=> Missing(d) = {}
  BY <1>2, FS_EmptySet
<1> QED BY <1>2, <1>3 DEF SwitchToIndexing

\* A listed model that is not busy, or waits for a chat to end, has no thread.
LEMMA Idle ==
  ASSUME IInv, listed,
         modelInitState \in {"Paused", "Finished"} \/ callback # "none"
  PROVE  thread = NoThread /\ downloadingTasks = {}
<1>1. downloadingTasks = {} /\ modelInitState # "Initializing"
  BY DEF IInv, ThreadsKnown, FilesKnown, Busy
<1>2. \A name \in Names : thread[name] = "none"
  BY <1>1, NamesApart DEF IInv, ThreadsKnown
<1> QED BY <1>1, <1>2 DEF IInv, Types, NoThread

\* No download counts as a full set of them.
LEMMA NoDownload == Cardinality({}) <= maxDownloadTasks
  BY FS_EmptySet, ConstantsAssumption

\* After a death the files that are left are whole.
LEMMA DieStep ==
  ASSUME IInv, Die, disk' \in [Names -> {"absent", "torn", "whole"}],
         \A f \in Files : disk'[f] # "torn"
  PROVE  IInv'
<1>1. \A name \in Names : thread'[name] = "none"
  BY DEF Die, NoThread
<1>2. Types' /\ Dead'
  BY DEF Die, Types, Dead, ModelInitState, NoThread
<1>3. ThreadsKnown'
  BY <1>1, NamesApart DEF Die, ThreadsKnown
<1>4. FilesKnown'
  BY <1>1, NamesApart DEF Die, FilesKnown
<1>5. (downloadingTasks \subseteq remainingTasks)'
      /\ (Cardinality(downloadingTasks) <= maxDownloadTasks)'
  BY NoDownload DEF Die
<1> QED BY <1>2, <1>3, <1>4, <1>5 DEF IInv

\* Removing files while no download is under way, and dying on the way.
LEMMA RemoveStep ==
  ASSUME IInv, listed, NEW how \in {"clear", "delete"}, Remove(how),
         thread' = NoThread, downloadingTasks' = {}
  PROVE  IInv'
<1>1. \A name \in Names : thread'[name] = "none"
  BY DEF NoThread
<1>2. thread' \in [Names -> {"none", "fetching", "posted"}]
  BY DEF NoThread
<1>3. alive
  BY DEF IInv, Dead
<1>4. (Cardinality(downloadingTasks) <= maxDownloadTasks)'
  BY NoDownload
<1>5. CASE Die /\ disk' \in [Names -> {"absent", "torn", "whole"}]
           /\ \A f \in Files : disk'[f] # "torn"
  BY <1>5, DieStep
<1>6. CASE /\ disk' = [name \in Names |-> IF name = ModelConfigFilename
                                          THEN disk[name] ELSE "absent"]
           /\ SwitchToIndexing(disk')
           /\ callback' = "none"
           /\ UNCHANGED <<appConfig, alive, listed, chatting, kills>>
  <2>1. Missing(disk') = Files /\ Files # {}
    BY <1>6, NamesApart, ConstantsAssumption DEF Missing, Exists
  <2>2. modelInitState' = "Paused" /\ remainingTasks' = Files
    BY <1>6, <2>1, Indexed DEF IInv, Types
  <2>3. Types'
    BY <1>2, <1>6, <2>2 DEF IInv, Types, ModelInitState
  <2>4. ThreadsKnown'
    BY <1>1, <1>6, NamesApart DEF ThreadsKnown
  <2>5. Fetched' = {}
    BY <1>1, NamesApart DEF Fetched
  <2>6. FilesKnown'
    BY <1>1, <1>6, <2>1, <2>2, <2>5, NamesApart DEF FilesKnown
  <2> QED BY <1>3, <1>4, <1>6, <2>3, <2>4, <2>6 DEF IInv
<1>7. CASE /\ disk' = [name \in Names |-> "absent"]
           /\ DeleteModel
           /\ modelInitState' = "Deleting"
           /\ callback' = "none"
           /\ UNCHANGED <<alive, chatting, kills, remainingTasks, progress, total>>
  <2>1. Types'
    BY <1>2, <1>7 DEF IInv, Types, ModelInitState
  <2>2. ThreadsKnown'
    BY <1>1, NamesApart DEF ThreadsKnown
  <2>3. FilesKnown'
    BY <1>1, <1>7, NamesApart DEF FilesKnown, DeleteModel
  <2> QED BY <1>3, <1>4, <1>7, <2>1, <2>2, <2>3 DEF IInv
<1>8. ASSUME NEW gone \in SUBSET Names,
             disk' = [name \in Names |-> IF name \in gone THEN "absent" ELSE disk[name]]
      PROVE  disk' \in [Names -> {"absent", "torn", "whole"}] /\ \A f \in Files : disk'[f] # "torn"
  BY <1>8, NamesApart DEF IInv, Types, FilesKnown
<1>9. CASE how = "clear"
  <2>1. Clear
    BY <1>9 DEF Remove
  <2> QED BY <1>5, <1>6, <1>8, <2>1 DEF Clear
<1>10. CASE how = "delete"
  <2>1. Delete
    BY <1>10 DEF Remove
  <2> QED BY <1>5, <1>7, <1>8, <2>1 DEF Delete
<1> QED BY <1>9, <1>10

------------------------------------------------------------------------------
\* The constructor of ModelState, at the start and after the model config has come.
LEMMA AddStep ==
  ASSUME IInv, AddModelConfig, modelInitState = "Initializing", callback = "none",
         downloadingTasks = {}, downloadingTasks' = {}, callback' = "none", alive',
         disk' \in [Names -> {"absent", "torn", "whole"}], \A f \in Files : disk'[f] = disk[f]
  PROVE  IInv'
<1>1. /\ remainingTasks = {} /\ Missing(disk') = Missing(disk)
      /\ \A f \in Files : disk'[f] # "torn"
  BY DEF IInv, FilesKnown, Missing, Exists
<1>2. (Cardinality(downloadingTasks) <= maxDownloadTasks)'
      /\ (downloadingTasks \subseteq remainingTasks)'
  BY NoDownload
<1>3. CASE SwitchToIndexing(disk) /\ thread' = NoThread
  <2>1. \A name \in Names : thread'[name] = "none"
    BY <1>3 DEF NoThread
  <2>2. /\ modelInitState' = IF Missing(disk) = {} THEN "Finished" ELSE "Paused"
        /\ remainingTasks' = Missing(disk)
    BY <1>1, <1>3, Indexed
  <2>3. Types'
    BY <1>3, <2>2 DEF Types, ModelInitState, NoThread, Missing
  <2>4. ThreadsKnown'
    BY <2>1, NamesApart DEF ThreadsKnown
  <2>5. Fetched' = {}
    BY <2>1, NamesApart DEF Fetched
  <2>6. FilesKnown'
    BY <1>1, <2>1, <2>2, <2>5, NamesApart DEF FilesKnown, AddModelConfig
  <2> QED BY <1>2, <2>3, <2>4, <2>6 DEF IInv
<1>4. CASE /\ thread' = [NoThread EXCEPT ![ParamsConfigFilename] = "fetching"]
           /\ UNCHANGED <<modelInitState, remainingTasks, progress, total>>
  <2>1. /\ \A f \in Files : thread'[f] = "none"
        /\ thread'[ModelConfigFilename] = "none"
    BY <1>4, NamesApart DEF NoThread
  <2>2. Types'
    BY <1>1, <1>4, NamesApart DEF Types, ModelInitState, NoThread
  <2>3. ThreadsKnown'
    BY <1>4, <2>1 DEF ThreadsKnown, AddModelConfig
  <2>4. FilesKnown'
    BY <1>1, <1>4, <2>1 DEF FilesKnown, AddModelConfig
  <2> QED BY <1>2, <2>2, <2>3, <2>4 DEF IInv
<1> QED BY <1>3, <1>4 DEF AddModelConfig, SwitchToInitializing

\* The app starts with the files an earlier process has left.
LEMMA LoadStep == ASSUME IInv, LoadAppConfig PROVE IInv'
<1>1. Dead
  BY DEF IInv, LoadAppConfig
<1>2. /\ alive' /\ callback' = callback /\ downloadingTasks' = downloadingTasks
      /\ disk' = disk
  BY DEF LoadAppConfig, files
<1>3. CASE AddModelConfig
  BY <1>1, <1>2, <1>3, AddStep DEF Dead, IInv, Types
<1>4. CASE /\ listed' = FALSE
           /\ thread' = IF appConfig = "record"
                        THEN [NoThread EXCEPT ![ModelConfigFilename] = "fetching"]
                        ELSE NoThread
           /\ UNCHANGED <<modelInitState, remainingTasks, progress, total>>
  <2>1. /\ \A f \in Files : thread'[f] = "none"
        /\ thread'[ParamsConfigFilename] = "none"
        /\ thread' \in [Names -> {"none", "fetching", "posted"}]
    BY <1>4, NamesApart DEF NoThread
  <2>2. Types'
    BY <1>2, <1>4, <2>1 DEF IInv, Types
  <2>3. ThreadsKnown'
    BY <1>1, <1>2, <1>4, <2>1 DEF ThreadsKnown, Dead
  <2>4. Missing(disk)' = Missing(disk)
    BY <1>2
  <2>5. FilesKnown'
    BY <1>1, <1>2, <1>4, <2>1, <2>4 DEF IInv, FilesKnown, Dead
  <2> QED BY <1>1, <1>2, <1>4, <2>2, <2>3, <2>5 DEF IInv, Dead
<1> QED BY <1>3, <1>4 DEF LoadAppConfig

\* The model config is fetched, copied or given up.
LEMMA ModelConfigStep ==
  ASSUME IInv, FetchModelConfig \/ DownloadModelConfigFails
  PROVE  IInv'
<1>1. /\ thread[ModelConfigFilename] # "none"
      /\ \E t \in {"none", "posted"} : thread' = [thread EXCEPT ![ModelConfigFilename] = t]
      /\ UNCHANGED <<files, process, tasks, modelInitState, callback>>
  BY DEF FetchModelConfig, DownloadModelConfigFails
<1>2. /\ \A name \in Names : name # ModelConfigFilename => thread'[name] = thread[name]
      /\ thread' \in [Names -> {"none", "fetching", "posted"}]
      /\ Fetched' = Fetched
  BY <1>1, NamesApart DEF IInv, Types, Fetched
<1>3. alive
  BY <1>1, NamesApart DEF IInv, Dead, NoThread
<1>4. /\ disk' = disk /\ alive' = alive /\ listed' = listed /\ modelInitState' = modelInitState
      /\ remainingTasks' = remainingTasks /\ downloadingTasks' = downloadingTasks
      /\ callback' = callback /\ Missing(disk)' = Missing(disk)
  BY <1>1 DEF files, process, tasks
<1>5. Types'
  BY <1>2, <1>4 DEF IInv, Types
<1>6. ThreadsKnown'
  BY <1>1, <1>2, <1>4, NamesApart DEF IInv, ThreadsKnown
<1>7. FilesKnown'
  BY <1>2, <1>4, NamesApart DEF IInv, FilesKnown
<1> QED BY <1>3, <1>4, <1>5, <1>6, <1>7 DEF IInv

\* The handler that copies the model config adds the model.
LEMMA CopyStep == ASSUME IInv, CopyModelConfig PROVE IInv'
<1>1. /\ thread[ModelConfigFilename] # "none" /\ alive' = alive /\ AddModelConfig
      /\ downloadingTasks' = downloadingTasks /\ callback' = callback
      /\ disk' = [disk EXCEPT ![ModelConfigFilename] = "whole"]
  BY DEF CopyModelConfig
<1>2. /\ modelInitState = "Initializing" /\ callback = "none" /\ downloadingTasks = {}
      /\ alive
  BY <1>1, NamesApart DEF IInv, ThreadsKnown, FilesKnown, Busy, Dead, NoThread
<1>3. disk' \in [Names -> {"absent", "torn", "whole"}] /\ \A f \in Files : disk'[f] = disk[f]
  BY <1>1, NamesApart DEF IInv, Types
<1> QED BY <1>1, <1>2, <1>3, AddStep

\* Deaths that no handler causes.
LEMMA KillStep == ASSUME IInv, Killed \/ CopyKilled PROVE IInv'
<1>1. Die /\ (disk' = disk \/ disk' = [disk EXCEPT ![ModelConfigFilename] = "torn"])
  BY DEF Killed, CopyKilled, files
<1>2. disk' \in [Names -> {"absent", "torn", "whole"}] /\ \A f \in Files : disk'[f] # "torn"
  BY <1>1, NamesApart DEF IInv, Types, FilesKnown
<1> QED BY <1>1, <1>2, DieStep

\* The params config has come, and the model is indexed.
LEMMA ParamsStep == ASSUME IInv, LoadParamsConfig PROVE IInv'
<1>1. /\ thread[ParamsConfigFilename] # "none"
      /\ thread' = [thread EXCEPT ![ParamsConfigFilename] = "none"]
      /\ SwitchToIndexing(disk)
      /\ disk' = disk /\ alive' = alive /\ listed' = listed
      /\ downloadingTasks' = downloadingTasks /\ callback' = callback
  BY DEF LoadParamsConfig, files, process
<1>2. /\ listed /\ modelInitState = "Initializing" /\ downloadingTasks = {} /\ alive
      /\ remainingTasks = {} /\ callback = "none"
  BY <1>1, NamesApart DEF IInv, ThreadsKnown, FilesKnown, Busy, Dead, NoThread
<1>3. /\ modelInitState' = IF Missing(disk) = {} THEN "Finished" ELSE "Paused"
      /\ remainingTasks' = Missing(disk) /\ Missing(disk)' = Missing(disk)
  BY <1>1, <1>2, Indexed
<1>4. \A name \in Names : thread'[name] = "none"
  BY <1>1, <1>2, NamesApart DEF IInv, ThreadsKnown, Types
<1>5. Types'
  BY <1>1, <1>3 DEF IInv, Types, ModelInitState, Missing
<1>6. ThreadsKnown'
  BY <1>1, <1>2, <1>4, NamesApart DEF ThreadsKnown
<1>7. Fetched' = {}
  BY <1>4, NamesApart DEF Fetched
<1>8. FilesKnown'
  BY <1>1, <1>2, <1>3, <1>4, <1>7, NamesApart DEF IInv, FilesKnown
<1> QED BY <1>1, <1>2, <1>5, <1>6, <1>8, NoDownload DEF IInv

------------------------------------------------------------------------------
\* A download thread renames its file.
LEMMA RenameStep ==
  ASSUME IInv, NEW name \in Names \ {ModelConfigFilename}, RenameTemp(name)
  PROVE  IInv'
<1>1. /\ thread[name] = "fetching" /\ disk' = [disk EXCEPT ![name] = "whole"]
      /\ thread' = [thread EXCEPT ![name] = "posted"]
      /\ alive' = alive /\ listed' = listed /\ modelInitState' = modelInitState
      /\ remainingTasks' = remainingTasks /\ downloadingTasks' = downloadingTasks
      /\ callback' = callback
  BY DEF RenameTemp, process, tasks
<1>2. /\ disk'[name] = "whole" /\ thread'[name] = "posted"
      /\ \A other \in Names : other # name => disk'[other] = disk[other]
                                             /\ thread'[other] = thread[other]
  BY <1>1 DEF IInv, Types
<1>3. alive
  BY <1>1 DEF IInv, Dead, NoThread
<1>4. Types'
  BY <1>1 DEF IInv, Types
<1>5. ThreadsKnown'
  BY <1>1, <1>2, NamesApart DEF IInv, ThreadsKnown
<1>6. FilesKnown'
  <2>1. Missing(disk') = Missing(disk) \ {name}
    BY <1>2, NamesApart DEF Missing, Exists
  <2>2. Fetched' = Fetched \cup ({name} \cap Files)
    BY <1>2, NamesApart DEF Fetched
  <2>3. name \in Files => name \in remainingTasks
    BY <1>1 DEF IInv, ThreadsKnown
  <2>4. name \notin Missing(disk) => Missing(disk') = Missing(disk)
    BY <2>1
  <2>5. listed /\ modelInitState # "Initializing" => remainingTasks = Missing(disk') \cup Fetched'
    <3>1. CASE name \in Files
      BY <2>1, <2>2, <2>3, <3>1 DEF IInv, FilesKnown
    <3>2. CASE name \notin Files
      <4>1. Missing(disk') = Missing(disk) /\ Fetched' = Fetched
        BY <2>1, <2>2, <3>2 DEF Missing
      <4> QED BY <4>1 DEF IInv, FilesKnown
    <3> QED BY <3>1, <3>2
  <2>6. \A f \in Files : disk'[f] # "torn" /\ (thread'[f] = "posted" => disk'[f] = "whole")
    BY <1>2, NamesApart DEF IInv, FilesKnown
  <2> QED BY <1>1, <2>1, <2>5, <2>6 DEF IInv, FilesKnown
<1> QED BY <1>1, <1>3, <1>4, <1>5, <1>6 DEF IInv

\* The buttons that change neither files nor tasks.
LEMMA ButtonStep ==
  ASSUME IInv, HandlePause \/ StartChat \/ ShowDeleteButtons \/ CancelDelete
  PROVE  IInv'
<1>1. /\ disk' = disk /\ alive' = alive /\ listed' = listed
      /\ remainingTasks' = remainingTasks /\ downloadingTasks' = downloadingTasks
      /\ thread' = thread /\ callback' = callback
      /\ \/ modelInitState' = modelInitState
         \/ listed /\ modelInitState = "Downloading" /\ modelInitState' = "Pausing"
  BY DEF HandlePause, StartChat, ShowDeleteButtons, CancelDelete, files, process, tasks
<1>2. Missing(disk)' = Missing(disk) /\ Fetched' = Fetched
  BY <1>1 DEF Fetched
<1>3. Types' /\ (alive \/ Dead)'
  BY <1>1 DEF IInv, Types, ModelInitState, Dead
<1>4. ThreadsKnown'
  BY <1>1 DEF IInv, ThreadsKnown, Busy
<1>5. FilesKnown'
  BY <1>1, <1>2 DEF IInv, FilesKnown
<1> QED BY <1>1, <1>3, <1>4, <1>5 DEF IInv

\* switchToDownloading starts at most maxDownloadTasks tasks.
LEMMA StartStep == ASSUME IInv, HandleStart PROVE IInv'
<1>1. PICK started \in SUBSET remainingTasks :
        /\ Cardinality(started) =
              IF Cardinality(remainingTasks) < maxDownloadTasks
              THEN Cardinality(remainingTasks) ELSE maxDownloadTasks
        /\ downloadingTasks' = downloadingTasks \cup started
        /\ thread' = [name \in Names |-> IF name \in started THEN "fetching" ELSE thread[name]]
  BY DEF HandleStart
<1>2. /\ listed /\ modelInitState = "Paused" /\ modelInitState' = "Downloading"
      /\ disk' = disk /\ alive' = alive /\ listed' = listed
      /\ remainingTasks' = remainingTasks /\ callback' = callback
  BY DEF HandleStart, files, process
<1>3. thread = NoThread /\ downloadingTasks = {} /\ started \subseteq Files
  BY <1>2, Idle DEF IInv, Types
<1>4. \A name \in Names : thread'[name] = IF name \in started THEN "fetching" ELSE "none"
  BY <1>1, <1>3 DEF NoThread
<1>5. Cardinality(started) <= maxDownloadTasks
  <2>1. IsFiniteSet(remainingTasks)
    BY FS_Subset, ConstantsAssumption DEF IInv, Types
  <2>2. Cardinality(remainingTasks) \in Nat /\ maxDownloadTasks \in Nat
    BY <2>1, FS_CardinalityType, ConstantsAssumption
  <2> QED BY <1>1, <2>2
<1>6. downloadingTasks' = started
  BY <1>1, <1>3
<1>7. alive /\ callback = "none"
  BY <1>2 DEF IInv, Dead, FilesKnown
<1>8. Types'
  BY <1>2, <1>3, <1>4, <1>6, <1>1 DEF IInv, Types, ModelInitState
<1>9. ThreadsKnown'
  BY <1>2, <1>3, <1>4, <1>6, <1>7, NamesApart DEF ThreadsKnown, Busy
<1>10. Missing(disk)' = Missing(disk) /\ Fetched' = {} /\ Fetched = {}
  BY <1>2, <1>3, <1>4, NamesApart DEF Fetched, NoThread
<1>11. FilesKnown'
  BY <1>2, <1>4, <1>7, <1>10, NamesApart DEF IInv, FilesKnown
<1> QED BY <1>1, <1>2, <1>5, <1>6, <1>7, <1>8, <1>9, <1>11 DEF IInv

\* A removal that has to wait only changes the state of the model.
LEMMA WaitStep ==
  ASSUME IInv, listed, NEW how \in {"clear", "delete"},
         modelInitState' = IF how = "clear" THEN "Clearing" ELSE "Deleting",
         \/ modelInitState = "Downloading" /\ callback' = callback
         \/ modelInitState = "Finished" /\ callback' = how,
         UNCHANGED <<disk, alive, listed, remainingTasks, downloadingTasks, thread>>
  PROVE  IInv'
<1>1. Missing(disk)' = Missing(disk) /\ Fetched' = Fetched
  BY DEF Fetched
<1>2. alive /\ callback = "none"
  BY DEF IInv, Dead, FilesKnown
<1>3. modelInitState = "Finished" => downloadingTasks = {}
  BY DEF IInv, ThreadsKnown, Busy
<1>4. modelInitState' \in {"Clearing", "Deleting"} /\ modelInitState # "Initializing"
  OBVIOUS
<1>5. Types'
  BY <1>2, <1>4 DEF IInv, Types, ModelInitState
<1>6. ThreadsKnown'
  BY <1>2, <1>3, <1>4 DEF IInv, ThreadsKnown, Busy
<1>7. FilesKnown'
  BY <1>1, <1>4 DEF IInv, FilesKnown
<1> QED BY <1>2, <1>5, <1>6, <1>7 DEF IInv

\* handleClear and handleDelete.
LEMMA PressRemoveStep ==
  ASSUME IInv, NEW how \in {"clear", "delete"}, PressRemove(how)
  PROVE  IInv'
<1>1. listed /\ RequestRemoval(how)
  BY DEF PressRemove
<1>2. CASE /\ modelInitState \in {"Paused", "Finished"} /\ Remove(how)
           /\ UNCHANGED <<downloadingTasks, thread>>
  BY <1>1, <1>2, Idle, RemoveStep
<1>3. CASE Die /\ UNCHANGED <<files, kills>>
  <2>1. disk' = disk
    BY <1>3 DEF files
  <2> QED BY <1>3, <2>1, DieStep DEF IInv, Types, FilesKnown
<1>4. CASE /\ modelInitState \in {"Finished", "Downloading"}
           /\ modelInitState' = IF how = "clear" THEN "Clearing" ELSE "Deleting"
           /\ \/ modelInitState = "Downloading" /\ callback' = callback
              \/ modelInitState = "Finished" /\ callback' = how
           /\ UNCHANGED <<files, alive, listed, chatting, kills, tasks, thread>>
  BY <1>1, <1>4, WaitStep DEF files, tasks
<1> QED BY <1>1, <1>2, <1>3, <1>4 DEF RequestRemoval

\* The removal that waited for the end of a chat.
LEMMA ChatTerminatedStep == ASSUME IInv, ChatTerminated PROVE IInv'
<1>1. /\ callback # "none" /\ callback \in {"clear", "delete"} /\ Remove(callback)
      /\ UNCHANGED <<downloadingTasks, thread>>
  BY DEF ChatTerminated, IInv, Types
<1>2. listed
  BY <1>1 DEF IInv, FilesKnown
<1> QED BY <1>1, <1>2, Idle, RemoveStep

\* A download that ends takes one from the downloads, and may start another.
LEMMA ReplaceOne ==
  ASSUME NEW S \in SUBSET Files, NEW f \in S, NEW N, N = {} \/ \E x \in Files : N = {x},
         Cardinality(S) <= maxDownloadTasks
  PROVE  Cardinality((S \ {f}) \cup N) <= maxDownloadTasks
<1>1. IsFiniteSet(S) /\ Cardinality(S) \in Nat /\ maxDownloadTasks \in Nat
  BY FS_Subset, FS_CardinalityType, ConstantsAssumption
<1>2. IsFiniteSet(S \ {f}) /\ Cardinality(S \ {f}) = Cardinality(S) - 1
  BY <1>1, FS_RemoveElement
<1>3. CASE N = {}
  <2>1. (S \ {f}) \cup N = S \ {f}
    BY <1>3
  <2> QED BY <1>1, <1>2, <2>1
<1>4. ASSUME NEW x \in Files, N = {x} PROVE Cardinality((S \ {f}) \cup N) <= maxDownloadTasks
  <2>1. /\ IsFiniteSet((S \ {f}) \cup {x})
        /\ Cardinality((S \ {f}) \cup {x}) =
             IF x \in S \ {f} THEN Cardinality(S \ {f}) ELSE Cardinality(S \ {f}) + 1
    BY <1>2, FS_AddElement
  <2> QED BY <1>1, <1>2, <1>4, <2>1
<1> QED BY <1>3, <1>4

\* handleFinishDownload.
LEMMA FinishStep == ASSUME IInv, NEW f \in Files, HandleFinishDownload(f) PROVE IInv'
<1>1. /\ thread[f] = "posted" /\ f \in downloadingTasks /\ disk[f] = "whole"
      /\ listed /\ modelInitState \in Busy /\ callback = "none" /\ alive
      /\ thread[ParamsConfigFilename] = "none" /\ thread[ModelConfigFilename] = "none"
  <2>1. thread[f] = "posted" /\ f \in downloadingTasks /\ disk[f] = "whole"
    BY DEF HandleFinishDownload, IInv, ThreadsKnown, FilesKnown
  <2>2. listed /\ modelInitState \in Busy /\ callback = "none" /\ alive
    BY <2>1 DEF IInv, ThreadsKnown, Dead
  <2> QED BY <2>1, <2>2 DEF IInv, ThreadsKnown, Busy
<1>2. CASE /\ modelInitState \in {"Clearing", "Deleting"} /\ Last(f)
           /\ Remove(IF modelInitState = "Clearing" THEN "clear" ELSE "delete")
           /\ downloadingTasks' = Others(f)
           /\ thread' = [thread EXCEPT ![f] = "none"]
  <2>1. downloadingTasks' = {}
    BY <1>2 DEF Last
  <2>2. \A g \in Files : g # f => thread[g] = "none"
    BY <1>2 DEF Last, Others, IInv, ThreadsKnown
  <2>3. thread' = NoThread
    BY <1>1, <1>2, <2>2, NamesApart DEF IInv, Types, NoThread
  <2> QED BY <1>1, <1>2, <2>1, <2>3, RemoveStep
<1>3. ASSUME NEW N, N = {} \/ (modelInitState = "Downloading" /\ \E x \in NextTasks(f) : N = {x}),
             remainingTasks' = remainingTasks \ {f},
             downloadingTasks' = Others(f) \cup N,
             thread' = [name \in Names |-> IF name = f THEN "none"
                                           ELSE IF name \in N THEN "fetching" ELSE thread[name]],
             modelInitState' =
                CASE modelInitState = "Downloading" /\ remainingTasks' = {} /\ Last(f)
                        -> "Finished"
                  [] modelInitState = "Pausing" /\ Last(f) -> "Paused"
                  [] OTHER -> modelInitState,
             UNCHANGED <<files, process, total, callback>>
      PROVE  IInv'
  <2>1. disk' = disk /\ alive' = alive /\ listed' = listed /\ callback' = callback
    BY <1>3 DEF files, process
  <2>2. /\ N \subseteq Files /\ N \subseteq remainingTasks /\ f \notin N
        /\ N \cap downloadingTasks = {} /\ (N = {} \/ \E x \in Files : N = {x})
    BY <1>3 DEF NextTasks, IInv, Types
  <2>3. \/ modelInitState' = modelInitState
        \/ /\ modelInitState' = "Finished" /\ remainingTasks' = {} /\ downloadingTasks' = {}
        \/ /\ modelInitState' = "Paused" /\ downloadingTasks' = {}
    <3>1. CASE modelInitState = "Downloading" /\ remainingTasks' = {} /\ Last(f)
      <4>1. N = {}
        BY <1>3, <2>2, <3>1
      <4> QED BY <1>3, <3>1, <4>1 DEF Last
    <3>2. CASE modelInitState = "Pausing" /\ Last(f)
      <4>1. N = {}
        BY <1>3, <3>2
      <4> QED BY <1>3, <3>2, <4>1 DEF Last
    <3>3. CASE ~(modelInitState = "Downloading" /\ remainingTasks' = {} /\ Last(f))
               /\ ~(modelInitState = "Pausing" /\ Last(f))
      BY <1>3, <3>3
    <3> QED BY <3>1, <3>2, <3>3
  <2>4. modelInitState # "Initializing" /\ modelInitState' # "Initializing"
        /\ modelInitState # "Finished"
    BY <1>1, <2>3 DEF Busy
  <2>5. \A g \in Files : thread'[g] = IF g = f THEN "none"
                                      ELSE IF g \in N THEN "fetching" ELSE thread[g]
    BY <1>3, NamesApart
  <2>6. /\ thread'[ParamsConfigFilename] = "none" /\ thread'[ModelConfigFilename] = "none"
    BY <1>1, <1>3, <2>2, NamesApart
  <2>7. Types'
    <3>1. thread' \in [Names -> {"none", "fetching", "posted"}]
      BY <1>3 DEF IInv, Types
    <3>2. remainingTasks' \subseteq Files /\ downloadingTasks' \subseteq Files
      BY <1>3, <2>2 DEF IInv, Types, Others
    <3>3. modelInitState' \in ModelInitState
      BY <2>3 DEF IInv, Types, ModelInitState
    <3> QED BY <2>1, <3>1, <3>2, <3>3 DEF IInv, Types
  <2>8. ThreadsKnown'
    <3>1. downloadingTasks' = {g \in Files : thread'[g] # "none"}
      BY <1>3, <2>2, <2>5 DEF IInv, ThreadsKnown, Others
    <3>2. downloadingTasks' # {} => modelInitState' \in Busy
      BY <1>1, <2>3
    <3> QED BY <1>1, <2>1, <2>6, <3>1, <3>2 DEF ThreadsKnown
  <2>9. FilesKnown'
    <3>1. Missing(disk') = Missing(disk)
      BY <2>1
    <3>2. Fetched' = Fetched \ {f}
      BY <1>3, <2>2, <2>5 DEF Fetched, IInv, ThreadsKnown
    <3>3. f \notin Missing(disk)
      BY <1>1 DEF Missing, Exists
    <3>4. remainingTasks = Missing(disk) \cup Fetched
      BY <1>1, <2>4 DEF IInv, FilesKnown
    <3>5. remainingTasks' = Missing(disk') \cup Fetched'
      BY <1>3, <3>1, <3>2, <3>3, <3>4
    <3>6. \A g \in Files : disk'[g] # "torn" /\ (thread'[g] = "posted" => disk'[g] = "whole")
      BY <2>1, <2>5 DEF IInv, FilesKnown
    <3>7. modelInitState' = "Finished" => Missing(disk') = {}
      BY <2>3, <2>4, <3>5
    <3> QED BY <1>1, <2>1, <2>4, <3>5, <3>6, <3>7 DEF FilesKnown
  <2>10. downloadingTasks' \subseteq remainingTasks'
    BY <1>3, <2>2 DEF IInv, Others
  <2>11. Cardinality(downloadingTasks') <= maxDownloadTasks
    BY <1>1, <1>3, <2>2, ReplaceOne DEF IInv, Types, Others
  <2> QED BY <1>1, <2>1, <2>7, <2>8, <2>9, <2>10, <2>11 DEF IInv
<1>4. CASE /\ remainingTasks' = remainingTasks \ {f}
           /\ \/ /\ modelInitState = "Downloading" /\ NextTasks(f) # {}
                 /\ \E next \in NextTasks(f) :
                       /\ downloadingTasks' = Others(f) \cup {next}
                       /\ thread' = [thread EXCEPT ![f] = "none", ![next] = "fetching"]
              \/ /\ downloadingTasks' = Others(f)
                 /\ thread' = [thread EXCEPT ![f] = "none"]
           /\ modelInitState' =
                CASE modelInitState = "Downloading" /\ remainingTasks' = {} /\ Last(f)
                        -> "Finished"
                  [] modelInitState = "Pausing" /\ Last(f) -> "Paused"
                  [] OTHER -> modelInitState
           /\ UNCHANGED <<files, process, total, callback>>
  <2>1. ASSUME modelInitState = "Downloading", NEW next \in NextTasks(f),
               downloadingTasks' = Others(f) \cup {next},
               thread' = [thread EXCEPT ![f] = "none", ![next] = "fetching"]
        PROVE  IInv'
    <3>1. next # f /\ next \in Names /\ f \in Names
      BY NamesApart DEF NextTasks, IInv, Types
    <3>2. thread' = [name \in Names |-> IF name = f THEN "none"
                                        ELSE IF name \in {next} THEN "fetching" ELSE thread[name]]
      BY <2>1, <3>1 DEF IInv, Types
    <3>3. modelInitState = "Downloading" /\ \E x \in NextTasks(f) : {next} = {x}
      BY <2>1
    <3> QED BY <1>3, <1>4, <2>1, <3>2, <3>3, Zenon
  <2>2. ASSUME downloadingTasks' = Others(f), thread' = [thread EXCEPT ![f] = "none"]
        PROVE  IInv'
    <3>1. PICK N : N = {}
      OBVIOUS
    <3>2. thread' = [name \in Names |-> IF name = f THEN "none"
                                        ELSE IF name \in N THEN "fetching" ELSE thread[name]]
      BY <2>2, <3>1, NamesApart DEF IInv, Types
    <3>3. downloadingTasks' = Others(f) \cup N
      BY <2>2, <3>1
    <3> QED BY <1>3, <1>4, <3>1, <3>2, <3>3
  <2> QED BY <1>4, <2>1, <2>2
<1> QED BY <1>2, <1>4 DEF HandleFinishDownload

------------------------------------------------------------------------------
\* A fresh install.
LEMMA InitIInv == ASSUME Init PROVE IInv
<1>1. Types /\ Dead
  BY DEF Init, Types, Dead, ModelInitState, NoThread
<1>2. ThreadsKnown /\ FilesKnown
  BY NamesApart DEF Init, ThreadsKnown, FilesKnown, NoThread
<1> QED BY <1>1, <1>2, NoDownload DEF IInv, Init

\* Every step keeps the invariant.
LEMMA NextIInv == ASSUME IInv, [Next]_vars PROVE IInv'
<1>1. CASE UNCHANGED vars
  <2>1. UNCHANGED <<disk, alive, listed, modelInitState, remainingTasks, downloadingTasks,
                    thread, callback>>
    BY <1>1 DEF vars, files, process, tasks
  <2>2. Missing(disk)' = Missing(disk) /\ Fetched' = Fetched
    BY <2>1 DEF Fetched
  <2>3. Types' /\ (alive \/ Dead)' /\ ThreadsKnown'
    BY <2>1 DEF IInv, Types, Dead, ThreadsKnown
  <2>4. FilesKnown'
    BY <2>1, <2>2 DEF IInv, FilesKnown
  <2> QED BY <2>1, <2>3, <2>4 DEF IInv
<1>2. CASE LoadAppConfig \/ Killed \/ CopyKilled \/ DownloadModelConfigFails
  BY <1>2, LoadStep, KillStep, ModelConfigStep
<1>3. CASE Press
  BY <1>3, StartStep, ButtonStep, PressRemoveStep DEF Press
<1>4. CASE Threads
  BY <1>4, ModelConfigStep, RenameStep DEF Threads
<1>5. CASE Posted
  BY <1>5, CopyStep, ParamsStep, ChatTerminatedStep, FinishStep DEF Posted
<1> QED BY <1>1, <1>2, <1>3, <1>4, <1>5 DEF Next

\* What the invariant says of a state.
LEMMA IInvImplies == IInv => DownloadsTracked /\ FinishedWhole
<1> SUFFICES ASSUME IInv PROVE DownloadsTracked /\ FinishedWhole
  OBVIOUS
<1>1. DownloadsTracked
  BY DEF IInv, ThreadsKnown, DownloadsTracked
<1>2. ASSUME modelInitState = "Finished", NEW f \in Files PROVE disk[f] = "whole"
  <2>1. disk[f] # "absent" /\ disk[f] # "torn"
    BY <1>2 DEF IInv, FilesKnown, Missing, Exists
  <2> QED BY <2>1, NamesApart DEF IInv, Types
<1> QED BY <1>1, <1>2 DEF FinishedWhole

\* The inductive invariant holds throughout, for every set of files, every limit of
\* downloads at a time and every number of deaths of the process between any two steps.
LEMMA DownloadsSafe == Spec => []IInv
<1>1. Init => IInv
  BY InitIInv
<1>2. IInv /\ [Next]_vars => IInv'
  BY NextIInv
<1> QED BY <1>1, <1>2, PTL DEF Spec

\* The set downloadingTasks is the set of files with a thread, within its limit and
\* only in states that handleFinishDownload accepts.
THEOREM DownloadsAreTracked == Spec => []DownloadsTracked
BY DownloadsSafe, IInvImplies, PTL

\* A model that is offered for chat has every file whole, although the next start
\* after a death takes a file that exists for a file that is whole.
THEOREM FinishedIsWhole == Spec => []FinishedWhole
BY DownloadsSafe, IInvImplies, PTL

\* What is done and what remains add up.
Counts ==
    listed /\ modelInitState # "Initializing" =>
        progress \in Nat /\ total \in Nat /\ progress + Cardinality(remainingTasks) = total

\* Indexing a model whose tasks, if it has any, are among the missing files.
LEMMA IndexedCounts ==
  ASSUME NEW d, SwitchToIndexing(d), remainingTasks \subseteq Missing(d)
  PROVE  Counts'
<1>1. IsFiniteSet(Files) /\ Missing(d) \subseteq Files
  BY ConstantsAssumption DEF Missing
<1>2. /\ Cardinality(Missing(d)) \in Nat /\ Cardinality(Files) \in Nat
      /\ Cardinality(Missing(d)) <= Cardinality(Files)
  BY <1>1, FS_Subset, FS_CardinalityType
<1>3. /\ remainingTasks' = Missing(d) /\ total' = Cardinality(Files)
      /\ progress' = Cardinality(Files) - Cardinality(Missing(d))
  BY DEF SwitchToIndexing
<1> QED BY <1>2, <1>3 DEF Counts

\* Removing files: the model is indexed anew, or is no longer listed.
LEMMA RemoveCounts ==
  ASSUME IInv, NEW how \in {"clear", "delete"}, Remove(how)
  PROVE  Counts'
<1>1. ASSUME disk' = [name \in Names |-> IF name = ModelConfigFilename
                                         THEN disk[name] ELSE "absent"],
             SwitchToIndexing(disk')
      PROVE  Counts'
  <2>1. remainingTasks \subseteq Missing(disk')
    BY <1>1, NamesApart DEF IInv, Types, Missing, Exists
  <2> QED BY <1>1, <2>1, IndexedCounts
<1>2. ASSUME ~listed' PROVE Counts'
  BY <1>2 DEF Counts
<1>3. CASE how = "clear"
  BY <1>1, <1>2, <1>3 DEF Remove, Clear, Die
<1>4. CASE how = "delete"
  BY <1>2, <1>4 DEF Remove, Delete, DeleteModel, Die
<1> QED BY <1>3, <1>4

\* The constructor of ModelState.
LEMMA AddCounts ==
  ASSUME AddModelConfig, modelInitState = "Initializing", remainingTasks = {}
  PROVE  Counts'
<1>1. CASE SwitchToIndexing(disk)
  BY <1>1, IndexedCounts
<1>2. CASE UNCHANGED modelInitState
  BY <1>2 DEF Counts
<1> QED BY <1>1, <1>2 DEF AddModelConfig, SwitchToInitializing

\* Every step keeps the sum.
LEMMA NextCounts == ASSUME IInv, Counts, [Next]_vars PROVE Counts'
<1>1. ASSUME UNCHANGED <<remainingTasks, progress, total>>,
             listed' /\ modelInitState' # "Initializing"
               => listed /\ modelInitState # "Initializing"
      PROVE  Counts'
  BY <1>1 DEF Counts
<1>2. ASSUME ~listed' PROVE Counts'
  BY <1>2 DEF Counts
<1>3. CASE UNCHANGED vars
  BY <1>1, <1>3 DEF vars, process, tasks
<1>4. CASE LoadAppConfig
  <2>1. modelInitState = "Initializing" /\ remainingTasks = {}
    BY <1>4 DEF LoadAppConfig, IInv, Dead
  <2> QED BY <1>2, <1>4, <2>1, AddCounts DEF LoadAppConfig
<1>5. CASE Killed \/ CopyKilled
  BY <1>2, <1>5 DEF Killed, CopyKilled, Die
<1>6. CASE DownloadModelConfigFails \/ FetchModelConfig \/ StartChat \/ ShowDeleteButtons
           \/ CancelDelete
  BY <1>1, <1>6 DEF DownloadModelConfigFails, FetchModelConfig, StartChat,
       ShowDeleteButtons, CancelDelete, process, tasks
<1>7. CASE HandleStart \/ HandlePause
  BY <1>1, <1>7 DEF HandleStart, HandlePause, process, tasks
<1>8. ASSUME NEW name \in Names \ {ModelConfigFilename}, RenameTemp(name) PROVE Counts'
  BY <1>1, <1>8 DEF RenameTemp, process, tasks
<1>9. CASE CopyModelConfig
  <2>1. modelInitState = "Initializing" /\ remainingTasks = {}
    BY <1>9 DEF CopyModelConfig, IInv, ThreadsKnown, FilesKnown
  <2> QED BY <1>9, <2>1, AddCounts DEF CopyModelConfig
<1>10. CASE LoadParamsConfig
  <2>1. remainingTasks = {}
    BY <1>10 DEF LoadParamsConfig, IInv, ThreadsKnown, FilesKnown
  <2> QED BY <1>10, <2>1, IndexedCounts DEF LoadParamsConfig
<1>11. ASSUME NEW how \in {"clear", "delete"}, PressRemove(how) PROVE Counts'
  <2>1. RequestRemoval(how) /\ listed
    BY <1>11 DEF PressRemove
  <2>2. CASE Remove(how)
    BY <2>2, RemoveCounts
  <2>3. CASE Die
    BY <1>2, <2>3 DEF Die
  <2>4. CASE modelInitState \in {"Finished", "Downloading"} /\ UNCHANGED tasks
    BY <1>1, <2>1, <2>4 DEF tasks
  <2> QED BY <2>1, <2>2, <2>3, <2>4 DEF RequestRemoval
<1>12. CASE ChatTerminated
  BY <1>12, RemoveCounts DEF ChatTerminated, IInv, Types
<1>13. ASSUME NEW f \in Files, HandleFinishDownload(f) PROVE Counts'
  <2>1. ASSUME Remove(IF modelInitState = "Clearing" THEN "clear" ELSE "delete") PROVE Counts'
    BY <2>1, RemoveCounts
  <2>2. ASSUME remainingTasks' = remainingTasks \ {f}, progress' = progress + 1,
               UNCHANGED <<process, total>>
        PROVE  Counts'
    <3>1. f \in remainingTasks /\ listed /\ modelInitState # "Initializing"
      BY <1>13 DEF HandleFinishDownload, IInv, ThreadsKnown, Busy
    <3>2. IsFiniteSet(remainingTasks)
      BY FS_Subset, ConstantsAssumption DEF IInv, Types
    <3>3. /\ Cardinality(remainingTasks) \in Nat
          /\ Cardinality(remainingTasks') = Cardinality(remainingTasks) - 1
      BY <2>2, <3>1, <3>2, FS_RemoveElement, FS_CardinalityType
    <3> QED BY <2>2, <3>1, <3>3 DEF Counts
  <2> QED BY <1>13, <2>1, <2>2 DEF HandleFinishDownload
<1> QED BY <1>3, <1>4, <1>5, <1>6, <1>7, <1>8, <1>9, <1>10, <1>11, <1>12, <1>13
        DEF Next, Press, Threads, Posted

\* The progress bar tells the truth, for every set of files, every limit and every
\* number of deaths: what is done and what remains add up to the total, and a task
\* remains exactly when its file is missing or its end has not been handled.
THEOREM ProgressIsTrue == Spec => []ProgressTrue
<1>1. Init => IInv /\ Counts
  <2>1. Init => IInv
    BY InitIInv
  <2>2. Init => Counts
    BY DEF Init, Counts
  <2> QED BY <2>1, <2>2
<1>2. IInv /\ Counts /\ [Next]_vars => IInv' /\ Counts'
  BY NextIInv, NextCounts
<1>3. IInv /\ Counts => ProgressTrue
  BY DEF IInv, FilesKnown, Fetched, Counts, ProgressTrue
<1> QED BY <1>1, <1>2, <1>3, PTL DEF Spec

\* What a step may do to the files.
Confirmed ==
    \A f \in Files :
        disk[f] = "whole" /\ disk'[f] # "whole" =>
            /\ isDeletingModel \/ modelInitState \in {"Clearing", "Deleting"}
            /\ \A g \in Files : thread[g] # "fetching"

\* A step that removes files follows a confirmation and meets no thread.
LEMMA NextConfirmed == ASSUME IInv, Next PROVE Confirmed
<1>1. ASSUME disk' = disk PROVE Confirmed
  BY <1>1 DEF Confirmed
<1>2. ASSUME NEW name \in Names, NEW v, disk' = [disk EXCEPT ![name] = v],
             name \notin Files \/ v = "whole"
      PROVE  Confirmed
  BY <1>2, NamesApart DEF Confirmed, IInv, Types
<1>3. CASE LoadAppConfig \/ Killed \/ DownloadModelConfigFails \/ FetchModelConfig
           \/ LoadParamsConfig \/ HandleStart \/ HandlePause \/ StartChat
           \/ ShowDeleteButtons \/ CancelDelete
  BY <1>1, <1>3 DEF LoadAppConfig, Killed, DownloadModelConfigFails, FetchModelConfig,
       LoadParamsConfig, HandleStart, HandlePause, StartChat, ShowDeleteButtons, CancelDelete,
       files
<1>4. CASE CopyKilled \/ CopyModelConfig
  BY <1>2, <1>4, NamesApart DEF CopyKilled, CopyModelConfig
<1>5. ASSUME NEW name \in Names \ {ModelConfigFilename}, RenameTemp(name) PROVE Confirmed
  BY <1>2, <1>5 DEF RenameTemp
<1>6. ASSUME NEW how \in {"clear", "delete"}, PressRemove(how) PROVE Confirmed
  <2>1. listed /\ isDeletingModel /\ RequestRemoval(how)
    BY <1>6 DEF PressRemove
  <2>2. CASE modelInitState \in {"Paused", "Finished"}
    BY <2>1, <2>2, Idle, NamesApart DEF Confirmed, NoThread
  <2>3. CASE modelInitState \notin {"Paused", "Finished"}
    BY <1>1, <2>1, <2>3 DEF RequestRemoval, files
  <2> QED BY <2>2, <2>3
<1>7. CASE ChatTerminated
  <2>1. callback # "none" /\ listed /\ modelInitState \in {"Clearing", "Deleting"}
    BY <1>7 DEF ChatTerminated, IInv, FilesKnown
  <2> QED BY <2>1, Idle, NamesApart DEF Confirmed, NoThread
<1>8. ASSUME NEW f \in Files, HandleFinishDownload(f) PROVE Confirmed
  <2>1. thread[f] = "posted"
    BY <1>8 DEF HandleFinishDownload
  <2>2. CASE modelInitState \in {"Clearing", "Deleting"} /\ Last(f)
    <3>1. \A g \in Files : g # f => thread[g] = "none"
      BY <2>2 DEF Last, Others, IInv, ThreadsKnown
    <3> QED BY <2>1, <2>2, <3>1 DEF Confirmed
  <2>3. CASE UNCHANGED files
    BY <1>1, <2>3 DEF files
  <2> QED BY <1>8, <2>2, <2>3 DEF HandleFinishDownload
<1> QED BY <1>3, <1>4, <1>5, <1>6, <1>7, <1>8 DEF Next, Press, Threads, Posted

\* A file that was downloaded goes only after the user confirmed a removal, at a
\* moment when no download thread is about to put a file back, for every set of
\* files, every limit and every number of deaths of the process.
THEOREM RemovalsConfirmed == Spec => RemovalConfirmed
<1>1. Init => IInv
  BY InitIInv
<1>2. IInv /\ [Next]_vars => IInv'
  BY NextIInv
<1>3. IInv /\ [Next]_vars => [Confirmed]_vars
  BY NextConfirmed
<1> QED BY <1>1, <1>2, <1>3, PTL DEF Spec, RemovalConfirmed, Confirmed
==============================================================================
