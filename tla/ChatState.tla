------------------------------- MODULE ChatState -------------------------------
(***************************************************************************)
(* AppViewModel.ChatState of MLCChat: the chat with the loaded model and   *)
(* the summary of a piece of news.                                         *)
(*                                                                         *)
(* The main thread handles presses and runs what is posted to it in order; *)
(* an executor with one thread calls the engine; a summary is generated by *)
(* a coroutine on another thread, an answer in a chat by one on the main   *)
(* thread.  An exception that nobody catches ends the app: crashed names   *)
(* the function it left.                                                   *)
(***************************************************************************)
EXTENDS Naturals, Sequences

CONSTANTS Models,
          NoModel,
          News,
          Presses,       \* what the user does in this instance
          MaxPresses,    \* bound on the presses
          MaxGens,       \* bound on the generations
          MaxFailures    \* bound on the exceptions of the engine

ASSUME ConstantsAssumption ==
    /\ NoModel \notin Models
    /\ Presses \subseteq {"news", "generate", "image", "reset", "reload", "terminate"}
    /\ MaxPresses \in Nat /\ MaxGens \in Nat /\ MaxFailures \in Nat

VARIABLES
    modelChatState,
    modelName,         \* the model that the chat shows
    engine,            \* the model that the engine has loaded
    executorService,   \* the tasks of the executor, oldest first
    posted,            \* the continuations posted to the main thread, oldest first
    messages,          \* of each message shown, the generation that writes it, or 0
    historyMessages,   \* of each message sent to the engine, its role
    gens,              \* the generations, in the order of their requests
    summaryCache,      \* the news with a cached summary
    crashed,
    presses,
    failures,
    interrupted        \* history: the chat was reset, terminated or given another model

chat  == <<modelName, engine, summaryCache>>
texts == <<messages, historyMessages, gens>>
work  == <<executorService, posted>>
vars  == <<modelChatState, chat, texts, work, crashed, presses, failures, interrupted>>

ModelChatState == {"Generating", "Resetting", "Reloading", "Terminating", "Ready", "Falied"}
Transitions    == {"Resetting", "Reloading", "Terminating"}
Interruptions  == {"reset", "reload", "terminate"}

Task == [op : {"reset", "unload", "image"}, arg : {NoModel}]
        \cup [op : {"reload"}, arg : Models]
        \cup [op : {"news", "chat"}, arg : 1..MaxGens]
        \cup [op : {"interrupt reset", "interrupt terminate"}, arg : {NoModel}]
        \cup [op : {"interrupt reload"}, arg : Models]

Continuation == [op : {"cleared", "terminated", "ready", "image", "fail"}, arg : {NoModel}]
                \cup [op : {"create"}, arg : 1..MaxGens]
                \cup [op : {"interrupt reset", "interrupt terminate"}, arg : {NoModel}]
                \cup [op : {"interrupt reload"}, arg : Models]

Generation == [kind : {"news", "chat"},
               phase : {"queued", "started", "streaming", "unanswered", "over"},
               text : BOOLEAN, news : News \cup {NoModel}]

\* The invariant that gives every variable its type.
TypeOK ==
    /\ modelChatState \in ModelChatState
    /\ modelName \in Models \cup {NoModel}
    /\ engine \in Models \cup {NoModel}
    /\ executorService \in Seq(Task)
    /\ posted \in Seq(Continuation)
    /\ messages \in Seq(0..MaxGens)
    /\ historyMessages \in Seq({"system", "user", "assistant"})
    /\ gens \in Seq(Generation) /\ Len(gens) <= MaxGens
    /\ summaryCache \subseteq News
    /\ crashed \in {"no", "summarizeNews", "interruptChat", "request", "updateMessage"}
    /\ presses \in 0..MaxPresses /\ failures \in 0..MaxFailures /\ interrupted \in BOOLEAN

Init ==
    /\ modelChatState = "Ready"
    /\ modelName = NoModel /\ engine = NoModel
    /\ executorService = <<>> /\ posted = <<>>
    /\ messages = <<>> /\ historyMessages = <<>> /\ gens = <<>>
    /\ summaryCache \in SUBSET News
    /\ crashed = "no"
    /\ presses = 0 /\ failures = 0 /\ interrupted = FALSE

Chatable      == modelChatState = "Ready"
Interruptable == modelChatState \in {"Ready", "Generating", "Falied"}

Submit(op, arg) == executorService' = Append(executorService, [op |-> op, arg |-> arg])
Post(queue, op, arg) == Append(queue, [op |-> op, arg |-> arg])

\* callBackend: an exception of the engine is caught, and its report is posted.
CallBackend(queue) ==
    \/ posted' = queue /\ UNCHANGED failures
    \/ /\ failures < MaxFailures
       /\ failures' = failures + 1
       /\ posted' = Post(queue, "fail", NoModel)

Crash(where) ==
    /\ crashed' = where
    /\ UNCHANGED <<modelChatState, chat, texts, work, failures>>

--------------------------------------------------------------------------------
(* Presses.                                                                  *)

\* Mutant: the epilogue of a reload does not show the model.
EpilogueUnnamed(what, m) ==
    /\ Submit(IF what = "terminate" THEN "unload" ELSE what, m)
    /\ UNCHANGED <<messages, historyMessages, modelName>>

\* The epilogues of the three interruptions, on the main thread.
Epilogue(what, m) ==
    \/ /\ what = "reset"
       /\ Submit("reset", NoModel)
       /\ UNCHANGED <<messages, historyMessages, modelName>>
    \/ /\ what = "terminate"
       /\ Submit("unload", NoModel)
       /\ UNCHANGED <<messages, historyMessages, modelName>>
    \/ /\ what = "reload"
       /\ messages' = <<>> /\ historyMessages' = <<>>
       /\ modelName' = m
       /\ Submit("reload", m)

InterruptOp == [reset |-> "interrupt reset", reload |-> "interrupt reload",
                terminate |-> "interrupt terminate"]
During == [reset |-> "Resetting", reload |-> "Reloading", terminate |-> "Terminating"]

\* Mutant: the epilogue is left out when a generation runs.
InterruptChatNoEpilogue(what, m) ==
    /\ modelChatState' = During[what]
    /\ \/ modelChatState = "Ready" /\ Epilogue(what, m)
       \/ /\ modelChatState = "Generating"
          /\ UNCHANGED <<executorService, messages, historyMessages, modelName>>
    /\ UNCHANGED <<crashed, posted, engine, gens, summaryCache, failures>>

InterruptChat(what, m) ==
    \/ /\ Chatable
       /\ modelChatState' = During[what]
       /\ Epilogue(what, m)
       /\ UNCHANGED <<crashed, posted, engine, gens, summaryCache, failures>>
    \/ /\ modelChatState = "Generating"
       /\ modelChatState' = During[what]
       /\ Submit(InterruptOp[what], m)
       /\ UNCHANGED <<crashed, posted, chat, texts, failures>>
    \/ /\ modelChatState = "Falied"
       /\ Crash("interruptChat")

\* The button that resets the chat is enabled when the chat is interruptable.
RequestResetChat ==
    /\ Interruptable
    /\ InterruptChat("reset", NoModel)

\* Chatting with a model that the chat already shows does nothing.
RequestReloadChat(m) ==
    /\ modelName # m
    /\ \/ Interruptable /\ InterruptChat("reload", m)
       \/ ~Interruptable /\ Crash("request")

\* Clearing or deleting the model that the chat shows.
RequestTerminateChat ==
    \/ Interruptable /\ InterruptChat("terminate", NoModel)
    \/ ~Interruptable /\ Crash("request")

RequestImageBitmap ==
    /\ Chatable
    /\ modelChatState' = "Generating"
    /\ Submit("image", NoModel)
    /\ UNCHANGED <<crashed, posted, chat, texts, failures>>

NewGeneration(kind, n) ==
    gens' = Append(gens, [kind |-> kind, phase |-> "queued", text |-> FALSE, news |-> n])

\* The message that the generation will overwrite is the last one.
RequestGenerate ==
    /\ Chatable
    /\ Len(gens) < MaxGens
    /\ modelChatState' = "Generating"
    /\ messages' = messages \o <<0, Len(gens) + 1>>
    /\ NewGeneration("chat", NoModel)
    /\ Submit("chat", Len(gens) + 1)
    /\ UNCHANGED <<crashed, posted, chat, historyMessages, failures>>

\* Mutant: a summary may be asked for while another is generated.
SummarizeNewsUnchecked(n) ==
    /\ Len(gens) < MaxGens
    /\ modelChatState' = "Generating"
    /\ messages' = <<0, 0, Len(gens) + 1>>
    /\ historyMessages' = <<"system", "user">>
    /\ NewGeneration("news", n)
    /\ Submit("news", Len(gens) + 1)
    /\ UNCHANGED <<posted, crashed, chat, failures>>

\* mainResetChatSync, then the prompt.  A cached summary is shown at once, and the
\* state stays Generating.
SummarizeNews(n) ==
    \/ /\ ~Chatable
       /\ Crash("summarizeNews")
    \/ /\ Chatable
       /\ CallBackend(posted)
       /\ modelChatState' = "Generating"
       /\ \/ /\ n \in summaryCache
             /\ messages' = <<0, 0, 0>>
             /\ historyMessages' = <<>>
             /\ UNCHANGED <<gens, executorService>>
          \/ /\ n \notin summaryCache
             /\ Len(gens) < MaxGens
             /\ messages' = <<0, 0, Len(gens) + 1>>
             /\ historyMessages' = <<"system", "user">>
             /\ NewGeneration("news", n)
             /\ Submit("news", Len(gens) + 1)
       /\ UNCHANGED <<crashed, chat>>

\* The news and the chat are shown only after a model has been chosen.
Press ==
    /\ crashed = "no"
    /\ presses < MaxPresses
    /\ presses' = presses + 1
    /\ \/ "reload" \in Presses /\ \E m \in Models : RequestReloadChat(m)
       \/ /\ modelName # NoModel
          /\ \/ "reset" \in Presses /\ RequestResetChat
             \/ "terminate" \in Presses /\ RequestTerminateChat
             \/ "image" \in Presses /\ RequestImageBitmap
             \/ "generate" \in Presses /\ RequestGenerate
             \/ "news" \in Presses /\ \E n \in News : SummarizeNews(n)
    /\ interrupted' = (interrupted \/ (modelName # NoModel /\ modelChatState' \in Transitions))

--------------------------------------------------------------------------------
(* The executor.                                                             *)

\* Mutant: a failed reload is not reported.
ReloadTaskSilent(m) ==
    \/ engine' = m /\ posted' = Post(posted, "ready", NoModel) /\ UNCHANGED failures
    \/ /\ failures < MaxFailures
       /\ failures' = failures + 1
       /\ engine' = NoModel
       /\ UNCHANGED posted

\* A reload unloads first; when it fails nothing is loaded.
ReloadTask(m) ==
    \/ engine' = m /\ posted' = Post(posted, "ready", NoModel) /\ UNCHANGED failures
    \/ /\ failures < MaxFailures
       /\ failures' = failures + 1
       /\ engine' = NoModel
       /\ posted' = Post(posted, "fail", NoModel)

\* The report of a failure is posted before the continuation of the task.
BackendThen(op) ==
    \/ posted' = Post(posted, op, NoModel) /\ UNCHANGED failures
    \/ /\ failures < MaxFailures
       /\ failures' = failures + 1
       /\ posted' = Post(Post(posted, "fail", NoModel), op, NoModel)

RunTask ==
    /\ crashed = "no"
    /\ executorService # <<>>
    /\ executorService' = Tail(executorService)
    /\ LET task == Head(executorService) IN
       \/ /\ task.op = "reset"
          /\ historyMessages' = <<>>
          /\ BackendThen("cleared")
          /\ UNCHANGED <<engine, gens>>
       \/ /\ task.op = "unload"
          /\ BackendThen("terminated")
          /\ engine' = NoModel
          /\ UNCHANGED <<historyMessages, gens>>
       \/ /\ task.op = "reload"
          /\ ReloadTask(task.arg)
          /\ UNCHANGED <<historyMessages, gens>>
       \/ /\ task.op = "image"
          /\ posted' = Post(posted, "image", NoModel)
          /\ UNCHANGED <<historyMessages, engine, gens, failures>>
       \/ /\ task.op = "news"
          /\ gens' = [gens EXCEPT ![task.arg].phase = "started"]
          /\ UNCHANGED <<historyMessages, engine, posted, failures>>
       \/ /\ task.op = "chat"
          /\ historyMessages' = Append(historyMessages, "user")
          /\ posted' = Post(posted, "create", task.arg)
          /\ UNCHANGED <<engine, gens, failures>>
       \/ /\ task.op \in {InterruptOp[what] : what \in Interruptions}
          /\ posted' = Append(posted, task)
          /\ UNCHANGED <<historyMessages, engine, gens, failures>>
    /\ UNCHANGED <<modelChatState, modelName, messages, summaryCache, crashed, presses,
                   interrupted>>

--------------------------------------------------------------------------------
(* What is posted to the main thread.                                        *)

\* engine.chat.completions.create: an engine with no model answers nothing.
Requested == IF engine # NoModel THEN "streaming" ELSE "unanswered"

RunPosted ==
    /\ crashed = "no"
    /\ posted # <<>>
    /\ posted' = Tail(posted)
    /\ LET next == Head(posted) IN
       \/ /\ next.op \in {"cleared", "terminated"}
          /\ messages' = <<>> /\ historyMessages' = <<>>
          /\ modelChatState' = "Ready"
          /\ UNCHANGED <<modelName, gens, executorService>>
       \/ /\ next.op = "ready"
          /\ modelChatState' = "Ready"
          /\ UNCHANGED <<modelName, texts, executorService>>
       \/ /\ next.op = "image"
          /\ modelChatState' = IF modelChatState = "Generating" THEN "Ready" ELSE modelChatState
          /\ UNCHANGED <<modelName, texts, executorService>>
       \/ /\ next.op = "fail"
          /\ messages' = Append(messages, 0)
          /\ modelChatState' = "Falied"
          /\ UNCHANGED <<modelName, historyMessages, gens, executorService>>
       \/ /\ next.op = "create"
          /\ gens' = [gens EXCEPT ![next.arg].phase = Requested]
          /\ UNCHANGED <<modelChatState, modelName, messages, historyMessages, executorService>>
       \/ \E what \in Interruptions :
          /\ next.op = InterruptOp[what]
          /\ Epilogue(what, next.arg)
          /\ UNCHANGED <<modelChatState, gens>>
    /\ UNCHANGED <<engine, summaryCache, crashed, presses, failures, interrupted>>

--------------------------------------------------------------------------------
(* Generations.                                                              *)

\* The request of a summary, a second and a half after its task.
CreateNews(g) ==
    /\ crashed = "no"
    /\ gens[g].kind = "news" /\ gens[g].phase = "started"
    /\ gens' = [gens EXCEPT ![g].phase = Requested]
    /\ UNCHANGED <<modelChatState, chat, messages, historyMessages, work, crashed,
                   presses, failures, interrupted>>

\* updateMessage replaces the last message.
UpdateMessage(g) == [messages EXCEPT ![Len(messages)] = g]

\* Bound on the reports of failed responses that wait for the main thread.
MaxPosted == MaxPresses

\* A response with text.  With no message to replace, updateMessage throws inside
\* callBackend: the report is posted and the next response is awaited.
Delta(g) ==
    /\ crashed = "no"
    /\ gens[g].phase = "streaming"
    /\ gens' = [gens EXCEPT ![g].text = TRUE]
    /\ \/ /\ messages # <<>>
          /\ messages' = UpdateMessage(g)
          /\ UNCHANGED posted
       \/ /\ messages = <<>>
          /\ Len(posted) < MaxPosted
          /\ posted' = Post(posted, "fail", NoModel)
          /\ UNCHANGED messages
    /\ UNCHANGED <<modelChatState, chat, historyMessages, executorService, crashed,
                   presses, failures, interrupted>>

\* Mutant: an empty answer leaves the question in the history.
AnsweredKeepsQuestion(g) ==
    IF gens[g].text THEN Append(historyMessages, "assistant") ELSE historyMessages

\* Mutant: the text is added where a message should be.
AnsweredWithText(g) == Append(historyMessages, "text")

\* The history after the stream: the answer, or the question taken back.
Answered(g) ==
    IF gens[g].text THEN Append(historyMessages, "assistant")
    ELSE IF historyMessages = <<>> THEN <<>>
    ELSE SubSeq(historyMessages, 1, Len(historyMessages) - 1)

\* The stream of a chat answer ends.
FinishChat(g) ==
    /\ crashed = "no"
    /\ gens[g].kind = "chat" /\ gens[g].phase = "streaming"
    /\ gens' = [gens EXCEPT ![g].phase = "over"]
    /\ historyMessages' = Answered(g)
    /\ modelChatState' = IF modelChatState = "Generating" THEN "Ready" ELSE modelChatState
    /\ UNCHANGED <<chat, messages, work, crashed, presses, failures, interrupted>>

\* The stream of a summary ends, or a repetition ends the reading of it.  The
\* last updateMessage is not inside callBackend.
FinishNews(g) ==
    /\ crashed = "no"
    /\ gens[g].kind = "news" /\ gens[g].phase = "streaming"
    /\ UNCHANGED <<presses, interrupted>>
    /\ \/ /\ gens[g].text /\ messages = <<>>
          /\ Crash("updateMessage")
       \/ /\ gens[g].text => messages # <<>>
          /\ gens' = [gens EXCEPT ![g].phase = "over"]
          /\ historyMessages' = Answered(g)
          /\ messages' = IF gens[g].text THEN UpdateMessage(g) ELSE messages
          /\ summaryCache' = summaryCache \cup (IF gens[g].text THEN {gens[g].news} ELSE {})
          /\ modelChatState' = "Ready"
          /\ UNCHANGED <<modelName, engine, work, crashed, failures>>

Generate(g) == CreateNews(g) \/ Delta(g) \/ FinishChat(g) \/ FinishNews(g)

--------------------------------------------------------------------------------
Next == Press \/ RunTask \/ RunPosted \/ \E g \in DOMAIN gens : Generate(g)

Spec == Init /\ [][Next]_vars

\* The executor and the main thread run what they are given.  The engine ends every
\* stream that a loaded model began, also when it is reset or unloaded: see
\* ThreadedEngine.  Nobody has to press anything.
Fairness ==
    /\ WF_vars(RunTask)
    /\ WF_vars(RunPosted)
    /\ \A g \in 1..MaxGens :
          WF_vars(g \in DOMAIN gens /\ (CreateNews(g) \/ FinishChat(g) \/ FinishNews(g)))

FairSpec == Spec /\ Fairness

--------------------------------------------------------------------------------
(* Safety.                                                                   *)

InQueue(queue, ops) == \E i \in 1..Len(queue) : queue[i].op \in ops

\* A chat that is being reset, reloaded or terminated has the task, the continuation
\* or the epilogue under way that will end it, through the executor and back: the
\* buttons, disabled in these states, cannot stay so for ever.
TransitionUnderWay ==
    modelChatState \in Transitions =>
        \/ InQueue(executorService, {"reset", "unload", "reload"}
                                    \cup {InterruptOp[what] : what \in Interruptions})
        \/ InQueue(posted, {"cleared", "terminated", "ready", "fail"}
                           \cup {InterruptOp[what] : what \in Interruptions})

\* With no reload on its way, the engine has loaded the model that the chat shows,
\* or none: reloads, terminations and failures in any order do not leave the chat
\* with the name of one model and the answers of another.
EngineMatchesName ==
    ~InQueue(executorService, {"reload"}) => engine \in {modelName, NoModel}

Calm == ~interrupted /\ failures = 0

\* While nobody interrupts, a generation writes to its own message: the last message
\* is the one that was put there for it.
AnswerInItsPlace ==
    Calm => \A g \in DOMAIN gens :
        gens[g].phase \in {"started", "streaming"} =>
            messages # <<>> /\ messages[Len(messages)] = g

\* While nobody interrupts, a chat that is ready for a question has no open question
\* in the history it sends to the engine, and two questions never follow each other.
HistoryAnswered ==
    /\ Calm /\ Chatable /\ historyMessages # <<>> =>
          historyMessages[Len(historyMessages)] # "user"
    /\ Calm => \A i \in 1..(Len(historyMessages) - 1) :
          historyMessages[i] = "user" => historyMessages[i + 1] = "assistant"

--------------------------------------------------------------------------------
(* Liveness, under FairSpec.                                                 *)

\* Every reset, reload and termination ends, in a chat that is ready or has failed,
\* or the app crashes.
TransitionEnds == modelChatState \in Transitions ~>
                      modelChatState \notin Transitions \/ crashed # "no"

--------------------------------------------------------------------------------
(* What a comment says, and the code does not do.                            *)

\* "epilogue runs after interruption": no generation is under way when the epilogue
\* of an interruption runs.
EpilogueAfterInterruption ==
    posted # <<>> /\ Head(posted).op \in {InterruptOp[what] : what \in Interruptions} =>
        \A g \in DOMAIN gens : gens[g].phase \notin {"started", "streaming"}
================================================================================
