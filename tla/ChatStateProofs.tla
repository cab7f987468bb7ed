--------------------------- MODULE ChatStateProofs ---------------------------
(***************************************************************************)
(* Proofs about ChatState, for every set of models and news and every      *)
(* number of presses, generations and failures of the engine.              *)
(***************************************************************************)
EXTENDS ChatState, TLAPS

Ops == {"reset", "unload", "reload", "image", "news", "chat", "cleared", "terminated",
        "ready", "fail", "create"} \cup {InterruptOp[what] : what \in Interruptions}

Args == Models \cup {NoModel} \cup Nat

Entry == [op : Ops, arg : Args]

\* The types the invariants need: the queues hold entries.
Types ==
    /\ executorService \in Seq(Entry)
    /\ posted \in Seq(Entry)
    /\ gens \in Seq(Generation)

\* What ends a transition, in the executor or on its way to the main thread.
EndsInExecutor == {"reset", "unload", "reload"} \cup {InterruptOp[what] : what \in Interruptions}
EndsPosted == {"cleared", "terminated", "ready", "fail"}
              \cup {InterruptOp[what] : what \in Interruptions}

Under(state, tasks, continuations) ==
    state \in Transitions =>
        InQueue(tasks, EndsInExecutor) \/ InQueue(continuations, EndsPosted)

\* The last reload that the executor was given is of the model that the chat shows.
Named(tasks, name) ==
    \A i \in 1..Len(tasks) :
        tasks[i].op = "reload" =>
            \/ tasks[i].arg = name
            \/ \E j \in (i + 1)..Len(tasks) : tasks[j].op = "reload"

Matches(tasks, model, name) == ~InQueue(tasks, {"reload"}) => model \in {name, NoModel}

\* The inductive invariant.
IInv ==
    /\ Types
    /\ Under(modelChatState, executorService, posted)
    /\ Named(executorService, modelName)
    /\ Matches(executorService, engine, modelName)

------------------------------------------------------------------------------
\* The operations of the three interruptions are entries of the queues.
LEMMA InterruptOps ==
    /\ Interruptions = {"reset", "reload", "terminate"}
    /\ InterruptOp["reset"] = "interrupt reset"
    /\ InterruptOp["reload"] = "interrupt reload"
    /\ InterruptOp["terminate"] = "interrupt terminate"
    /\ {InterruptOp[what] : what \in Interruptions} =
           {"interrupt reset", "interrupt reload", "interrupt terminate"}
<1>1. /\ Interruptions = {"reset", "reload", "terminate"}
      /\ InterruptOp["reset"] = "interrupt reset"
      /\ InterruptOp["reload"] = "interrupt reload"
      /\ InterruptOp["terminate"] = "interrupt terminate"
  BY DEF Interruptions, InterruptOp
<1> QED BY <1>1

\* What posting to a queue does to its entries.
LEMMA Posting ==
  ASSUME NEW q \in Seq(Entry), NEW op \in Ops, NEW arg \in Args
  PROVE  /\ Post(q, op, arg) \in Seq(Entry)
         /\ Len(Post(q, op, arg)) = Len(q) + 1
         /\ \A i \in 1..Len(q) : Post(q, op, arg)[i] = q[i]
         /\ Post(q, op, arg)[Len(q) + 1].op = op
         /\ Post(q, op, arg)[Len(q) + 1].arg = arg
<1> DEFINE e == [op |-> op, arg |-> arg]
<1>1. e \in Entry /\ e.op = op /\ e.arg = arg
  BY DEF Entry
<1> HIDE DEF e
<1>2. /\ Append(q, e) \in Seq(Entry) /\ Len(Append(q, e)) = Len(q) + 1
      /\ \A i \in 1..Len(q) : Append(q, e)[i] = q[i]
      /\ Append(q, e)[Len(q) + 1] = e
  BY <1>1
<1> QED BY <1>1, <1>2 DEF Post, e

\* A queue holds after a post what it held before, and the new entry.
LEMMA InPost ==
  ASSUME NEW q \in Seq(Entry), NEW op \in Ops, NEW arg \in Args, NEW ops
  PROVE  InQueue(Post(q, op, arg), ops) <=> InQueue(q, ops) \/ op \in ops
<1> DEFINE p == Post(q, op, arg)
<1>1. /\ Len(p) = Len(q) + 1 /\ Len(q) \in Nat
      /\ \A i \in 1..Len(q) : p[i] = q[i]
      /\ p[Len(q) + 1].op = op
  BY Posting
<1> HIDE DEF p
<1>2. InQueue(p, ops) <=> InQueue(q, ops) \/ op \in ops
  BY <1>1 DEF InQueue
<1> QED BY <1>2 DEF p

\* A queue that is not empty holds its first entry and those of its tail.
LEMMA InTail ==
  ASSUME NEW q \in Seq(Entry), q # <<>>, NEW ops
  PROVE  /\ Head(q) \in Entry /\ Tail(q) \in Seq(Entry)
         /\ InQueue(q, ops) <=> Head(q).op \in ops \/ InQueue(Tail(q), ops)
<1>1. /\ Head(q) = q[1] /\ Head(q) \in Entry /\ Tail(q) \in Seq(Entry)
      /\ Len(q) \in Nat /\ Len(q) > 0 /\ Len(Tail(q)) = Len(q) - 1
      /\ \A i \in 1..(Len(q) - 1) : Tail(q)[i] = q[i + 1]
  OBVIOUS
<1>2. ASSUME InQueue(q, ops) PROVE Head(q).op \in ops \/ InQueue(Tail(q), ops)
  <2>1. PICK i \in 1..Len(q) : q[i].op \in ops
    BY <1>2 DEF InQueue
  <2>2. CASE i = 1
    BY <1>1, <2>1, <2>2
  <2>3. CASE i # 1
    <3>1. i - 1 \in 1..Len(Tail(q)) /\ Tail(q)[i - 1] = q[i]
      BY <1>1, <2>3
    <3> QED BY <3>1, <2>1 DEF InQueue
  <2> QED BY <2>2, <2>3
<1>3. ASSUME Head(q).op \in ops PROVE InQueue(q, ops)
  <2>1. 1 \in 1..Len(q)
    BY <1>1
  <2> QED BY <1>1, <1>3, <2>1 DEF InQueue
<1>4. ASSUME InQueue(Tail(q), ops) PROVE InQueue(q, ops)
  <2>1. PICK i \in 1..Len(Tail(q)) : Tail(q)[i].op \in ops
    BY <1>4 DEF InQueue
  <2>2. i + 1 \in 1..Len(q) /\ Tail(q)[i] = q[i + 1]
    BY <1>1
  <2> QED BY <2>1, <2>2 DEF InQueue
<1> QED BY <1>1, <1>2, <1>3, <1>4

\* Another task leaves the last reload the last.
LEMMA NamedPost ==
  ASSUME NEW q \in Seq(Entry), NEW op \in Ops, NEW arg \in Args, NEW name,
         Named(q, name), op # "reload"
  PROVE  Named(Post(q, op, arg), name)
<1> DEFINE p == Post(q, op, arg)
<1>1. /\ Len(p) = Len(q) + 1 /\ Len(q) \in Nat
      /\ \A i \in 1..Len(q) : p[i] = q[i]
      /\ p[Len(q) + 1].op = op
  BY Posting
<1> HIDE DEF p
<1>2. Named(p, name)
  BY <1>1 DEF Named
<1> QED BY <1>2 DEF p

\* A reload that is submitted is the last, whatever was named before it.
LEMMA NamedReload ==
  ASSUME NEW q \in Seq(Entry), NEW m \in Args
  PROVE  Named(Post(q, "reload", m), m)
<1> DEFINE p == Post(q, "reload", m)
<1>0. "reload" \in Ops
  BY DEF Ops
<1>1. /\ Len(p) = Len(q) + 1 /\ Len(q) \in Nat
      /\ p[Len(q) + 1].op = "reload" /\ p[Len(q) + 1].arg = m
  BY <1>0, Posting
<1> HIDE DEF p
<1>2. Named(p, m)
  BY <1>1 DEF Named
<1> QED BY <1>2 DEF p

\* When the executor takes its last reload, it is of the model that the chat shows.
LEMMA NamedTail ==
  ASSUME NEW q \in Seq(Entry), q # <<>>, NEW name, Named(q, name)
  PROVE  /\ Named(Tail(q), name)
         /\ Head(q).op = "reload" /\ ~InQueue(Tail(q), {"reload"}) => Head(q).arg = name
<1>1. /\ Head(q) = q[1]
      /\ Len(q) \in Nat /\ Len(q) > 0 /\ Len(Tail(q)) = Len(q) - 1
      /\ \A i \in 1..(Len(q) - 1) : Tail(q)[i] = q[i + 1]
  OBVIOUS
<1>2. ASSUME NEW i \in 1..Len(q), NEW j \in (i + 1)..Len(q)
      PROVE  j - 1 \in i..Len(Tail(q)) /\ j - 1 \in 1..Len(Tail(q)) /\ Tail(q)[j - 1] = q[j]
  BY <1>1
<1>3. Named(Tail(q), name)
  <2> SUFFICES ASSUME NEW i \in 1..Len(Tail(q)), Tail(q)[i].op = "reload",
                      Tail(q)[i].arg # name
               PROVE  \E j \in (i + 1)..Len(Tail(q)) : Tail(q)[j].op = "reload"
    BY DEF Named
  <2>1. i + 1 \in 1..Len(q) /\ Tail(q)[i] = q[i + 1]
    BY <1>1
  <2>2. PICK j \in ((i + 1) + 1)..Len(q) : q[j].op = "reload"
    BY <2>1 DEF Named
  <2>3. j - 1 \in (i + 1)..Len(Tail(q)) /\ Tail(q)[j - 1] = q[j]
    BY <2>1, <2>2, <1>2
  <2> QED BY <2>2, <2>3
<1>4. ASSUME Head(q).op = "reload", Head(q).arg # name
      PROVE  InQueue(Tail(q), {"reload"})
  <2>1. 1 \in 1..Len(q)
    BY <1>1
  <2>2. PICK j \in (1 + 1)..Len(q) : q[j].op = "reload"
    BY <1>1, <1>4, <2>1 DEF Named
  <2>3. j - 1 \in 1..Len(Tail(q)) /\ Tail(q)[j - 1] = q[j]
    BY <2>1, <2>2, <1>2
  <2> QED BY <2>2, <2>3 DEF InQueue
<1> QED BY <1>3, <1>4

\* A change of one field of a generation leaves a sequence of generations.
LEMMA GensTyped ==
  ASSUME NEW gs \in Seq(Generation), NEW g
  PROVE  /\ \A phase \in {"queued", "started", "streaming", "unanswered", "over"} :
                [gs EXCEPT ![g].phase = phase] \in Seq(Generation)
         /\ [gs EXCEPT ![g].text = TRUE] \in Seq(Generation)
<1>1. PICK n \in Nat : gs \in [1..n -> Generation]
  OBVIOUS
<1>2. ASSUME NEW phase \in {"queued", "started", "streaming", "unanswered", "over"}
      PROVE  [gs EXCEPT ![g].phase = phase] \in [1..n -> Generation]
  BY <1>1 DEF Generation
<1>3. [gs EXCEPT ![g].text = TRUE] \in [1..n -> Generation]
  BY <1>1 DEF Generation
<1>4. \A f \in [1..n -> Generation] : f \in Seq(Generation)
  BY <1>1
<1> QED BY <1>2, <1>3, <1>4

\* The executor is given a task: a reload comes with the name of its model.
LEMMA Submitting ==
  ASSUME IInv, NEW op \in Ops, NEW arg \in Args, Submit(op, arg), engine' = engine,
         modelName' = IF op = "reload" THEN arg ELSE modelName
  PROVE  /\ executorService' \in Seq(Entry)
         /\ Named(executorService', modelName')
         /\ Matches(executorService', engine', modelName')
         /\ \A ops : InQueue(executorService', ops) <=>
                         InQueue(executorService, ops) \/ op \in ops
<1>1. executorService' = Post(executorService, op, arg) /\ executorService \in Seq(Entry)
  BY DEF Submit, Post, IInv, Types
<1>2. executorService' \in Seq(Entry)
  BY <1>1, Posting
<1>3. ASSUME NEW ops
      PROVE  InQueue(executorService', ops) <=> InQueue(executorService, ops) \/ op \in ops
  BY <1>1, InPost
<1>4. CASE op = "reload"
  <2>1. Named(executorService', modelName')
    BY <1>1, <1>4, NamedReload
  <2>2. InQueue(executorService', {"reload"})
    BY <1>3, <1>4
  <2> QED BY <1>2, <1>3, <2>1, <2>2 DEF Matches
<1>5. CASE op # "reload"
  <2>1. Named(executorService', modelName')
    BY <1>1, <1>5, NamedPost DEF IInv
  <2>2. InQueue(executorService', {"reload"}) <=> InQueue(executorService, {"reload"})
    BY <1>3, <1>5
  <2> QED BY <1>2, <1>3, <1>5, <2>1, <2>2 DEF Matches, IInv
<1> QED BY <1>4, <1>5

\* An epilogue submits the task that ends the transition.
LEMMA EpilogueSubmits ==
  ASSUME IInv, NEW what \in Interruptions, NEW m \in Args, Epilogue(what, m), engine' = engine
  PROVE  /\ executorService' \in Seq(Entry)
         /\ Named(executorService', modelName')
         /\ Matches(executorService', engine', modelName')
         /\ InQueue(executorService', EndsInExecutor)
<1>1. /\ {"reset", "unload", "reload"} \subseteq Ops
      /\ {"reset", "unload", "reload"} \subseteq EndsInExecutor
      /\ NoModel \in Args
  BY DEF Ops, EndsInExecutor, Args
<1>2. CASE what = "reset"
  <2>1. Submit("reset", NoModel) /\ modelName' = modelName
    BY <1>2 DEF Epilogue
  <2> QED BY <1>1, <2>1, Submitting
<1>3. CASE what = "terminate"
  <2>1. Submit("unload", NoModel) /\ modelName' = modelName
    BY <1>3 DEF Epilogue
  <2> QED BY <1>1, <2>1, Submitting
<1>4. CASE what = "reload"
  <2>1. Submit("reload", m) /\ modelName' = m
    BY <1>4 DEF Epilogue
  <2> QED BY <1>1, <2>1, Submitting
<1> QED BY <1>2, <1>3, <1>4 DEF Interruptions

------------------------------------------------------------------------------
\* A new generation is one of the generations.
LEMMA NewTyped ==
  ASSUME IInv, NEW kind \in {"news", "chat"}, NEW n \in News \cup {NoModel},
         NewGeneration(kind, n)
  PROVE  gens' \in Seq(Generation)
<1> DEFINE new == [kind |-> kind, phase |-> "queued", text |-> FALSE, news |-> n]
<1>1. new \in Generation
  BY DEF Generation
<1> HIDE DEF new
<1>2. gens \in Seq(Generation) /\ Append(gens, new) \in Seq(Generation)
  BY <1>1 DEF IInv, Types
<1> QED BY <1>2 DEF NewGeneration, new

\* An interruption, now or when the generation has been told to stop.
LEMMA InterruptStep ==
  ASSUME IInv, NEW what \in Interruptions, NEW m \in Args, InterruptChat(what, m)
  PROVE  IInv'
<1>1. CASE Chatable /\ modelChatState' = During[what] /\ Epilogue(what, m)
           /\ UNCHANGED <<crashed, posted, engine, gens, summaryCache, failures>>
  <2>1. /\ executorService' \in Seq(Entry)
        /\ Named(executorService', modelName')
        /\ Matches(executorService', engine', modelName')
        /\ InQueue(executorService', EndsInExecutor)
    BY <1>1, EpilogueSubmits
  <2> QED BY <1>1, <2>1 DEF IInv, Types, Under
<1>2. CASE modelChatState' = During[what] /\ Submit(InterruptOp[what], m)
           /\ UNCHANGED <<crashed, posted, chat, texts, failures>>
  <2>1. /\ InterruptOp[what] \in Ops /\ InterruptOp[what] # "reload"
        /\ InterruptOp[what] \in EndsInExecutor
    BY InterruptOps DEF Ops, EndsInExecutor
  <2>2. engine' = engine /\ modelName' = modelName /\ UNCHANGED <<posted, gens>>
    BY <1>2 DEF chat, texts
  <2>3. /\ executorService' \in Seq(Entry)
        /\ Named(executorService', modelName')
        /\ Matches(executorService', engine', modelName')
        /\ InQueue(executorService', EndsInExecutor)
    BY <1>2, <2>1, <2>2, Submitting
  <2> QED BY <2>2, <2>3 DEF IInv, Types, Under
<1>3. CASE Crash("interruptChat")
  BY <1>3 DEF Crash, chat, texts, work, IInv, Types
<1> QED BY <1>1, <1>2, <1>3 DEF InterruptChat

\* A step that submits a task that is not a reload, in a chat that generates.
LEMMA GeneratingStep ==
  ASSUME IInv, NEW op \in Ops \ {"reload"}, NEW arg \in Args, Submit(op, arg),
         modelChatState' = "Generating", UNCHANGED <<modelName, engine>>,
         posted' \in Seq(Entry), gens' \in Seq(Generation)
  PROVE  IInv'
<1>1. /\ executorService' \in Seq(Entry)
      /\ Named(executorService', modelName')
      /\ Matches(executorService', engine', modelName')
  BY Submitting
<1>2. modelChatState' \notin Transitions
  BY DEF Transitions
<1> QED BY <1>1, <1>2 DEF IInv, Types, Under

\* Every press of the user keeps the invariant.
LEMMA PressStep ==
  ASSUME IInv, Press
  PROVE  IInv'
<1>0. /\ NoModel \in Args /\ Models \subseteq Args /\ {"reset", "reload", "terminate"} = Interruptions
      /\ {"image", "chat", "news"} \subseteq Ops \ {"reload"} /\ "fail" \in Ops
      /\ Len(gens) + 1 \in Args
  BY DEF Args, Interruptions, Ops, IInv, Types
<1>1. ASSUME NEW m \in Models, RequestReloadChat(m) PROVE IInv'
  <2>1. CASE InterruptChat("reload", m)
    BY <1>0, <2>1, InterruptStep
  <2>2. CASE Crash("request")
    BY <2>2 DEF Crash, chat, texts, work, IInv, Types
  <2> QED BY <1>1, <2>1, <2>2 DEF RequestReloadChat
<1>2. CASE RequestResetChat
  BY <1>0, <1>2, InterruptStep DEF RequestResetChat
<1>3. CASE RequestTerminateChat
  <2>1. CASE InterruptChat("terminate", NoModel)
    BY <1>0, <2>1, InterruptStep
  <2>2. CASE Crash("request")
    BY <2>2 DEF Crash, chat, texts, work, IInv, Types
  <2> QED BY <1>3, <2>1, <2>2 DEF RequestTerminateChat
<1>4. CASE RequestImageBitmap
  <2>1. /\ Submit("image", NoModel) /\ modelChatState' = "Generating"
        /\ UNCHANGED <<modelName, engine>> /\ posted' \in Seq(Entry)
        /\ gens' \in Seq(Generation)
    BY <1>4 DEF RequestImageBitmap, chat, texts, IInv, Types
  <2> QED BY <1>0, <2>1, GeneratingStep
<1>5. CASE RequestGenerate
  <2>1. gens' \in Seq(Generation)
    BY <1>5, NewTyped DEF RequestGenerate
  <2>2. /\ Submit("chat", Len(gens) + 1) /\ modelChatState' = "Generating"
        /\ UNCHANGED <<modelName, engine>> /\ posted' \in Seq(Entry)
    BY <1>5 DEF RequestGenerate, chat, IInv, Types
  <2> QED BY <1>0, <2>1, <2>2, GeneratingStep
<1>6. ASSUME NEW n \in News, SummarizeNews(n) PROVE IInv'
  <2>0. posted \in Seq(Entry) /\ Post(posted, "fail", NoModel) \in Seq(Entry)
    BY <1>0, Posting DEF IInv, Types
  <2>1. CASE Crash("summarizeNews")
    BY <2>1 DEF Crash, chat, texts, work, IInv, Types
  <2>2. CASE /\ CallBackend(posted) /\ modelChatState' = "Generating"
             /\ UNCHANGED <<gens, executorService>> /\ UNCHANGED <<crashed, chat>>
    <3>1. posted' \in Seq(Entry)
      BY <2>0, <2>2 DEF CallBackend
    <3>2. modelChatState' \notin Transitions
      BY <2>2 DEF Transitions
    <3> QED BY <2>2, <3>1, <3>2 DEF IInv, Types, Under, chat
  <2>3. CASE /\ CallBackend(posted) /\ modelChatState' = "Generating"
             /\ NewGeneration("news", n) /\ Submit("news", Len(gens) + 1)
             /\ UNCHANGED <<crashed, chat>>
    <3>1. posted' \in Seq(Entry)
      BY <2>0, <2>3 DEF CallBackend
    <3>2. gens' \in Seq(Generation)
      BY <2>3, NewTyped
    <3>3. UNCHANGED <<modelName, engine>>
      BY <2>3 DEF chat
    <3> QED BY <1>0, <2>3, <3>1, <3>2, <3>3, GeneratingStep
  <2> QED BY <1>6, <2>1, <2>2, <2>3 DEF SummarizeNews
<1> QED BY <1>1, <1>2, <1>3, <1>4, <1>5, <1>6 DEF Press

\* What the executor has left when it has run its first task.
LEMMA TaskTaken ==
  ASSUME IInv, executorService # <<>>, executorService' = Tail(executorService)
  PROVE  /\ executorService' \in Seq(Entry) /\ Head(executorService) \in Entry
         /\ Named(executorService', modelName)
         /\ ~InQueue(executorService', {"reload"}) =>
                IF Head(executorService).op = "reload" THEN Head(executorService).arg = modelName
                                                       ELSE engine \in {modelName, NoModel}
         /\ InQueue(executorService, EndsInExecutor) =>
                \/ Head(executorService).op \in EndsInExecutor
                \/ InQueue(executorService', EndsInExecutor)
<1>1. executorService \in Seq(Entry)
  BY DEF IInv, Types
<1>2. /\ executorService' \in Seq(Entry) /\ Head(executorService) \in Entry
      /\ InQueue(executorService, EndsInExecutor) =>
                \/ Head(executorService).op \in EndsInExecutor
                \/ InQueue(executorService', EndsInExecutor)
      /\ InQueue(executorService, {"reload"}) <=>
                Head(executorService).op = "reload" \/ InQueue(executorService', {"reload"})
  BY <1>1, InTail
<1>3. /\ Named(executorService', modelName)
      /\ Head(executorService).op = "reload" /\ ~InQueue(executorService', {"reload"}) =>
             Head(executorService).arg = modelName
  BY <1>1, NamedTail DEF IInv
<1> QED BY <1>2, <1>3 DEF IInv, Matches

\* The executor, having posted what follows its task.
LEMMA TaskStep ==
  ASSUME IInv, executorService # <<>>, executorService' = Tail(executorService),
         UNCHANGED <<modelChatState, modelName>>,
         posted' \in Seq(Entry), gens' \in Seq(Generation),
         InQueue(posted, EndsPosted) => InQueue(posted', EndsPosted),
         Head(executorService).op \in EndsInExecutor => InQueue(posted', EndsPosted),
         \/ engine' = NoModel
         \/ engine' = IF Head(executorService).op = "reload" THEN Head(executorService).arg
                                                           ELSE engine
  PROVE  IInv'
<1>1. /\ executorService' \in Seq(Entry)
      /\ Named(executorService', modelName')
      /\ Matches(executorService', engine', modelName')
  BY TaskTaken DEF Matches
<1>2. Under(modelChatState', executorService', posted')
  BY TaskTaken DEF IInv, Under
<1> QED BY <1>1, <1>2 DEF IInv, Types

\* Every task of the executor keeps the invariant.
LEMMA RunTaskStep ==
  ASSUME IInv, RunTask
  PROVE  IInv'
<1> DEFINE task == Head(executorService)
<1>0. /\ executorService # <<>> /\ executorService' = Tail(executorService)
      /\ UNCHANGED <<modelChatState, modelName>>
  BY DEF RunTask
<1>1. /\ task \in Entry /\ task.op \in Ops /\ task.arg \in Args
      /\ posted \in Seq(Entry) /\ gens \in Seq(Generation)
  BY <1>0, TaskTaken DEF IInv, Types, Entry
<1>2. /\ {"cleared", "terminated", "ready", "fail"} \subseteq Ops \cap EndsPosted
      /\ {"image", "create"} \subseteq Ops /\ NoModel \in Args
      /\ {"image", "news", "chat"} \cap EndsInExecutor = {}
      /\ \A what \in Interruptions : InterruptOp[what] \in EndsPosted /\ InterruptOp[what] # "reload"
  BY InterruptOps DEF Ops, EndsPosted, EndsInExecutor, Args
<1>3. ASSUME NEW q \in Seq(Entry), NEW op \in Ops, NEW arg \in Args
      PROVE  /\ Post(q, op, arg) \in Seq(Entry)
             /\ InQueue(q, EndsPosted) \/ op \in EndsPosted =>
                    InQueue(Post(q, op, arg), EndsPosted)
  BY Posting, InPost
<1>4. ASSUME NEW op \in {"cleared", "terminated"}, BackendThen(op)
      PROVE  posted' \in Seq(Entry) /\ InQueue(posted', EndsPosted)
  <2>1. Post(posted, "fail", NoModel) \in Seq(Entry)
    BY <1>1, <1>2, <1>3
  <2> QED BY <1>1, <1>2, <1>3, <1>4, <2>1 DEF BackendThen
<1>5. CASE task.op = "reset" /\ BackendThen("cleared") /\ UNCHANGED <<engine, gens>>
  BY <1>0, <1>1, <1>4, <1>5, TaskStep
<1>6. CASE task.op = "unload" /\ BackendThen("terminated") /\ engine' = NoModel
           /\ UNCHANGED gens
  BY <1>0, <1>1, <1>4, <1>6, TaskStep
<1>7. CASE task.op = "reload" /\ ReloadTask(task.arg) /\ UNCHANGED gens
  <2>1. posted' \in Seq(Entry) /\ InQueue(posted', EndsPosted)
    BY <1>1, <1>2, <1>3, <1>7 DEF ReloadTask
  <2>2. engine' = NoModel \/ engine' = task.arg
    BY <1>7 DEF ReloadTask
  <2> QED BY <1>0, <1>1, <1>7, <2>1, <2>2, TaskStep
<1>8. CASE task.op = "image" /\ posted' = Post(posted, "image", NoModel)
           /\ UNCHANGED <<engine, gens>>
  BY <1>0, <1>1, <1>2, <1>3, <1>8, TaskStep
<1>9. CASE task.op = "news" /\ gens' = [gens EXCEPT ![task.arg].phase = "started"]
           /\ UNCHANGED <<engine, posted>>
  <2>1. gens' \in Seq(Generation)
    BY <1>1, <1>9, GensTyped
  <2> QED BY <1>0, <1>1, <1>2, <1>9, <2>1, TaskStep
<1>10. CASE task.op = "chat" /\ posted' = Post(posted, "create", task.arg)
            /\ UNCHANGED <<engine, gens>>
  BY <1>0, <1>1, <1>2, <1>3, <1>10, TaskStep
<1>11. CASE /\ task.op \in {InterruptOp[what] : what \in Interruptions}
            /\ posted' = Append(posted, task) /\ UNCHANGED <<engine, gens>>
  <2>1. posted' = Post(posted, task.op, task.arg)
    BY <1>1, <1>11 DEF Post, Entry
  <2>2. task.op \in EndsPosted /\ task.op # "reload"
    BY <1>2, <1>11
  <2> QED BY <1>0, <1>1, <1>3, <1>11, <2>1, <2>2, TaskStep
<1> QED BY <1>5, <1>6, <1>7, <1>8, <1>9, <1>10, <1>11 DEF RunTask

\* Everything that is posted to the main thread keeps the invariant.
LEMMA RunPostedStep ==
  ASSUME IInv, RunPosted
  PROVE  IInv'
<1> DEFINE next == Head(posted)
<1>0. posted # <<>> /\ posted' = Tail(posted) /\ engine' = engine
  BY DEF RunPosted
<1>1. /\ posted \in Seq(Entry) /\ gens \in Seq(Generation) /\ executorService \in Seq(Entry)
      /\ Under(modelChatState, executorService, posted)
  BY DEF IInv, Types
<1>2. /\ next \in Entry /\ next.op \in Ops /\ next.arg \in Args /\ posted' \in Seq(Entry)
      /\ InQueue(posted, EndsPosted) => next.op \in EndsPosted \/ InQueue(posted', EndsPosted)
  BY <1>0, <1>1, InTail DEF Entry
<1>3. ASSUME modelChatState' \notin Transitions, gens' \in Seq(Generation),
             UNCHANGED <<modelName, executorService>>
      PROVE  IInv'
  BY <1>0, <1>2, <1>3 DEF IInv, Types, Under
<1>4. {"image", "create"} \cap EndsPosted = {}
  BY InterruptOps DEF EndsPosted
<1>5. CASE next.op \in {"cleared", "terminated", "ready", "fail"}
           /\ modelChatState' \in {"Ready", "Falied"} /\ UNCHANGED <<modelName, gens, executorService>>
  BY <1>1, <1>3, <1>5 DEF Transitions
<1>6. CASE next.op \in {"image", "create"} /\ modelChatState' \in {modelChatState, "Ready"}
           /\ gens' \in Seq(Generation) /\ UNCHANGED <<modelName, executorService>>
  <2>1. CASE modelChatState' \notin Transitions
    BY <1>3, <1>6, <2>1
  <2>2. CASE modelChatState' \in Transitions
    <3>1. modelChatState' = modelChatState
      BY <1>6, <2>2 DEF Transitions
    <3>2. Under(modelChatState', executorService', posted')
      BY <1>1, <1>2, <1>4, <1>6, <3>1 DEF Under
    <3> QED BY <1>0, <1>2, <1>6, <3>2 DEF IInv, Types
  <2> QED BY <2>1, <2>2
<1>7. ASSUME NEW what \in Interruptions, Epilogue(what, next.arg), UNCHANGED <<modelChatState, gens>>
      PROVE  IInv'
  <2>1. /\ executorService' \in Seq(Entry)
        /\ Named(executorService', modelName')
        /\ Matches(executorService', engine', modelName')
        /\ InQueue(executorService', EndsInExecutor)
    BY <1>0, <1>2, <1>7, EpilogueSubmits
  <2> QED BY <1>1, <1>2, <1>7, <2>1 DEF IInv, Types, Under
<1>8. CASE next.op = "create" /\ gens' = [gens EXCEPT ![next.arg].phase = Requested]
           /\ UNCHANGED <<modelChatState, modelName, messages, historyMessages, executorService>>
  <2>1. gens' \in Seq(Generation)
    BY <1>1, <1>8, GensTyped DEF Requested
  <2> QED BY <1>6, <1>8, <2>1
<1>9. CASE next.op = "image" /\ UNCHANGED <<modelName, texts, executorService>>
           /\ modelChatState' = IF modelChatState = "Generating" THEN "Ready" ELSE modelChatState
  BY <1>1, <1>6, <1>9 DEF texts
<1>10. CASE next.op = "ready" /\ modelChatState' = "Ready" /\ UNCHANGED <<modelName, texts, executorService>>
  BY <1>5, <1>10 DEF texts
<1> QED BY <1>5, <1>7, <1>8, <1>9, <1>10 DEF RunPosted

\* The steps of a generation keep the invariant.
LEMMA GenerateStep ==
  ASSUME IInv, NEW g, Generate(g)
  PROVE  IInv'
<1>1. /\ gens \in Seq(Generation) /\ posted \in Seq(Entry)
      /\ "fail" \in Ops /\ NoModel \in Args
  BY DEF IInv, Types, Ops, Args
<1>2. CASE CreateNews(g)
  <2>1. gens' \in Seq(Generation)
    BY <1>1, <1>2, GensTyped DEF CreateNews, Requested
  <2> QED BY <1>2, <2>1 DEF CreateNews, IInv, Types, chat, work
<1>3. CASE Delta(g)
  <2>1. gens' \in Seq(Generation)
    BY <1>1, <1>3, GensTyped DEF Delta
  <2>2. /\ posted' \in Seq(Entry)
        /\ InQueue(posted, EndsPosted) => InQueue(posted', EndsPosted)
    BY <1>1, <1>3, Posting, InPost DEF Delta
  <2>3. UNCHANGED <<modelChatState, modelName, engine, executorService>>
    BY <1>3 DEF Delta, chat
  <2> QED BY <2>1, <2>2, <2>3 DEF IInv, Types, Under
<1>4. CASE FinishChat(g)
  <2>1. gens' \in Seq(Generation)
    BY <1>1, <1>4, GensTyped DEF FinishChat
  <2>2. UNCHANGED <<modelName, engine, executorService, posted>>
    BY <1>4 DEF FinishChat, chat, work
  <2>3. modelChatState' \in Transitions => modelChatState \in Transitions
    BY <1>4 DEF FinishChat, Transitions
  <2> QED BY <2>1, <2>2, <2>3 DEF IInv, Types, Under
<1>5. CASE FinishNews(g)
  <2>1. CASE Crash("updateMessage")
    BY <2>1 DEF Crash, chat, texts, work, IInv, Types
  <2>2. CASE /\ gens' = [gens EXCEPT ![g].phase = "over"] /\ modelChatState' = "Ready"
             /\ UNCHANGED <<modelName, engine, work, crashed, failures>>
    <3>1. gens' \in Seq(Generation)
      BY <1>1, <2>2, GensTyped
    <3>2. modelChatState' \notin Transitions
      BY <2>2 DEF Transitions
    <3> QED BY <2>2, <3>1, <3>2 DEF IInv, Types, Under, work
  <2> QED BY <1>5, <2>1, <2>2 DEF FinishNews
<1> QED BY <1>2, <1>3, <1>4, <1>5 DEF Generate

------------------------------------------------------------------------------
\* The invariant holds in every state.
LEMMA Invariant == Spec => []IInv
<1>1. Init => IInv
  <2> SUFFICES ASSUME Init PROVE IInv
    OBVIOUS
  <2>1. executorService = <<>> /\ posted = <<>> /\ gens = <<>>
    BY DEF Init
  <2>2. Types /\ Named(executorService, modelName)
    BY <2>1 DEF Types, Named
  <2>3. modelChatState \notin Transitions /\ engine = NoModel
    BY DEF Init, Transitions
  <2> QED BY <2>2, <2>3 DEF IInv, Under, Matches
<1>2. IInv /\ [Next]_vars => IInv'
  <2> SUFFICES ASSUME IInv, [Next]_vars PROVE IInv'
    OBVIOUS
  <2>1. CASE UNCHANGED vars
    BY <2>1 DEF vars, chat, texts, work, IInv, Types
  <2> QED BY <2>1, PressStep, RunTaskStep, RunPostedStep, GenerateStep DEF Next
<1> QED BY <1>1, <1>2, PTL DEF Spec

\* However presses, tasks, continuations, generations and failures of the engine
\* interleave, a chat that is being reset, reloaded or terminated (interruptChat) has
\* what ends that under way, in the executor or on its way to the main thread.
THEOREM TransitionsUnderWay == Spec => []TransitionUnderWay
<1>1. IInv => TransitionUnderWay
  BY DEF IInv, Under, TransitionUnderWay, EndsInExecutor, EndsPosted
<1> QED BY <1>1, Invariant, PTL

\* With no reload waiting, the engine that the executor drives never holds another
\* model than the one that mainReloadChat showed last.
THEOREM EngineNamed == Spec => []EngineMatchesName
<1>1. IInv => EngineMatchesName
  BY DEF IInv, Matches, EngineMatchesName
<1> QED BY <1>1, Invariant, PTL

------------------------------------------------------------------------------
(* Types. *)

\* The generation of a summary knows its piece of news, which TypeOK needs when
\* the summary is cached.
NewsNamed == \A g \in DOMAIN gens : gens[g].kind = "news" => gens[g].news \in News

\* A queue keeps its type when an entry of that type is appended.
LEMMA Appending ==
  ASSUME NEW S, NEW q \in Seq(S), NEW op, NEW arg, [op |-> op, arg |-> arg] \in S
  PROVE  Post(q, op, arg) \in Seq(S)
<1> DEFINE e == [op |-> op, arg |-> arg]
<1>1. e \in S
  OBVIOUS
<1> HIDE DEF e
<1>2. Append(q, e) \in Seq(S)
  BY <1>1
<1> QED BY <1>2 DEF Post, e

\* A sequence keeps its type when one of its elements is replaced.
LEMMA Replacing ==
  ASSUME NEW S, NEW q \in Seq(S), NEW i, NEW v \in S
  PROVE  [q EXCEPT ![i] = v] \in Seq(S)
<1>1. PICK n \in Nat : q \in [1..n -> S]
  OBVIOUS
<1>2. [q EXCEPT ![i] = v] \in [1..n -> S]
  BY <1>1
<1> QED BY <1>2

\* The tasks that are submitted, and the continuations that are posted.
LEMMA Entries ==
  /\ \A op \in {"reset", "unload", "image", "interrupt reset", "interrupt terminate"} :
         [op |-> op, arg |-> NoModel] \in Task
  /\ \A op \in {"reload", "interrupt reload"}, m \in Models : [op |-> op, arg |-> m] \in Task
  /\ \A op \in {"news", "chat"}, g \in 1..MaxGens : [op |-> op, arg |-> g] \in Task
  /\ \A op \in {"cleared", "terminated", "ready", "image", "fail"} :
         [op |-> op, arg |-> NoModel] \in Continuation
  /\ \A g \in 1..MaxGens : [op |-> "create", arg |-> g] \in Continuation
  /\ \A t \in Task : /\ t.op = "reload" => t.arg \in Models
                     /\ t.op \in {"news", "chat"} => t.arg \in 1..MaxGens
                     /\ t.op \in {"interrupt reset", "interrupt reload", "interrupt terminate"}
                          => t \in Continuation
  /\ \A p \in Continuation : /\ p.op = "create" => p.arg \in 1..MaxGens
                             /\ p.op = "interrupt reload" => p.arg \in Models
  BY DEF Task, Continuation

\* The types of a generation that is changed or new.
LEMMA GenerationTypes ==
  ASSUME NEW gs \in Seq(Generation), NEW g
  PROVE  /\ \A phase \in {"queued", "started", "streaming", "unanswered", "over"} :
                /\ [gs EXCEPT ![g].phase = phase] \in Seq(Generation)
                /\ Len([gs EXCEPT ![g].phase = phase]) = Len(gs)
         /\ [gs EXCEPT ![g].text = TRUE] \in Seq(Generation)
         /\ Len([gs EXCEPT ![g].text = TRUE]) = Len(gs)
<1>1. \A phase \in {"queued", "started", "streaming", "unanswered", "over"} :
         [gs EXCEPT ![g].phase = phase] \in Seq(Generation)
  BY GensTyped
<1>2. [gs EXCEPT ![g].text = TRUE] \in Seq(Generation)
  BY GensTyped
<1>3. \A f \in Seq(Generation) : DOMAIN f = DOMAIN gs => Len(f) = Len(gs)
  OBVIOUS
<1>4. /\ \A phase : DOMAIN [gs EXCEPT ![g].phase = phase] = DOMAIN gs
      /\ DOMAIN [gs EXCEPT ![g].text = TRUE] = DOMAIN gs
  OBVIOUS
<1> QED BY <1>1, <1>2, <1>3, <1>4, Zenon

\* The epilogues keep the types of what they change.
LEMMA EpilogueTypes ==
  ASSUME TypeOK, NEW what \in Interruptions, NEW m,
         what = "reload" => m \in Models, Epilogue(what, m)
  PROVE  /\ executorService' \in Seq(Task) /\ messages' \in Seq(0..MaxGens)
         /\ historyMessages' \in Seq({"system", "user", "assistant"})
         /\ modelName' \in Models \cup {NoModel}
<1>0. executorService \in Seq(Task)
  BY DEF TypeOK
<1>1. CASE what = "reset"
  <2>1. executorService' = Post(executorService, "reset", NoModel)
    BY <1>1 DEF Epilogue, Submit, Post
  <2>2. executorService' \in Seq(Task)
    BY <1>0, <2>1, Appending, Entries
  <2> QED BY <1>1, <2>2 DEF Epilogue, TypeOK
<1>2. CASE what = "terminate"
  <2>1. executorService' = Post(executorService, "unload", NoModel)
    BY <1>2 DEF Epilogue, Submit, Post
  <2>2. executorService' \in Seq(Task)
    BY <1>0, <2>1, Appending, Entries
  <2> QED BY <1>2, <2>2 DEF Epilogue, TypeOK
<1>3. CASE what = "reload"
  <2>1. executorService' = Post(executorService, "reload", m) /\ m \in Models
    BY <1>3 DEF Epilogue, Submit, Post
  <2>2. executorService' \in Seq(Task)
    BY <1>0, <2>1, Appending, Entries
  <2> QED BY <1>3, <2>1, <2>2 DEF Epilogue, TypeOK
<1> QED BY <1>1, <1>2, <1>3 DEF Interruptions

\* So does an interruption.
LEMMA InterruptTypes ==
  ASSUME TypeOK, NEW what \in Interruptions, NEW m, m \in Models \cup {NoModel},
         what = "reload" <=> m \in Models, InterruptChat(what, m),
         presses' \in 0..MaxPresses, interrupted' \in BOOLEAN
  PROVE  TypeOK'
<1>1. During[what] \in ModelChatState
  BY DEF During, ModelChatState, Interruptions
<1>2. CASE /\ modelChatState' = During[what] /\ Epilogue(what, m)
           /\ UNCHANGED <<crashed, posted, engine, gens, summaryCache, failures>>
  <2>1. /\ executorService' \in Seq(Task) /\ messages' \in Seq(0..MaxGens)
        /\ historyMessages' \in Seq({"system", "user", "assistant"})
        /\ modelName' \in Models \cup {NoModel}
    BY <1>2, EpilogueTypes
  <2> QED BY <1>1, <1>2, <2>1 DEF TypeOK
<1>3. CASE modelChatState' = During[what] /\ Submit(InterruptOp[what], m)
           /\ UNCHANGED <<crashed, posted, chat, texts, failures>>
  <2>1. executorService' = Post(executorService, InterruptOp[what], m)
    BY <1>3 DEF Submit, Post
  <2>2. [op |-> InterruptOp[what], arg |-> m] \in Task
    BY InterruptOps, Entries
  <2>3. executorService' \in Seq(Task)
    BY <2>1, <2>2, Appending DEF TypeOK
  <2> QED BY <1>1, <1>3, <2>3 DEF TypeOK, chat, texts
<1>4. CASE Crash("interruptChat")
  BY <1>4 DEF Crash, chat, texts, work, TypeOK
<1> QED BY <1>2, <1>3, <1>4 DEF InterruptChat

\* So does every press.
LEMMA PressTypes ==
  ASSUME TypeOK, Press
  PROVE  TypeOK'
<1>0. /\ presses' \in 0..MaxPresses /\ interrupted' \in BOOLEAN
      /\ Len(gens) \in Nat /\ Len(gens) <= MaxGens
  BY ConstantsAssumption DEF Press, TypeOK
<1>1. ASSUME NEW what \in Interruptions, NEW m, m \in Models \cup {NoModel},
             what = "reload" <=> m \in Models, InterruptChat(what, m)
      PROVE  TypeOK'
  BY <1>0, <1>1, InterruptTypes
<1>2. ASSUME NEW where \in {"summarizeNews", "request"}, Crash(where) PROVE TypeOK'
  BY <1>0, <1>2 DEF Crash, chat, texts, work, TypeOK
<1>3. {"reset", "reload", "terminate"} = Interruptions /\ NoModel \notin Models
  BY ConstantsAssumption DEF Interruptions
<1>4. ASSUME NEW kind \in {"news", "chat"}, NEW n \in News \cup {NoModel},
             Len(gens) < MaxGens, NewGeneration(kind, n), Submit(kind, Len(gens) + 1)
      PROVE  /\ gens' \in Seq(Generation) /\ Len(gens') <= MaxGens
             /\ executorService' \in Seq(Task) /\ Len(gens) + 1 \in 0..MaxGens
  <2> DEFINE new == [kind |-> kind, phase |-> "queued", text |-> FALSE, news |-> n]
  <2>1. new \in Generation
    BY DEF Generation
  <2> HIDE DEF new
  <2>2. gens \in Seq(Generation) /\ gens' = Append(gens, new)
    BY <1>4 DEF TypeOK, NewGeneration, new
  <2>3. Len(gens) + 1 \in 1..MaxGens
    BY <1>0, <1>4, ConstantsAssumption
  <2>4. gens' \in Seq(Generation) /\ Len(gens') = Len(gens) + 1
    BY <2>1, <2>2
  <2>5. executorService' = Post(executorService, kind, Len(gens) + 1)
    BY <1>4 DEF Submit, Post
  <2>6. executorService' \in Seq(Task)
    BY <2>3, <2>5, Appending, Entries DEF TypeOK
  <2> QED BY <2>3, <2>4, <2>6
<1>5. CASE \E m \in Models : RequestReloadChat(m)
  BY <1>1, <1>2, <1>3, <1>5 DEF RequestReloadChat
<1>6. CASE RequestResetChat
  BY <1>1, <1>3, <1>6 DEF RequestResetChat
<1>7. CASE RequestTerminateChat
  BY <1>1, <1>2, <1>3, <1>7 DEF RequestTerminateChat
<1>8. CASE RequestImageBitmap
  <2>1. executorService' = Post(executorService, "image", NoModel)
    BY <1>8 DEF RequestImageBitmap, Submit, Post
  <2>2. executorService' \in Seq(Task)
    BY <2>1, Appending, Entries DEF TypeOK
  <2> QED BY <1>0, <1>8, <2>2 DEF RequestImageBitmap, TypeOK, ModelChatState, chat, texts
<1>9. CASE RequestGenerate
  <2>1. /\ gens' \in Seq(Generation) /\ Len(gens') <= MaxGens
        /\ executorService' \in Seq(Task) /\ Len(gens) + 1 \in 0..MaxGens
    BY <1>4, <1>9 DEF RequestGenerate
  <2>2. messages' \in Seq(0..MaxGens)
    <3>1. <<0, Len(gens) + 1>> \in Seq(0..MaxGens) /\ messages \in Seq(0..MaxGens)
      BY <2>1, ConstantsAssumption DEF TypeOK
    <3> QED BY <3>1, <1>9 DEF RequestGenerate
  <2> QED BY <1>0, <1>9, <2>1, <2>2 DEF RequestGenerate, TypeOK, ModelChatState, chat
<1>10. ASSUME NEW n \in News, SummarizeNews(n) PROVE TypeOK'
  <2>1. CASE Crash("summarizeNews")
    BY <1>2, <2>1
  <2>2. ASSUME CallBackend(posted)
        PROVE  posted' \in Seq(Continuation) /\ failures' \in 0..MaxFailures
    <3>1. posted \in Seq(Continuation) /\ failures \in 0..MaxFailures
      BY DEF TypeOK
    <3>2. Post(posted, "fail", NoModel) \in Seq(Continuation)
      BY <3>1, Appending, Entries
    <3> QED BY <2>2, <3>1, <3>2, ConstantsAssumption DEF CallBackend
  <2>3. CASE /\ CallBackend(posted) /\ modelChatState' = "Generating"
             /\ messages' = <<0, 0, 0>> /\ historyMessages' = <<>>
             /\ UNCHANGED <<gens, executorService>> /\ UNCHANGED <<crashed, chat>>
    <3>1. <<0, 0, 0>> \in Seq(0..MaxGens)
      BY ConstantsAssumption
    <3> QED BY <1>0, <2>2, <2>3, <3>1 DEF TypeOK, ModelChatState, chat
  <2>4. CASE /\ CallBackend(posted) /\ modelChatState' = "Generating" /\ Len(gens) < MaxGens
             /\ messages' = <<0, 0, Len(gens) + 1>> /\ historyMessages' = <<"system", "user">>
             /\ NewGeneration("news", n) /\ Submit("news", Len(gens) + 1)
             /\ UNCHANGED <<crashed, chat>>
    <3>1. /\ gens' \in Seq(Generation) /\ Len(gens') <= MaxGens
          /\ executorService' \in Seq(Task) /\ Len(gens) + 1 \in 0..MaxGens
      BY <1>4, <2>4
    <3>2. messages' \in Seq(0..MaxGens)
      BY <2>4, <3>1, ConstantsAssumption
    <3>3. historyMessages' \in Seq({"system", "user", "assistant"})
      BY <2>4
    <3> QED BY <1>0, <2>2, <2>4, <3>1, <3>2, <3>3 DEF TypeOK, ModelChatState, chat
  <2> QED BY <1>10, <2>1, <2>3, <2>4 DEF SummarizeNews
<1> QED BY <1>5, <1>6, <1>7, <1>8, <1>9, <1>10 DEF Press

\* So does every task of the executor.
LEMMA RunTaskTypes ==
  ASSUME TypeOK, RunTask
  PROVE  TypeOK'
<1> DEFINE task == Head(executorService)
<1>0. /\ executorService # <<>> /\ executorService' = Tail(executorService)
      /\ UNCHANGED <<modelChatState, modelName, messages, summaryCache, crashed, presses, interrupted>>
  BY DEF RunTask
<1>1. /\ task \in Task /\ executorService' \in Seq(Task)
      /\ posted \in Seq(Continuation) /\ failures \in 0..MaxFailures
      /\ gens \in Seq(Generation) /\ Len(gens) <= MaxGens
      /\ historyMessages \in Seq({"system", "user", "assistant"})
  BY <1>0 DEF TypeOK
<1>2. ASSUME NEW op \in {"cleared", "terminated", "ready", "image", "fail"},
             NEW q \in Seq(Continuation)
      PROVE  Post(q, op, NoModel) \in Seq(Continuation)
  BY Appending, Entries
<1>3. ASSUME posted' \in Seq(Continuation), failures' \in 0..MaxFailures,
             gens' \in Seq(Generation), Len(gens') <= MaxGens,
             engine' \in Models \cup {NoModel},
             historyMessages' \in Seq({"system", "user", "assistant"})
      PROVE  TypeOK'
  BY <1>0, <1>1, <1>3 DEF TypeOK
<1>4. ASSUME NEW op \in {"cleared", "terminated"}, BackendThen(op)
      PROVE  posted' \in Seq(Continuation) /\ failures' \in 0..MaxFailures
  <2>1. Post(posted, "fail", NoModel) \in Seq(Continuation)
    BY <1>1, <1>2
  <2>2. /\ Post(posted, op, NoModel) \in Seq(Continuation)
        /\ Post(Post(posted, "fail", NoModel), op, NoModel) \in Seq(Continuation)
    BY <1>1, <1>2, <2>1
  <2> QED BY <1>1, <1>4, <2>2, ConstantsAssumption DEF BackendThen
<1>5. CASE task.op = "reset" /\ historyMessages' = <<>> /\ BackendThen("cleared")
           /\ UNCHANGED <<engine, gens>>
  BY <1>1, <1>3, <1>4, <1>5 DEF TypeOK
<1>6. CASE task.op = "unload" /\ BackendThen("terminated") /\ engine' = NoModel
           /\ UNCHANGED <<historyMessages, gens>>
  BY <1>1, <1>3, <1>4, <1>6
<1>7. CASE task.op = "reload" /\ ReloadTask(task.arg) /\ UNCHANGED <<historyMessages, gens>>
  <2>1. task.arg \in Models
    BY <1>1, <1>7, Entries
  <2>2. /\ posted' \in Seq(Continuation) /\ failures' \in 0..MaxFailures
        /\ engine' \in Models \cup {NoModel}
    BY <1>1, <1>2, <1>7, <2>1, ConstantsAssumption DEF ReloadTask
  <2> QED BY <1>1, <1>3, <1>7, <2>2
<1>8. CASE task.op = "image" /\ posted' = Post(posted, "image", NoModel)
           /\ UNCHANGED <<historyMessages, engine, gens, failures>>
  <2>1. posted' \in Seq(Continuation)
    BY <1>1, <1>2, <1>8
  <2> QED BY <1>1, <1>3, <1>8, <2>1 DEF TypeOK
<1>9. CASE task.op = "news" /\ gens' = [gens EXCEPT ![task.arg].phase = "started"]
           /\ UNCHANGED <<historyMessages, engine, posted, failures>>
  <2>1. gens' \in Seq(Generation) /\ Len(gens') = Len(gens)
    BY <1>1, <1>9, GenerationTypes
  <2> QED BY <1>1, <1>3, <1>9, <2>1 DEF TypeOK
<1>10. CASE task.op = "chat" /\ historyMessages' = Append(historyMessages, "user")
            /\ posted' = Post(posted, "create", task.arg) /\ UNCHANGED <<engine, gens, failures>>
  <2>1. task.arg \in 1..MaxGens
    BY <1>1, <1>10, Entries
  <2>2. posted' \in Seq(Continuation)
    BY <1>1, <1>10, <2>1, Appending, Entries
  <2>3. historyMessages' \in Seq({"system", "user", "assistant"})
    BY <1>1, <1>10
  <2> QED BY <1>1, <1>3, <1>10, <2>2, <2>3 DEF TypeOK
<1>11. CASE /\ task.op \in {InterruptOp[what] : what \in Interruptions}
            /\ posted' = Append(posted, task)
            /\ UNCHANGED <<historyMessages, engine, gens, failures>>
  <2>1. task \in Continuation
    BY <1>1, <1>11, InterruptOps, Entries
  <2>2. posted' \in Seq(Continuation)
    BY <1>1, <1>11, <2>1
  <2> QED BY <1>1, <1>3, <1>11, <2>2 DEF TypeOK
<1> QED BY <1>5, <1>6, <1>7, <1>8, <1>9, <1>10, <1>11 DEF RunTask

\* So does everything that is posted to the main thread.
LEMMA RunPostedTypes ==
  ASSUME TypeOK, RunPosted
  PROVE  TypeOK'
<1> DEFINE next == Head(posted)
<1>0. /\ posted # <<>> /\ posted' = Tail(posted)
      /\ UNCHANGED <<engine, summaryCache, crashed, presses, failures, interrupted>>
  BY DEF RunPosted
<1>1. /\ next \in Continuation /\ posted' \in Seq(Continuation)
      /\ gens \in Seq(Generation) /\ Len(gens) <= MaxGens /\ messages \in Seq(0..MaxGens)
  BY <1>0 DEF TypeOK
<1>2. ASSUME modelChatState' \in ModelChatState, modelName' \in Models \cup {NoModel},
             executorService' \in Seq(Task), messages' \in Seq(0..MaxGens),
             historyMessages' \in Seq({"system", "user", "assistant"}),
             gens' \in Seq(Generation), Len(gens') <= MaxGens
      PROVE  TypeOK'
  BY <1>0, <1>1, <1>2 DEF TypeOK
<1>3. CASE /\ messages' = <<>> /\ historyMessages' = <<>> /\ modelChatState' = "Ready"
           /\ UNCHANGED <<modelName, gens, executorService>>
  BY <1>2, <1>3 DEF TypeOK, ModelChatState
<1>4. CASE modelChatState' \in {modelChatState, "Ready"} /\ UNCHANGED <<modelName, texts, executorService>>
  BY <1>2, <1>4 DEF TypeOK, ModelChatState, texts
<1>5. CASE /\ messages' = Append(messages, 0) /\ modelChatState' = "Falied"
           /\ UNCHANGED <<modelName, historyMessages, gens, executorService>>
  <2>1. messages' \in Seq(0..MaxGens)
    BY <1>1, <1>5, ConstantsAssumption
  <2> QED BY <1>2, <1>5, <2>1 DEF TypeOK, ModelChatState
<1>6. CASE /\ gens' = [gens EXCEPT ![next.arg].phase = Requested]
           /\ UNCHANGED <<modelChatState, modelName, messages, historyMessages, executorService>>
  <2>1. gens' \in Seq(Generation) /\ Len(gens') = Len(gens)
    BY <1>1, <1>6, GenerationTypes DEF Requested
  <2> QED BY <1>1, <1>2, <1>6, <2>1 DEF TypeOK
<1>7. ASSUME NEW what \in Interruptions, next.op = InterruptOp[what], Epilogue(what, next.arg),
             UNCHANGED <<modelChatState, gens>>
      PROVE  TypeOK'
  <2>1. what = "reload" => next.arg \in Models
    BY <1>1, <1>7, InterruptOps, Entries
  <2>2. /\ executorService' \in Seq(Task) /\ messages' \in Seq(0..MaxGens)
        /\ historyMessages' \in Seq({"system", "user", "assistant"})
        /\ modelName' \in Models \cup {NoModel}
    BY <1>7, <2>1, EpilogueTypes
  <2> QED BY <1>1, <1>2, <1>7, <2>2 DEF TypeOK
<1> QED BY <1>3, <1>4, <1>5, <1>6, <1>7 DEF RunPosted

\* So do the steps of a generation.
LEMMA GenerateTypes ==
  ASSUME TypeOK, NewsNamed, NEW g \in DOMAIN gens, Generate(g)
  PROVE  TypeOK'
<1>1. /\ gens \in Seq(Generation) /\ Len(gens) <= MaxGens /\ posted \in Seq(Continuation)
      /\ messages \in Seq(0..MaxGens) /\ historyMessages \in Seq({"system", "user", "assistant"})
  BY DEF TypeOK
<1>2. g \in 0..MaxGens /\ gens[g] \in Generation
  BY <1>1, ConstantsAssumption
<1>3. messages # <<>> => UpdateMessage(g) \in Seq(0..MaxGens)
  BY <1>1, <1>2, Replacing DEF UpdateMessage
<1>4. Answered(g) \in Seq({"system", "user", "assistant"})
  <2>1. Append(historyMessages, "assistant") \in Seq({"system", "user", "assistant"})
    BY <1>1
  <2>2. historyMessages # <<>> =>
          SubSeq(historyMessages, 1, Len(historyMessages) - 1) \in Seq({"system", "user", "assistant"})
    BY <1>1
  <2> QED BY <2>1, <2>2 DEF Answered
<1>5. CASE CreateNews(g)
  <2>1. gens' \in Seq(Generation) /\ Len(gens') = Len(gens)
    BY <1>1, <1>5, GenerationTypes DEF CreateNews, Requested
  <2> QED BY <1>1, <1>5, <2>1 DEF CreateNews, TypeOK, chat, work
<1>6. CASE Delta(g)
  <2>1. gens' \in Seq(Generation) /\ Len(gens') = Len(gens)
    BY <1>1, <1>6, GenerationTypes DEF Delta
  <2>2. [op |-> "fail", arg |-> NoModel] \in Continuation
    BY Entries
  <2>3. Post(posted, "fail", NoModel) \in Seq(Continuation)
    BY <1>1, <2>2, Appending
  <2>4. posted' \in Seq(Continuation) /\ messages' \in Seq(0..MaxGens)
    <3>1. posted' \in {posted, Post(posted, "fail", NoModel)}
      BY <1>6 DEF Delta
    <3>2. messages' = messages \/ (messages # <<>> /\ messages' = UpdateMessage(g))
      BY <1>6 DEF Delta
    <3>3. posted' \in Seq(Continuation)
      BY <1>1, <2>3, <3>1
    <3> QED BY <1>1, <1>3, <3>2, <3>3
  <2> QED BY <1>1, <1>6, <2>1, <2>4 DEF Delta, TypeOK, chat
<1>7. CASE FinishChat(g)
  <2>1. gens' \in Seq(Generation) /\ Len(gens') = Len(gens)
    BY <1>1, <1>7, GenerationTypes DEF FinishChat
  <2> QED BY <1>1, <1>4, <1>7, <2>1 DEF FinishChat, TypeOK, ModelChatState, chat, work
<1>8. CASE FinishNews(g)
  <2>1. CASE Crash("updateMessage") /\ UNCHANGED <<presses, interrupted>>
    BY <2>1 DEF Crash, chat, texts, work, TypeOK
  <2>2. CASE /\ gens[g].text => messages # <<>>
             /\ gens' = [gens EXCEPT ![g].phase = "over"]
             /\ historyMessages' = Answered(g)
             /\ messages' = IF gens[g].text THEN UpdateMessage(g) ELSE messages
             /\ summaryCache' = summaryCache \cup (IF gens[g].text THEN {gens[g].news} ELSE {})
             /\ modelChatState' = "Ready"
             /\ UNCHANGED <<modelName, engine, work, crashed, failures>>
             /\ UNCHANGED <<presses, interrupted>> /\ gens[g].kind = "news"
    <3>1. gens' \in Seq(Generation) /\ Len(gens') = Len(gens)
      BY <1>1, <2>2, GenerationTypes
    <3>2. messages' \in Seq(0..MaxGens)
      BY <1>1, <1>3, <2>2
    <3>3. summaryCache' \subseteq News
      BY <2>2 DEF TypeOK, NewsNamed
    <3> QED BY <1>1, <1>4, <2>2, <3>1, <3>2, <3>3 DEF TypeOK, ModelChatState, work
  <2> QED BY <1>8, <2>1, <2>2 DEF FinishNews
<1> QED BY <1>5, <1>6, <1>7, <1>8 DEF Generate

\* A step changes no generation's kind and news, and a new summary has its news.
LEMMA NewsStep ==
  ASSUME TypeOK, NewsNamed, Next
  PROVE  NewsNamed'
<1>1. gens \in Seq(Generation)
  BY DEF TypeOK
<1>2. ASSUME NEW g, NEW phase, gens' = [gens EXCEPT ![g].phase = phase] PROVE NewsNamed'
  <2>1. \A j \in DOMAIN gens : gens[j] \in Generation
    BY <1>1
  <2>2. \A j \in DOMAIN gens : gens'[j].kind = gens[j].kind /\ gens'[j].news = gens[j].news
    BY <1>2, <2>1 DEF Generation
  <2> QED BY <1>2, <2>2 DEF NewsNamed
<1>3. ASSUME NEW g, gens' = [gens EXCEPT ![g].text = TRUE] PROVE NewsNamed'
  <2>1. \A j \in DOMAIN gens : gens[j] \in Generation
    BY <1>1
  <2>2. \A j \in DOMAIN gens : gens'[j].kind = gens[j].kind /\ gens'[j].news = gens[j].news
    BY <1>3, <2>1 DEF Generation
  <2> QED BY <1>3, <2>2 DEF NewsNamed
<1>4. ASSUME NEW kind, NEW n, kind = "news" => n \in News, NewGeneration(kind, n) PROVE NewsNamed'
  <2> DEFINE new == [kind |-> kind, phase |-> "queued", text |-> FALSE, news |-> n]
  <2>1. new.kind = kind /\ new.news = n
    OBVIOUS
  <2> HIDE DEF new
  <2>2. gens' = Append(gens, new)
    BY <1>4 DEF NewGeneration, new
  <2>3. \A j \in DOMAIN gens' : (j \in DOMAIN gens /\ gens'[j] = gens[j]) \/ gens'[j] = new
    BY <1>1, <2>2
  <2> QED BY <1>4, <2>1, <2>3 DEF NewsNamed
<1>5. ASSUME UNCHANGED gens PROVE NewsNamed'
  BY <1>5 DEF NewsNamed
<1>6. ASSUME NEW what, NEW m, InterruptChat(what, m) PROVE NewsNamed'
  BY <1>5, <1>6 DEF InterruptChat, Crash, texts
<1>7. CASE Press
  <2>1. CASE \E n \in News : SummarizeNews(n)
    BY <1>4, <1>5, <2>1 DEF SummarizeNews, Crash, texts
  <2>2. CASE RequestGenerate
    BY <1>4, <2>2 DEF RequestGenerate
  <2>3. CASE RequestImageBitmap
    BY <1>5, <2>3 DEF RequestImageBitmap, texts
  <2>4. CASE RequestResetChat \/ RequestTerminateChat \/ \E m \in Models : RequestReloadChat(m)
    BY <1>5, <1>6, <2>4 DEF RequestResetChat, RequestTerminateChat, RequestReloadChat, Crash, texts
  <2> QED BY <1>7, <2>1, <2>2, <2>3, <2>4 DEF Press
<1>8. CASE RunTask
  BY <1>2, <1>5, <1>8 DEF RunTask
<1>9. CASE RunPosted
  BY <1>2, <1>5, <1>9 DEF RunPosted, texts
<1>10. ASSUME NEW g \in DOMAIN gens, Generate(g) PROVE NewsNamed'
  BY <1>2, <1>3, <1>5, <1>10 DEF Generate, CreateNews, Delta, FinishChat, FinishNews, Crash, texts
<1> QED BY <1>7, <1>8, <1>9, <1>10 DEF Next

\* The types hold in every state.
LEMMA Typed == Spec => [](TypeOK /\ NewsNamed)
<1>1. Init => TypeOK /\ NewsNamed
  <2> SUFFICES ASSUME Init PROVE TypeOK /\ NewsNamed
    OBVIOUS
  <2>1. gens = <<>> /\ gens \in Seq(Generation) /\ Len(gens) = 0 /\ DOMAIN gens = {}
    BY DEF Init
  <2>2. /\ executorService \in Seq(Task) /\ posted \in Seq(Continuation)
        /\ messages \in Seq(0..MaxGens) /\ historyMessages \in Seq({"system", "user", "assistant"})
    BY DEF Init
  <2>3. presses \in 0..MaxPresses /\ failures \in 0..MaxFailures /\ 0 <= MaxGens
    BY ConstantsAssumption DEF Init
  <2>4. /\ modelChatState \in ModelChatState /\ modelName \in Models \cup {NoModel}
        /\ engine \in Models \cup {NoModel} /\ summaryCache \subseteq News
        /\ crashed \in {"no", "summarizeNews", "interruptChat", "request", "updateMessage"}
        /\ interrupted \in BOOLEAN
    BY DEF Init, ModelChatState
  <2>5. TypeOK
    BY <2>1, <2>2, <2>3, <2>4 DEF TypeOK
  <2> QED BY <2>1, <2>5 DEF NewsNamed
<1>2. TypeOK /\ NewsNamed /\ [Next]_vars => (TypeOK /\ NewsNamed)'
  <2> SUFFICES ASSUME TypeOK, NewsNamed, [Next]_vars PROVE TypeOK' /\ NewsNamed'
    OBVIOUS
  <2>1. CASE UNCHANGED vars
    BY <2>1 DEF vars, chat, texts, work, TypeOK, NewsNamed
  <2>2. CASE Next
    BY <2>2, PressTypes, RunTaskTypes, RunPostedTypes, GenerateTypes, NewsStep DEF Next
  <2> QED BY <2>1, <2>2
<1> QED BY <1>1, <1>2, PTL DEF Spec

\* Every variable keeps its type: a task is run with an argument of its own kind, a
\* posted interruption names a model when it is a reload, and only news are cached.
THEOREM TypeCorrect == Spec => []TypeOK
  BY Typed, PTL

------------------------------------------------------------------------------
(* A chat that nobody interrupts. *)

\* A question is followed by its answer, all along the history.
Paired(h) == \A i \in 1..(Len(h) - 1) : h[i] = "user" => h[i + 1] = "assistant"

\* The history has no open question, or its last message is one.
Closed(h) == Paired(h) /\ (h # <<>> => h[Len(h)] # "user")
Asked(h)  == Paired(h) /\ h # <<>> /\ h[Len(h)] = "user"

Item(op, arg) == [op |-> op, arg |-> arg]
NoWork == executorService = <<>> /\ posted = <<>>
Quiet(gs, n) == \A g \in 1..n : gs[g].phase \in {"unanswered", "over"}

\* The chat before its first model.
Fresh ==
    /\ modelChatState = "Ready" /\ NoWork
    /\ gens = <<>> /\ historyMessages = <<>>

\* Nothing is under way.
Idle ==
    /\ modelChatState \in {"Ready", "Generating"} /\ NoWork /\ Quiet(gens, Len(gens))
    /\ Paired(historyMessages)
    /\ modelChatState = "Ready" => Closed(historyMessages)

\* The first model is being loaded.
FirstReload ==
    /\ modelChatState = "Reloading" /\ gens = <<>> /\ historyMessages = <<>>
    /\ \/ (\E m \in Models : executorService = <<Item("reload", m)>>) /\ posted = <<>>
       \/ executorService = <<>> /\ posted = <<Item("ready", NoModel)>>

\* An image is being processed.
WithImage ==
    /\ modelChatState = "Generating" /\ Quiet(gens, Len(gens)) /\ Closed(historyMessages)
    /\ \/ executorService = <<Item("image", NoModel)>> /\ posted = <<>>
       \/ executorService = <<>> /\ posted = <<Item("image", NoModel)>>

\* The newest generation is under way, and the last message is its own.
Answering ==
    LET g == Len(gens)
    IN  /\ modelChatState = "Generating"
        /\ g > 0 /\ Quiet(gens, g - 1)
        /\ messages # <<>> /\ messages[Len(messages)] = g
        /\ \/ /\ gens[g].phase = "queued" /\ posted = <<>>
              /\ executorService = <<Item(gens[g].kind, g)>>
              /\ IF gens[g].kind = "news" THEN Asked(historyMessages) ELSE Closed(historyMessages)
           \/ /\ gens[g].phase = "queued" /\ gens[g].kind = "chat"
              /\ executorService = <<>> /\ posted = <<Item("create", g)>>
              /\ Asked(historyMessages)
           \/ gens[g].phase \in {"started", "streaming"} /\ NoWork /\ Asked(historyMessages)

\* As long as nobody interrupts and nothing fails, one thing at a time is under way.
CalmInv ==
    Calm => /\ modelName = NoModel => Fresh
            /\ Idle \/ FirstReload \/ WithImage \/ Answering

\* A sequence without its last element.
LEMMA Shorter ==
  ASSUME NEW S, NEW q \in Seq(S), q # <<>>
  PROVE  /\ SubSeq(q, 1, Len(q) - 1) \in Seq(S)
         /\ Len(SubSeq(q, 1, Len(q) - 1)) = Len(q) - 1
         /\ \A i \in 1..(Len(q) - 1) : SubSeq(q, 1, Len(q) - 1)[i] = q[i]
<1>1. PICK n \in Nat : n = Len(q) - 1 /\ n <= Len(q)
  <2>1. Len(q) \in Nat /\ Len(q) # 0
    OBVIOUS
  <2>2. Len(q) - 1 \in Nat /\ Len(q) - 1 <= Len(q)
    BY <2>1
  <2> QED BY <2>2
<1>2. /\ SubSeq(q, 1, n) \in Seq(S) /\ Len(SubSeq(q, 1, n)) = n
      /\ \A i \in 1..n : SubSeq(q, 1, n)[i] = q[i]
  BY <1>1
<1> QED BY <1>1, <1>2

\* What a question and an answer, or a question taken back, make of the history.
LEMMA Histories ==
  ASSUME NEW h \in Seq({"system", "user", "assistant"})
  PROVE  /\ Closed(h) => Asked(Append(h, "user"))
         /\ Asked(h) => Closed(Append(h, "assistant"))
         /\ Asked(h) => Closed(SubSeq(h, 1, Len(h) - 1))
<1>1. ASSUME NEW role \in {"user", "assistant"}
      PROVE  /\ Len(Append(h, role)) = Len(h) + 1 /\ Append(h, role)[Len(h) + 1] = role
             /\ \A i \in 1..Len(h) : Append(h, role)[i] = h[i]
             /\ Append(h, role) # <<>>
  OBVIOUS
<1>2. Len(h) \in Nat /\ (h = <<>> <=> Len(h) = 0)
  OBVIOUS
<1>3. ASSUME Closed(h) PROVE Asked(Append(h, "user"))
  <2>1. PICK q : q = Append(h, "user")
    OBVIOUS
  <2>2. /\ Len(q) = Len(h) + 1 /\ q[Len(h) + 1] = "user" /\ q # <<>>
        /\ \A i \in 1..Len(h) : q[i] = h[i]
    BY <1>1, <2>1
  <2>3. ASSUME NEW i \in 1..(Len(q) - 1), q[i] = "user" PROVE q[i + 1] = "assistant"
    BY <1>2, <1>3, <2>2, <2>3 DEF Closed, Paired
  <2> QED BY <2>1, <2>2, <2>3 DEF Asked, Paired
<1>4. ASSUME Asked(h) PROVE Closed(Append(h, "assistant"))
  <2>1. PICK q : q = Append(h, "assistant")
    OBVIOUS
  <2>2. /\ Len(q) = Len(h) + 1 /\ q[Len(h) + 1] = "assistant" /\ q # <<>>
        /\ \A i \in 1..Len(h) : q[i] = h[i]
    BY <1>1, <2>1
  <2>3. ASSUME NEW i \in 1..(Len(q) - 1), q[i] = "user" PROVE q[i + 1] = "assistant"
    BY <1>2, <1>4, <2>2, <2>3 DEF Asked, Paired
  <2> QED BY <2>1, <2>2, <2>3 DEF Closed, Paired
<1>5. ASSUME Asked(h) PROVE Closed(SubSeq(h, 1, Len(h) - 1))
  <2>1. PICK q \in Seq({"system", "user", "assistant"}) : q = SubSeq(h, 1, Len(h) - 1)
    BY <1>5, Shorter DEF Asked
  <2>2. Len(h) > 0 /\ Len(q) = Len(h) - 1 /\ \A i \in 1..Len(q) : q[i] = h[i]
    BY <1>2, <1>5, <2>1, Shorter DEF Asked
  <2>3. Paired(q)
    BY <1>2, <1>5, <2>2 DEF Asked, Paired
  <2>4. ASSUME q # <<>> PROVE q[Len(q)] # "user"
    <3>1. Len(q) \in 1..(Len(h) - 1) /\ q[Len(q)] = h[Len(q)] /\ Len(q) + 1 = Len(h)
      BY <1>2, <2>2, <2>4
    <3>2. h[Len(h)] # "assistant"
      BY <1>5 DEF Asked
    <3> QED BY <1>5, <3>1, <3>2 DEF Asked, Paired
  <2> QED BY <2>1, <2>3, <2>4 DEF Closed
<1> QED BY <1>3, <1>4, <1>5

\* The histories a chat and a summary start with.
LEMMA FirstHistories == Closed(<<>>) /\ Asked(<<"system", "user">>)
  BY DEF Closed, Asked, Paired

\* A queue with one entry.
LEMMA OneEntry ==
  ASSUME NEW op, NEW arg
  PROVE  /\ Post(<<>>, op, arg) = <<Item(op, arg)>>
         /\ Head(<<Item(op, arg)>>) = Item(op, arg) /\ Tail(<<Item(op, arg)>>) = <<>>
         /\ <<Item(op, arg)>> # <<>>
         /\ Item(op, arg).op = op /\ Item(op, arg).arg = arg
<1>1. PICK e : e = Item(op, arg)
  OBVIOUS
<1>2. Append(<<>>, e) = <<e>> /\ Head(<<e>>) = e /\ Tail(<<e>>) = <<>> /\ <<e>> # <<>>
  OBVIOUS
<1> QED BY <1>1, <1>2 DEF Post, Item

\* Generations after a change of one of them, and after a new one.
LEMMA Phases ==
  ASSUME NEW gs \in Seq(Generation), NEW g \in 1..Len(gs)
  PROVE  /\ \A phase : /\ [gs EXCEPT ![g].phase = phase][g].phase = phase
                       /\ [gs EXCEPT ![g].phase = phase][g].kind = gs[g].kind
                       /\ \A j \in 1..Len(gs) : j # g => [gs EXCEPT ![g].phase = phase][j] = gs[j]
         /\ [gs EXCEPT ![g].text = TRUE][g].phase = gs[g].phase
         /\ [gs EXCEPT ![g].text = TRUE][g].kind = gs[g].kind
         /\ \A j \in 1..Len(gs) : j # g => [gs EXCEPT ![g].text = TRUE][j] = gs[j]
  BY DEF Generation

\* A state without interruption comes from one.
LEMMA CalmBefore ==
  ASSUME TypeOK, Next, Calm'
  PROVE  Calm /\ failures' = 0 /\ failures = 0
<1>1. failures \in Nat /\ interrupted \in BOOLEAN
  BY ConstantsAssumption DEF TypeOK
<1>2. failures' = 0 /\ ~interrupted'
  BY DEF Calm
<1>3. CASE Press
  <2>1. failures' \in {failures, failures + 1}
    BY <1>3 DEF Press, RequestReloadChat, RequestResetChat, RequestTerminateChat, InterruptChat,
                RequestImageBitmap, RequestGenerate, SummarizeNews, CallBackend, Crash
  <2>2. ~interrupted
    BY <1>1, <1>2, <1>3 DEF Press
  <2> QED BY <1>1, <1>2, <2>1, <2>2 DEF Calm
<1>4. CASE RunTask
  <2>1. failures' \in {failures, failures + 1} /\ interrupted' = interrupted
    BY <1>4 DEF RunTask, BackendThen, ReloadTask
  <2> QED BY <1>1, <1>2, <2>1 DEF Calm
<1>5. CASE RunPosted
  BY <1>1, <1>2, <1>5 DEF Calm, RunPosted
<1>6. ASSUME NEW g, Generate(g) PROVE Calm /\ failures' = 0 /\ failures = 0
  BY <1>1, <1>2, <1>6 DEF Calm, Generate, CreateNews, Delta, FinishChat, FinishNews, Crash
<1> QED BY <1>3, <1>4, <1>5, <1>6 DEF Next

\* The states of a chat that nobody interrupts.
LEMMA CalmStates ==
  ASSUME CalmInv, Calm
  PROVE  /\ modelChatState \in {"Ready", "Generating", "Reloading"}
         /\ modelName = NoModel => Fresh
         /\ Chatable => Idle
         /\ modelChatState = "Reloading" => FirstReload
  BY DEF CalmInv, Fresh, Idle, FirstReload, WithImage, Answering, Chatable

\* Every press keeps it.
LEMMA PressCalm ==
  ASSUME TypeOK, CalmInv, Calm, Press, Calm', failures' = 0, failures = 0
  PROVE  CalmInv'
<1>0. /\ modelChatState \in {"Ready", "Generating", "Reloading"}
      /\ modelName = NoModel => Fresh
      /\ Chatable => Idle
  BY CalmStates
<1>1. modelName = NoModel \/ modelChatState' \notin Transitions
  BY DEF Press, Calm
<1>2. ASSUME NEW what \in Interruptions, NEW m, InterruptChat(what, m), modelName # NoModel
      PROVE  FALSE
  <2>1. During[what] \in Transitions
    BY DEF During, Transitions, Interruptions
  <2> QED BY <1>0, <1>1, <1>2, <2>1 DEF InterruptChat
<1>3. ASSUME modelName # NoModel, NEW where, Crash(where) PROVE CalmInv'
  <2>1. UNCHANGED <<modelChatState, chat, texts, work, failures>>
    BY <1>3 DEF Crash
  <2> QED BY <1>3, <2>1 DEF CalmInv, Fresh, Idle, FirstReload, WithImage, Answering, NoWork,
                   chat, texts, work
<1>4. CASE \E m \in Models : RequestReloadChat(m)
  <2>1. PICK m \in Models : RequestReloadChat(m)
    BY <1>4
  <2>2. CASE modelName # NoModel
    <3>1. CASE InterruptChat("reload", m)
      BY <1>2, <2>2, <3>1 DEF Interruptions
    <3>2. CASE Crash("request")
      BY <1>3, <2>2, <3>2
    <3> QED BY <2>1, <3>1, <3>2 DEF RequestReloadChat
  <2>3. CASE modelName = NoModel
    <3>1. Fresh /\ Chatable /\ Interruptable
      BY <1>0, <2>3 DEF Fresh, Chatable, Interruptable
    <3>2. InterruptChat("reload", m)
      BY <2>1, <3>1 DEF RequestReloadChat
    <3>3. /\ modelChatState' = "Reloading" /\ Epilogue("reload", m)
          /\ UNCHANGED <<posted, gens>>
      BY <3>1, <3>2 DEF InterruptChat, Chatable, During
    <3>4. /\ executorService' = Post(<<>>, "reload", m) /\ historyMessages' = <<>> /\ modelName' = m
      BY <3>1, <3>3 DEF Epilogue, Submit, Post, Fresh, NoWork
    <3>5. executorService' = <<Item("reload", m)>> /\ m # NoModel
      BY <3>4, OneEntry, ConstantsAssumption
    <3> QED BY <3>1, <3>3, <3>4, <3>5 DEF CalmInv, FirstReload, Fresh, NoWork
  <2> QED BY <2>2, <2>3
<1>5. CASE modelName # NoModel /\ RequestResetChat
  BY <1>2, <1>5 DEF RequestResetChat, Interruptions
<1>6. CASE modelName # NoModel /\ RequestTerminateChat
  BY <1>2, <1>3, <1>6 DEF RequestTerminateChat, Interruptions
<1>7. CASE modelName # NoModel /\ RequestImageBitmap
  <2>1. Idle /\ NoWork /\ Closed(historyMessages)
    BY <1>0, <1>7 DEF RequestImageBitmap, Idle, Chatable
  <2>2. executorService' = Post(<<>>, "image", NoModel)
    BY <1>7, <2>1 DEF RequestImageBitmap, Submit, Post, NoWork
  <2>3. executorService' = <<Item("image", NoModel)>>
    BY <2>2, OneEntry
  <2>4. modelChatState' = "Generating" /\ UNCHANGED <<posted, modelName, historyMessages, gens>>
    BY <1>7 DEF RequestImageBitmap, chat, texts
  <2>5. WithImage'
    BY <2>1, <2>3, <2>4 DEF WithImage, Idle, NoWork
  <2> QED BY <1>7, <2>4, <2>5 DEF CalmInv
<1>8. ASSUME NEW kind \in {"news", "chat"}, NEW n, NewGeneration(kind, n), NoWork,
             Quiet(gens, Len(gens)), Submit(kind, Len(gens) + 1), posted' = posted,
             messages' # <<>>, messages'[Len(messages')] = Len(gens) + 1,
             modelChatState' = "Generating", modelName # NoModel, modelName' = modelName,
             IF kind = "news" THEN Asked(historyMessages') ELSE Closed(historyMessages')
      PROVE  CalmInv'
  <2> DEFINE new == [kind |-> kind, phase |-> "queued", text |-> FALSE, news |-> n]
  <2>1. new.kind = kind /\ new.phase = "queued"
    OBVIOUS
  <2> HIDE DEF new
  <2>2. gens \in Seq(Generation) /\ gens' = Append(gens, new)
    BY <1>8 DEF TypeOK, NewGeneration, new
  <2>3. /\ Len(gens) \in Nat /\ Len(gens') = Len(gens) + 1 /\ gens'[Len(gens) + 1] = new
        /\ \A j \in 1..Len(gens) : gens'[j] = gens[j]
    BY <2>2
  <2>4. executorService' = Post(<<>>, kind, Len(gens) + 1)
    BY <1>8 DEF Submit, Post, NoWork
  <2>5. executorService' = <<Item(kind, Len(gens) + 1)>>
    BY <2>4, OneEntry
  <2>6. Quiet(gens', Len(gens') - 1)
    BY <1>8, <2>3 DEF Quiet
  <2>7. posted' = <<>>
    BY <1>8 DEF NoWork
  <2>8. Answering'
    BY <1>8, <2>1, <2>3, <2>5, <2>6, <2>7 DEF Answering
  <2> QED BY <1>8, <2>8 DEF CalmInv
<1>9. CASE modelName # NoModel /\ RequestGenerate
  <2>1. Idle /\ NoWork /\ Closed(historyMessages) /\ Quiet(gens, Len(gens))
    BY <1>0, <1>9 DEF RequestGenerate, Idle, Chatable
  <2>2. messages' # <<>> /\ messages'[Len(messages')] = Len(gens) + 1
    <3>1. PICK k : k = Len(gens) + 1
      OBVIOUS
    <3>2. messages \in Seq(0..MaxGens) /\ messages' = messages \o <<0, k>>
      BY <1>9, <3>1 DEF TypeOK, RequestGenerate
    <3>3. Len(messages') = Len(messages) + 2 /\ messages'[Len(messages) + 2] = k
      BY <3>2
    <3> QED BY <3>1, <3>2, <3>3
  <2>3. /\ NewGeneration("chat", NoModel) /\ Submit("chat", Len(gens) + 1) /\ posted' = posted
        /\ modelChatState' = "Generating" /\ modelName' = modelName
        /\ historyMessages' = historyMessages
    BY <1>9 DEF RequestGenerate, chat
  <2> QED BY <1>8, <1>9, <2>1, <2>2, <2>3
<1>10. ASSUME NEW n \in News, SummarizeNews(n), modelName # NoModel PROVE CalmInv'
  <2>1. CASE Crash("summarizeNews")
    BY <1>3, <1>10, <2>1
  <2>2. ASSUME CallBackend(posted) PROVE posted' = posted
    BY <2>2 DEF CallBackend
  <2>3. CASE /\ Chatable /\ CallBackend(posted) /\ modelChatState' = "Generating"
             /\ historyMessages' = <<>>
             /\ UNCHANGED <<gens, executorService>> /\ UNCHANGED <<crashed, chat>>
    <3>1. NoWork /\ Quiet(gens, Len(gens))
      BY <1>0, <2>3 DEF Idle
    <3>2. modelName' = modelName /\ NoWork' /\ Paired(<<>>)
      BY <2>2, <2>3, <3>1, FirstHistories DEF chat, NoWork, Closed
    <3>3. Idle'
      BY <2>3, <3>1, <3>2 DEF Idle
    <3> QED BY <1>10, <3>2, <3>3 DEF CalmInv
  <2>4. CASE /\ Chatable /\ CallBackend(posted) /\ modelChatState' = "Generating"
             /\ messages' = <<0, 0, Len(gens) + 1>> /\ historyMessages' = <<"system", "user">>
             /\ NewGeneration("news", n) /\ Submit("news", Len(gens) + 1)
             /\ UNCHANGED <<crashed, chat>>
    <3>1. NoWork /\ Quiet(gens, Len(gens)) /\ posted' = posted /\ modelName' = modelName
      BY <1>0, <2>2, <2>4 DEF Idle, chat
    <3>2. messages' # <<>> /\ messages'[Len(messages')] = Len(gens) + 1
      BY <2>4
    <3>3. Asked(historyMessages')
      BY <2>4, FirstHistories
    <3> QED BY <1>8, <1>10, <2>4, <3>1, <3>2, <3>3
  <2> QED BY <1>10, <2>1, <2>3, <2>4 DEF SummarizeNews
<1> QED BY <1>4, <1>5, <1>6, <1>7, <1>9, <1>10 DEF Press

\* Every task of the executor keeps it.
LEMMA RunTaskCalm ==
  ASSUME TypeOK, CalmInv, Calm, RunTask, Calm', failures' = 0, failures = 0
  PROVE  CalmInv'
<1> DEFINE task == Head(executorService)
<1>0. /\ executorService # <<>> /\ executorService' = Tail(executorService)
      /\ UNCHANGED <<modelChatState, modelName, messages>>
  BY DEF RunTask
<1>1. modelName # NoModel /\ modelName' # NoModel
  BY <1>0 DEF CalmInv, Fresh, NoWork
<1>2. CASE FirstReload
  <2>1. PICK m \in Models : executorService = <<Item("reload", m)>> /\ posted = <<>>
    BY <1>0, <1>2 DEF FirstReload
  <2>2. task.op = "reload" /\ executorService' = <<>>
    BY <1>0, <2>1, OneEntry
  <2>3. ReloadTask(task.arg) /\ UNCHANGED <<historyMessages, gens>>
    BY <2>2, InterruptOps DEF RunTask
  <2>4. posted' = <<Item("ready", NoModel)>>
    BY <2>1, <2>3, OneEntry DEF ReloadTask
  <2>5. FirstReload'
    BY <1>0, <1>2, <2>2, <2>3, <2>4 DEF FirstReload
  <2> QED BY <1>1, <2>5 DEF CalmInv
<1>3. CASE WithImage
  <2>1. executorService = <<Item("image", NoModel)>> /\ posted = <<>>
    BY <1>0, <1>3 DEF WithImage
  <2>2. task.op = "image" /\ executorService' = <<>>
    BY <1>0, <2>1, OneEntry
  <2>3. posted' = Post(posted, "image", NoModel) /\ UNCHANGED <<historyMessages, gens>>
    BY <2>2, InterruptOps DEF RunTask
  <2>4. posted' = <<Item("image", NoModel)>>
    BY <2>1, <2>3, OneEntry
  <2>5. WithImage'
    BY <1>0, <1>3, <2>2, <2>3, <2>4 DEF WithImage
  <2> QED BY <1>1, <2>5 DEF CalmInv
<1>4. CASE Answering
  <2>1. PICK g \in 1..Len(gens) : g = Len(gens)
    BY <1>4 DEF Answering, TypeOK
  <2>2. /\ modelChatState = "Generating" /\ Quiet(gens, g - 1)
        /\ messages # <<>> /\ messages[Len(messages)] = g
        /\ gens[g].phase = "queued" /\ posted = <<>>
        /\ executorService = <<Item(gens[g].kind, g)>>
        /\ IF gens[g].kind = "news" THEN Asked(historyMessages) ELSE Closed(historyMessages)
    BY <1>0, <1>4, <2>1 DEF Answering, NoWork
  <2>3. task.op = gens[g].kind /\ task.arg = g /\ executorService' = <<>>
    BY <1>0, <2>2, OneEntry
  <2>4. gens \in Seq(Generation) /\ gens[g].kind \in {"news", "chat"}
    <3>1. gens \in Seq(Generation) /\ gens[g] \in Generation
      BY <2>1 DEF TypeOK
    <3> QED BY <3>1 DEF Generation
  <2>5. CASE gens[g].kind = "news"
    <3>1. gens' = [gens EXCEPT ![g].phase = "started"] /\ UNCHANGED <<historyMessages, posted>>
      BY <2>3, <2>5, InterruptOps DEF RunTask
    <3>2. /\ gens'[g].phase = "started" /\ \A j \in 1..(g - 1) : gens'[j] = gens[j]
          /\ Len(gens') = g
      BY <2>1, <2>4, <3>1, Phases, GenerationTypes
    <3>3. Quiet(gens', g - 1)
      BY <2>2, <3>2 DEF Quiet
    <3>4. Answering'
      BY <1>0, <2>1, <2>2, <2>3, <2>5, <3>1, <3>2, <3>3 DEF Answering, NoWork
    <3> QED BY <1>1, <3>4 DEF CalmInv
  <2>6. CASE gens[g].kind = "chat"
    <3>1. /\ historyMessages' = Append(historyMessages, "user")
          /\ posted' = Post(posted, "create", g) /\ gens' = gens
      BY <2>3, <2>6, InterruptOps DEF RunTask
    <3>2. posted' = <<Item("create", g)>>
      BY <2>2, <3>1, OneEntry
    <3>3. Asked(historyMessages')
      BY <2>2, <2>6, <3>1, Histories DEF TypeOK
    <3>4. Answering'
      <4>1. /\ gens'[g].phase = "queued" /\ gens'[g].kind = "chat" /\ g = Len(gens')
            /\ g > 0 /\ Quiet(gens', g - 1)
        BY <2>1, <2>2, <2>6, <3>1
      <4>2. /\ modelChatState' = "Generating"
            /\ messages' # <<>> /\ messages'[Len(messages')] = g
        BY <1>0, <2>2
      <4> QED BY <2>3, <3>2, <3>3, <4>1, <4>2 DEF Answering
    <3> QED BY <1>1, <3>4 DEF CalmInv
  <2> QED BY <2>4, <2>5, <2>6
<1>5. ~Idle
  BY <1>0 DEF Idle, NoWork
<1> QED BY <1>2, <1>3, <1>4, <1>5 DEF CalmInv

\* Everything that is posted keeps it.
LEMMA RunPostedCalm ==
  ASSUME TypeOK, CalmInv, Calm, RunPosted, Calm'
  PROVE  CalmInv'
<1> DEFINE next == Head(posted)
<1>0. posted # <<>> /\ posted' = Tail(posted)
  BY DEF RunPosted
<1>1. modelName # NoModel
  BY <1>0 DEF CalmInv, Fresh, NoWork
<1>2. CASE FirstReload
  <2>1. executorService = <<>> /\ posted = <<Item("ready", NoModel)>>
    BY <1>0, <1>2 DEF FirstReload
  <2>2. next.op = "ready" /\ posted' = <<>>
    BY <1>0, <2>1, OneEntry
  <2>3. modelChatState' = "Ready" /\ UNCHANGED <<modelName, historyMessages, gens, executorService>>
    BY <2>2, InterruptOps DEF RunPosted, texts
  <2>4. Quiet(gens', Len(gens')) /\ Closed(historyMessages')
    BY <1>2, <2>3, FirstHistories DEF FirstReload, Quiet
  <2>5. Idle'
    BY <2>1, <2>2, <2>3, <2>4 DEF Idle, NoWork, Closed
  <2> QED BY <1>1, <2>3, <2>5 DEF CalmInv
<1>3. CASE WithImage
  <2>1. executorService = <<>> /\ posted = <<Item("image", NoModel)>>
    BY <1>0, <1>3 DEF WithImage
  <2>2. next.op = "image" /\ posted' = <<>>
    BY <1>0, <2>1, OneEntry
  <2>3. modelChatState' = "Ready" /\ UNCHANGED <<modelName, historyMessages, gens, executorService>>
    BY <1>3, <2>2, InterruptOps DEF RunPosted, texts, WithImage
  <2>4. Idle'
    BY <1>3, <2>1, <2>2, <2>3 DEF WithImage, Idle, NoWork, Closed
  <2> QED BY <1>1, <2>3, <2>4 DEF CalmInv
<1>4. CASE Answering
  <2>1. PICK g \in 1..Len(gens) : g = Len(gens)
    BY <1>4 DEF Answering, TypeOK
  <2>2. /\ modelChatState = "Generating" /\ Quiet(gens, g - 1)
        /\ messages # <<>> /\ messages[Len(messages)] = g
        /\ executorService = <<>> /\ posted = <<Item("create", g)>>
        /\ Asked(historyMessages)
    BY <1>0, <1>4, <2>1 DEF Answering, NoWork
  <2>3. next.op = "create" /\ next.arg = g /\ posted' = <<>>
    BY <1>0, <2>2, OneEntry
  <2>4. /\ gens' = [gens EXCEPT ![g].phase = Requested]
        /\ UNCHANGED <<modelChatState, modelName, messages, historyMessages, executorService>>
    BY <2>3, InterruptOps DEF RunPosted
  <2>5. gens \in Seq(Generation) /\ Requested \in {"streaming", "unanswered"}
    BY DEF TypeOK, Requested
  <2> HIDE DEF Requested
  <2>6. /\ gens'[g].phase = Requested /\ \A j \in 1..(g - 1) : gens'[j] = gens[j]
        /\ Len(gens') = g
    BY <2>1, <2>4, <2>5, Phases, GenerationTypes
  <2>7. Quiet(gens', g - 1)
    BY <2>2, <2>6 DEF Quiet
  <2>8. CASE Requested = "streaming"
    <3>1. Answering'
      BY <2>1, <2>2, <2>3, <2>4, <2>6, <2>7, <2>8 DEF Answering, NoWork
    <3> QED BY <1>1, <2>4, <3>1 DEF CalmInv
  <2>9. CASE Requested = "unanswered"
    <3>1. Quiet(gens', Len(gens'))
      BY <2>1, <2>6, <2>7, <2>9 DEF Quiet
    <3>2. Idle'
      BY <2>2, <2>3, <2>4, <3>1 DEF Idle, NoWork, Asked
    <3> QED BY <1>1, <2>4, <3>2 DEF CalmInv
  <2> QED BY <2>5, <2>8, <2>9
<1>5. ~Idle
  BY <1>0 DEF Idle, NoWork
<1> QED BY <1>2, <1>3, <1>4, <1>5 DEF CalmInv

\* So do the steps of a generation.
LEMMA GenerateCalm ==
  ASSUME TypeOK, CalmInv, Calm, NEW g \in DOMAIN gens, Generate(g), Calm'
  PROVE  CalmInv'
<1>0. gens \in Seq(Generation) /\ g \in 1..Len(gens) /\ Len(gens) \in Nat
  BY DEF TypeOK
<1>1. gens[g].phase \in {"started", "streaming"}
  BY DEF Generate, CreateNews, Delta, FinishChat, FinishNews
<1>2. Answering /\ g = Len(gens)
  BY <1>0, <1>1 DEF CalmInv, Idle, FirstReload, WithImage, Answering, Quiet
<1>3. /\ modelChatState = "Generating" /\ Quiet(gens, g - 1)
      /\ messages # <<>> /\ messages[Len(messages)] = g
      /\ NoWork /\ Asked(historyMessages)
  BY <1>1, <1>2 DEF Answering
<1>4. modelName # NoModel
  BY <1>3 DEF CalmInv, Fresh
<1>5. ASSUME NEW phase, gens' = [gens EXCEPT ![g].phase = phase]
      PROVE  Len(gens') = g /\ gens'[g].phase = phase /\ Quiet(gens', g - 1)
  <2>1. DOMAIN gens' = DOMAIN gens /\ gens'[g].phase = phase
    <3>1. DOMAIN gens' = DOMAIN gens
      BY <1>5
    <3>2. [gens EXCEPT ![g].phase = phase][g].phase = phase
      BY <1>0, Phases, Zenon
    <3> QED BY <1>5, <3>1, <3>2
  <2>2. \A j \in 1..(g - 1) : j \in 1..Len(gens) /\ j # g
    BY <1>0
  <2>3. \A j \in 1..(g - 1) : gens'[j] = gens[j]
    BY <1>0, <1>5, <2>2, Phases
  <2>4. Len(gens') = g
    BY <1>0, <1>2, <2>1
  <2> QED BY <1>3, <2>1, <2>3, <2>4 DEF Quiet
<1>6. ASSUME gens' = [gens EXCEPT ![g].phase = "over"], NoWork', modelChatState' = "Ready",
             historyMessages' = Answered(g), modelName' = modelName
      PROVE  CalmInv'
  <2>1. Quiet(gens', Len(gens'))
    <3>1. Len(gens') = g /\ gens'[g].phase = "over" /\ Quiet(gens', g - 1)
      BY <1>5, <1>6
    <3> QED BY <1>0, <3>1 DEF Quiet
  <2>2. Closed(historyMessages')
    <3>1. historyMessages \in Seq({"system", "user", "assistant"}) /\ historyMessages # <<>>
      BY <1>3 DEF TypeOK, Asked
    <3> QED BY <1>3, <1>6, <3>1, Histories DEF Answered
  <2>3. Idle'
    BY <1>6, <2>1, <2>2 DEF Idle, Closed
  <2> QED BY <1>4, <1>6, <2>3 DEF CalmInv
<1>7. CASE CreateNews(g)
  <2>1. /\ gens' = [gens EXCEPT ![g].phase = Requested]
        /\ UNCHANGED <<modelChatState, modelName, messages, historyMessages, executorService, posted>>
    BY <1>7 DEF CreateNews, chat, work
  <2>2. Requested \in {"streaming", "unanswered"}
    BY DEF Requested
  <2> HIDE DEF Requested
  <2>3. Len(gens') = g /\ gens'[g].phase = Requested /\ Quiet(gens', g - 1)
    BY <1>5, <2>1
  <2>4. CASE Requested = "streaming"
    <3>1. Answering'
      BY <1>0, <1>3, <2>1, <2>3, <2>4 DEF Answering, NoWork
    <3> QED BY <1>4, <2>1, <3>1 DEF CalmInv
  <2>5. CASE Requested = "unanswered"
    <3>1. Quiet(gens', Len(gens'))
      BY <1>0, <2>3, <2>5 DEF Quiet
    <3>2. Idle'
      BY <1>3, <2>1, <3>1 DEF Idle, NoWork, Asked
    <3> QED BY <1>4, <2>1, <3>2 DEF CalmInv
  <2> QED BY <2>2, <2>4, <2>5
<1>8. CASE Delta(g)
  <2>1. /\ gens' = [gens EXCEPT ![g].text = TRUE] /\ messages' = UpdateMessage(g) /\ posted' = posted
        /\ UNCHANGED <<modelChatState, modelName, historyMessages, executorService>>
    BY <1>3, <1>8 DEF Delta, chat
  <2>2. /\ gens'[g].phase = gens[g].phase /\ gens'[g].kind = gens[g].kind
        /\ \A j \in 1..(g - 1) : gens'[j] = gens[j]
    <3>1. \A j \in 1..(g - 1) : j \in 1..Len(gens) /\ j # g
      BY <1>0
    <3> QED BY <1>0, <2>1, <3>1, Phases
  <2>3. Len(gens') = g
    BY <1>0, <1>2, <2>1, GenerationTypes
  <2>4. messages' # <<>> /\ messages'[Len(messages')] = g
    <3>1. messages \in Seq(0..MaxGens)
      BY DEF TypeOK
    <3>2. PICK n \in Nat : n = Len(messages) /\ n > 0 /\ DOMAIN messages = 1..n
      BY <1>3, <3>1
    <3>3. messages' = [messages EXCEPT ![n] = g] /\ DOMAIN messages' = 1..n /\ messages'[n] = g
      BY <2>1, <3>2 DEF UpdateMessage
    <3>4. messages' \in Seq(0..MaxGens)
      <4>1. g \in 0..MaxGens
        BY <1>0, ConstantsAssumption DEF TypeOK
      <4> QED BY <2>1, <3>1, <4>1, Replacing DEF UpdateMessage
    <3>5. Len(messages') = n
      BY <3>3, <3>4
    <3> QED BY <3>2, <3>3, <3>4, <3>5
  <2>5. Quiet(gens', g - 1)
    BY <1>3, <2>2 DEF Quiet
  <2>6. Answering'
    BY <1>0, <1>1, <1>3, <2>1, <2>2, <2>3, <2>4, <2>5 DEF Answering, NoWork
  <2> QED BY <1>4, <2>1, <2>6 DEF CalmInv
<1>9. CASE FinishChat(g)
  BY <1>3, <1>6, <1>9 DEF FinishChat, chat, work, NoWork
<1>10. CASE FinishNews(g)
  BY <1>3, <1>6, <1>10 DEF FinishNews, work, NoWork
<1> QED BY <1>7, <1>8, <1>9, <1>10 DEF Generate

\* As long as nobody interrupts, one thing at a time is under way.
LEMMA OneAtATime == Spec => [](TypeOK /\ CalmInv)
<1>1. Init => CalmInv
  <2> SUFFICES ASSUME Init PROVE CalmInv
    OBVIOUS
  <2>1. Fresh
    BY DEF Init, Fresh, NoWork
  <2>2. Idle
    BY <2>1, FirstHistories DEF Fresh, Idle, Quiet, Closed
  <2> QED BY <2>1, <2>2 DEF CalmInv
<1>2. TypeOK /\ CalmInv /\ [Next]_vars => CalmInv'
  <2> SUFFICES ASSUME TypeOK, CalmInv, [Next]_vars, Calm' PROVE CalmInv'
    BY DEF CalmInv
  <2>1. CASE UNCHANGED vars
    BY <2>1 DEF vars, chat, texts, work, CalmInv, Calm, Fresh, Idle, FirstReload, WithImage,
                Answering, NoWork
  <2>2. CASE Next
    <3>1. Calm /\ failures' = 0 /\ failures = 0
      BY <2>2, CalmBefore
    <3> QED BY <2>2, <3>1, PressCalm, RunTaskCalm, RunPostedCalm, GenerateCalm DEF Next
  <2> QED BY <2>1, <2>2
<1> QED BY <1>1, <1>2, Typed, PTL DEF Spec

\* While nobody interrupts the chat and the engine does not fail, updateMessage of a
\* generation writes to the message that requestGenerate or summarizeNews put there
\* for it: no press, task or continuation comes in between.
THEOREM AnswersInPlace == Spec => []AnswerInItsPlace
<1>1. TypeOK /\ CalmInv => AnswerInItsPlace
  <2> SUFFICES ASSUME TypeOK, CalmInv, Calm, NEW g \in DOMAIN gens,
                      gens[g].phase \in {"started", "streaming"}
               PROVE  messages # <<>> /\ messages[Len(messages)] = g
    BY DEF AnswerInItsPlace
  <2>1. g \in 1..Len(gens) /\ Len(gens) \in Nat
    BY DEF TypeOK
  <2>2. ~Idle /\ ~WithImage
    BY <2>1 DEF Idle, WithImage, Quiet
  <2>3. ~FirstReload
    BY <2>1 DEF FirstReload
  <2>4. Answering
    BY <2>2, <2>3 DEF CalmInv
  <2>5. g = Len(gens)
    BY <2>1, <2>4 DEF Answering, Quiet
  <2> QED BY <2>4, <2>5 DEF Answering
<1> QED BY <1>1, OneAtATime, PTL

\* Nor does the history sent to the engine then hold two questions in a row, or an
\* open question when the chat is ready for the next.
THEOREM HistoryIsAnswered == Spec => []HistoryAnswered
<1>1. CalmInv => HistoryAnswered
  <2>1. ASSUME CalmInv, Calm PROVE Paired(historyMessages)
    BY <2>1, FirstHistories DEF CalmInv, Idle, FirstReload, WithImage, Answering, Closed, Asked
  <2>2. ASSUME CalmInv, Calm, Chatable PROVE Closed(historyMessages)
    BY <2>2 DEF CalmInv, Idle, FirstReload, WithImage, Answering, Chatable
  <2> QED BY <2>1, <2>2 DEF HistoryAnswered, Closed, Paired
<1> QED BY <1>1, OneAtATime, PTL

=============================================================================
