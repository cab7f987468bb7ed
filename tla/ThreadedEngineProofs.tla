------------------------ MODULE ThreadedEngineProofs ------------------------
(***************************************************************************)
(* Proofs about ThreadedEngine, for any clients, requests and bounds: its  *)
(* types, that no wakeup is lost, and that its threads implement the       *)
(* sequential service of EngineService.                                    *)
(***************************************************************************)
EXTENDS ThreadedEngineService, FiniteSetTheorems, SequenceTheorems, TLAPS

\* The orders in which AbortAllRequests and Step visit a set of requests are
\* sequences over that set.
LEMMA OrderType ==
    ASSUME NEW S \in SUBSET Requests, NEW order \in Orders(S)
    PROVE  order \in Seq(S)
<1>1. Cardinality(S) \in Nat
    BY FS_Subset, FS_CardinalityType, ConstantsAssumption
<1>2. order \in [1 .. Cardinality(S) -> S]
    BY DEF Orders
<1> QED
    BY <1>1, <1>2

\* A function on the domain of a sequence is a sequence.
LEMMA SameDomainSeq ==
    ASSUME NEW S, NEW T, NEW s \in Seq(S), NEW f \in [DOMAIN s -> T]
    PROVE  f \in Seq(T)
<1>1. DOMAIN s = 1 .. Len(s) /\ Len(s) \in Nat
    OBVIOUS
<1>2. f \in [1 .. Len(s) -> T]
    BY <1>1
<1> QED
    BY <1>1, <1>2

\* The batch that ends a refused request, and its rest, hold outputs.
LEMMA ErrorBatchType ==
    ASSUME NEW r \in Requests
    PROVE  ErrorBatch(r) \in Seq(Output) /\ Tail(ErrorBatch(r)) \in Seq(Output)
BY DEF ErrorBatch, Output

\* AbortAllRequests streams well-formed batches.
LEMMA AbortAllType ==
    ASSUME active \in SUBSET Requests, AbortAll
    PROVE  outbox' \in Seq(Seq(Output)) /\ active' \in SUBSET Requests
<1>1. PICK order \in Orders(active) :
          outbox' = [i \in DOMAIN order |-> ErrorBatch(order[i])]
    BY DEF AbortAll
<1>2. order \in Seq(active)
    BY OrderType
<1>3. \A i \in DOMAIN order : ErrorBatch(order[i]) \in Seq(Output)
    BY <1>2, ErrorBatchType
<1>4. outbox' \in [DOMAIN order -> Seq(Output)]
    BY <1>1, <1>3
<1> QED
    BY <1>2, <1>4, SameDomainSeq DEF AbortAll

\* Step streams a well-formed batch.
LEMMA StepBatchType ==
    ASSUME NEW order \in Seq(Requests), NEW last \in Seq(Requests)
    PROVE  StepBatch(order, last) \in Seq(Output)
<1> DEFINE chunks == [i \in DOMAIN order |->
                [req |-> order[i], kind |-> IF remaining[order[i]] = 0 THEN "finish" ELSE "delta"]]
           usages == [i \in DOMAIN last |-> [req |-> last[i], kind |-> "usage"]]
<1>1. chunks \in Seq(Output)
  <2>1. chunks \in [DOMAIN order -> Output]
    BY DEF Output
  <2> QED
    BY <2>1, SameDomainSeq
<1>2. usages \in Seq(Output)
  <2>1. usages \in [DOMAIN last -> Output]
    BY DEF Output
  <2> QED
    BY <2>1, SameDomainSeq
<1> HIDE DEF chunks, usages
<1>3. chunks \o usages \in Seq(Output)
    BY <1>1, <1>2
<1> QED
    BY <1>3 DEF StepBatch, chunks, usages

-----------------------------------------------------------------------------
(* Type correctness. *)

\* The initial values have their types.
LEMMA TypeInit == Init => TypeOK
<1> SUFFICES ASSUME Init PROVE TypeOK
    OBVIOUS
<1>1. 0 \in 0 .. MaxDelta /\ 0 \in 0 .. MaxSpurious
    BY ConstantsAssumption
<1>2. /\ instruction_queue \in Seq(Instruction) /\ local_queue \in Seq(Instruction)
      /\ callback_inputs \in Seq(Seq(Output)) /\ outbox \in Seq(Seq(Output))
      /\ local_inputs \in Seq(Seq(Output)) /\ delivered \in Seq(Seq(Output))
    BY DEF Init
<1>3. cpc \in [Clients -> ClientPC] /\ ckind \in [Clients -> Method] /\ calls \in [Clients -> Nat]
    BY DEF Init, ClientPC, Method
<1>4. remaining \in [Requests -> 0 .. MaxDelta] /\ spurious \in 0 .. MaxSpurious
    BY <1>1 DEF Init
<1> QED
    BY <1>2, <1>3, <1>4 DEF Init, TypeOK, BackgroundPC, StreamPC

\* TypeOK is not inductive: what BlockingEnqueue pushes, and the instruction whose
\* execution is under way, need these two facts about the program counters.
CallKind ==
    \A c \in Clients : cpc[c] \in {"enqueue"} \cup Waiting => ckind[c] \in Blocking

UnderWay ==
    bpc \in {"unload_flag", "unload_notify", "reload_create"} => local_queue # <<>>

TypeInv == TypeOK /\ CallKind /\ UnderWay

\* A push on the instruction queue keeps the types.
LEMMA EnqueueType ==
    ASSUME TypeOK, NEW c \in Clients, NEW kind, NEW arg, Enqueue(c, kind, arg),
           [kind |-> kind, arg |-> arg, by |-> c] \in Instruction
    PROVE  /\ instruction_queue' \in Seq(Instruction)
           /\ pending_ops' \in Nat
           /\ cpc' \in [Clients -> ClientPC]
           /\ engine_waiting' \in BOOLEAN
           /\ \A d \in Clients : d # c => cpc'[d] = cpc[d]
           /\ cpc'[c] \in {"enqueue"} \cup Waiting => kind \in Blocking
<1>1. AfterNotify(kind) \in {"wait", "idle"} /\ (AfterNotify(kind) = "wait" => kind \in Blocking)
    BY DEF AfterNotify
<1> QED
    BY <1>1 DEF Enqueue, TypeOK, ClientPC, Waiting

\* So does the first step of a call,
LEMMA StartCallType ==
    ASSUME TypeInv, NEW c \in Clients, StartCall(c)
    PROVE  TypeInv'
<1>1. PICK kind \in MayCall[c] :
          /\ ckind' = [ckind EXCEPT ![c] = kind]
          /\ \/ kind = "add" /\ AddRequest(c)
             \/ kind = "abort" /\ AbortRequest(c)
             \/ kind \in {"reset", "debug"} /\ PlainCall(c, kind)
             \/ kind \in Blocking /\ BlockingStart(c, kind)
             \/ kind = "exit" /\ ExitStore(c)
    BY DEF StartCall
<1>2. kind \in Method
    BY ConstantsAssumption
<1>3. calls' \in [Clients -> Nat] /\ ckind' \in [Clients -> Method]
    BY <1>1, <1>2 DEF StartCall, TypeInv, TypeOK
<1>4. /\ UNCHANGED <<callback_mutex, callback_inputs, pending_callbacks, stream_waiting>>
      /\ UNCHANGED <<bpc, local_queue, outbox, bg_need_notify, loaded, active, remaining>>
      /\ UNCHANGED <<spc, local_inputs, delivered, spurious>>
    BY DEF StartCall, callbackVars, bgVars, engineVars, streamVars
<1>5. UnderWay'
    BY <1>4 DEF TypeInv, UnderWay
<1>6. /\ ckind'[c] = kind
      /\ \A d \in Clients : d # c => ckind'[d] = ckind[d]
    BY <1>1 DEF TypeInv, TypeOK
<1>7. TypeOK' /\ CallKind'
  <2>1. CASE kind = "add" /\ AddRequest(c)
    <3>1. PICK r \in Requests : Enqueue(c, "add", r) /\ submitted' = submitted \cup {r}
        BY <2>1 DEF AddRequest
    <3>2. [kind |-> "add", arg |-> r, by |-> c] \in Instruction
        BY DEF Instruction
    <3> QED
        BY <1>3, <1>4, <1>6, <2>1, <3>1, <3>2, EnqueueType
           DEF AddRequest, TypeInv, TypeOK, CallKind, flagVars
  <2>2. CASE kind = "abort" /\ AbortRequest(c)
    <3>1. PICK r \in Requests : Enqueue(c, "abort", r)
        BY <2>2 DEF AbortRequest
    <3>2. [kind |-> "abort", arg |-> r, by |-> c] \in Instruction
        BY DEF Instruction
    <3> QED
        BY <1>3, <1>4, <1>6, <2>2, <3>1, <3>2, EnqueueType
           DEF AbortRequest, TypeInv, TypeOK, CallKind, flagVars
  <2>3. CASE kind \in {"reset", "debug"} /\ PlainCall(c, kind)
    <3>1. [kind |-> kind, arg |-> NoRequest, by |-> c] \in Instruction
        BY <2>3 DEF Instruction
    <3> QED
        BY <1>3, <1>4, <1>6, <2>3, <3>1, EnqueueType
           DEF PlainCall, TypeInv, TypeOK, CallKind, flagVars
  <2>4. CASE kind \in Blocking /\ BlockingStart(c, kind)
    BY <1>3, <1>4, <1>6, <2>4
       DEF BlockingStart, TypeInv, TypeOK, CallKind, queueVars, ClientPC
  <2>5. CASE kind = "exit" /\ ExitStore(c)
    BY <1>3, <1>4, <1>6, <2>5
       DEF ExitStore, TypeInv, TypeOK, CallKind, queueVars, flagVars, ClientPC, Waiting
  <2> QED
    BY <1>1, <2>1, <2>2, <2>3, <2>4, <2>5
<1> QED
    BY <1>5, <1>7 DEF TypeInv

\* every later step of a call,
LEMMA ContinueCallType ==
    ASSUME TypeInv, NEW c \in Clients, ContinueCall(c)
    PROVE  TypeInv'
<1>1. /\ UNCHANGED <<ckind, calls, submitted, exit_now, reload_finished, unload_finished>>
      /\ UNCHANGED <<callback_mutex, callback_inputs, pending_callbacks, stream_waiting>>
      /\ UNCHANGED <<local_queue, outbox, bg_need_notify, loaded, active, remaining>>
      /\ UNCHANGED <<local_inputs, delivered, spurious>>
    BY DEF ContinueCall, flagVars, callbackVars, engineVars
<1> USE DEF TypeInv
<1>2. CASE BlockingEnqueue(c)
  <2>1. [kind |-> ckind[c], arg |-> NoRequest, by |-> c] \in Instruction
    BY <1>2 DEF BlockingEnqueue, CallKind, Instruction
  <2>2. TypeOK'
    BY <1>1, <1>2, <2>1, EnqueueType DEF BlockingEnqueue, TypeOK
  <2>3. CallKind'
    BY <1>1, <1>2, <2>1, EnqueueType DEF BlockingEnqueue, CallKind, TypeOK
  <2> QED
    BY <1>1, <1>2, <2>2, <2>3 DEF BlockingEnqueue, UnderWay
<1>3. CASE Notify(c)
    BY <1>1, <1>3 DEF Notify, WakeBackground, AfterNotify, queueVars, TypeOK, CallKind,
                      UnderWay, ClientPC, Waiting, BackgroundPC
<1>4. CASE Await(c)
    BY <1>1, <1>4 DEF Await, queueVars, TypeOK, CallKind, UnderWay, ClientPC, Waiting
<1>5. CASE ExitNotifyBackground(c)
    BY <1>1, <1>5 DEF ExitNotifyBackground, WakeBackground, queueVars, TypeOK, CallKind,
                      UnderWay, ClientPC, Waiting, BackgroundPC
<1>6. CASE ExitNotifyStream(c)
    BY <1>1, <1>6 DEF ExitNotifyStream, WakeStream, queueVars, TypeOK, CallKind, UnderWay,
                      ClientPC, Waiting, StreamPC
<1> QED
    BY <1>2, <1>3, <1>4, <1>5, <1>6 DEF ContinueCall

\* the notification of a caller that waits for a reload or an unload,
LEMMA WakeCallerType ==
    ASSUME TypeInv, WakeCaller, UNCHANGED ckind
    PROVE  cpc' \in [Clients -> ClientPC] /\ CallKind'
BY DEF WakeCaller, TypeInv, TypeOK, CallKind, ClientPC, Waiting

\* The instruction at the head of the local queue, and the rest of the queue.
LEMMA HeadType ==
    ASSUME TypeOK, local_queue # <<>>
    PROVE  /\ Head(local_queue) \in Instruction
           /\ Tail(local_queue) \in Seq(Instruction)
           /\ Head(local_queue).kind \in {"add", "abort"} => Head(local_queue).arg \in Requests
BY DEF TypeOK, Instruction, Blocking

\* The steps that execute an instruction or step the engine.
LEMMA ExecType ==
    ASSUME TypeInv,
           ExecAdd \/ ExecAbort \/ ExecDebug \/ ExecFail \/ ExecReset \/ ExecUnload \/ BgStep
    PROVE  /\ bpc' \in BackgroundPC
           /\ local_queue' \in Seq(Instruction)
           /\ outbox' \in Seq(Seq(Output))
           /\ loaded' \in BOOLEAN
           /\ active' \in SUBSET Requests
           /\ remaining' \in [Requests -> 0 .. MaxDelta]
           /\ UnderWay'
<1> USE DEF TypeInv
<1>0. /\ bpc \in BackgroundPC /\ local_queue \in Seq(Instruction)
      /\ outbox \in Seq(Seq(Output)) /\ loaded \in BOOLEAN
      /\ active \in SUBSET Requests /\ remaining \in [Requests -> 0 .. MaxDelta]
      /\ MaxDelta \in Nat
    BY ConstantsAssumption DEF TypeOK
<1>1. CASE ExecAdd
  <2> DEFINE r == Head(local_queue).arg
  <2>1. r \in Requests /\ local_queue' \in Seq(Instruction)
    BY <1>1, HeadType DEF ExecAdd, AtInstruction
  <2>2. <<ErrorBatch(r)>> \in Seq(Seq(Output)) /\ <<Tail(ErrorBatch(r))>> \in Seq(Seq(Output))
    BY <2>1, ErrorBatchType
  <2> HIDE DEF r
  <2>3. \/ /\ active' = active \cup {r}
           /\ \E k \in 0 .. MaxDelta : remaining' = [remaining EXCEPT ![r] = k]
           /\ UNCHANGED outbox
        \/ /\ outbox' \in {<<ErrorBatch(r)>>, <<Tail(ErrorBatch(r))>>}
           /\ UNCHANGED <<active, remaining>>
    BY <1>1 DEF ExecAdd, r
  <2>4. /\ outbox' \in Seq(Seq(Output)) /\ active' \in SUBSET Requests
        /\ remaining' \in [Requests -> 0 .. MaxDelta]
    BY <1>0, <2>1, <2>2, <2>3
  <2> QED
    BY <1>0, <1>1, <2>1, <2>4 DEF ExecAdd, AtInstruction, UnderWay
<1>2. CASE ExecAbort
  <2>1. Head(local_queue).arg \in Requests /\ local_queue' \in Seq(Instruction)
    BY <1>2, HeadType DEF ExecAbort, AtInstruction
  <2>2. <<ErrorBatch(Head(local_queue).arg)>> \in Seq(Seq(Output)) /\ <<>> \in Seq(Seq(Output))
    BY <2>1, ErrorBatchType
  <2> QED
    BY <1>0, <1>2, <2>1, <2>2 DEF ExecAbort, AtInstruction, UnderWay
<1>3. CASE ExecDebug
    BY <1>0, <1>3, HeadType DEF ExecDebug, AtInstruction, UnderWay, engineVars
<1>4. CASE ExecFail
    BY <1>0, <1>4 DEF ExecFail, UnderWay, engineVars, BackgroundPC
<1>5. CASE ExecReset
  <2>1. outbox' \in Seq(Seq(Output)) /\ active' \in SUBSET Requests
    BY <1>0, <1>5, AbortAllType DEF ExecReset
  <2> QED
    BY <1>0, <1>5, <2>1, HeadType DEF ExecReset, AtInstruction, UnderWay
<1>6. CASE ExecUnload
  <2>1. outbox' \in Seq(Seq(Output)) /\ active' \in SUBSET Requests
    BY <1>0, <1>6, AbortAllType DEF ExecUnload
  <2> QED
    BY <1>0, <1>6, <2>1 DEF ExecUnload, AtInstruction, UnderWay, BackgroundPC
<1>7. CASE BgStep
  <2>1. CASE UNCHANGED <<outbox, active, remaining>>
    BY <1>0, <1>7, <2>1 DEF BgStep, UnderWay, BackgroundPC
  <2>2. ASSUME NEW chosen \in SUBSET active,
               NEW order \in Orders(chosen),
               NEW last \in Orders({r \in chosen : remaining[r] = 0}),
               outbox' = <<StepBatch(order, last)>>
        PROVE  outbox' \in Seq(Seq(Output))
    <3>1. order \in Seq(Requests) /\ last \in Seq(Requests)
      <4>1. chosen \in SUBSET Requests
        BY <1>0
      <4>2. PICK ended \in SUBSET Requests : ended = {r \in chosen : remaining[r] = 0}
        BY <4>1
      <4>3. order \in Seq(chosen) /\ last \in Seq(ended)
        BY <2>2, <4>1, <4>2, OrderType
      <4> QED
        BY <4>1, <4>2, <4>3
    <3> QED
        BY <2>2, <3>1, StepBatchType
  <2>3. ASSUME NEW chosen \in SUBSET active,
               remaining' = [r \in Requests |->
                   IF r \in chosen /\ remaining[r] > 0 THEN remaining[r] - 1 ELSE remaining[r]]
        PROVE  remaining' \in [Requests -> 0 .. MaxDelta]
    BY <1>0, <2>3
  <2>4. CASE ~UNCHANGED <<outbox, active, remaining>>
    BY <1>0, <1>7, <2>2, <2>3, <2>4 DEF BgStep, UnderWay, BackgroundPC
  <2> QED
    BY <2>1, <2>4
<1> QED
    BY <1>1, <1>2, <1>3, <1>4, <1>5, <1>6, <1>7

\* Every step of the background loop keeps the types,
LEMMA BackgroundType ==
    ASSUME TypeInv, RunBackgroundLoop
    PROVE  TypeInv'
<1> USE DEF TypeInv
<1>1. UNCHANGED <<ckind, calls, submitted, exit_now, callback_mutex, stream_waiting,
                  local_inputs, delivered, spurious>>
    BY DEF RunBackgroundLoop
<1>2. CASE /\ BgCheck \/ BgBlock \/ BgTakeQueue
           /\ UNCHANGED <<cpc, flagVars, outbox, engineVars>>
           /\ UNCHANGED <<callback_inputs, pending_callbacks, bg_need_notify, spc>>
  <2>1. /\ instruction_queue' \in Seq(Instruction) /\ local_queue' \in Seq(Instruction)
        /\ pending_ops' \in Nat
    <3>1. CASE BgCheck \/ BgBlock
        BY <3>1 DEF BgCheck, BgBlock, queueVars, TypeOK
    <3>2. CASE BgTakeQueue
        BY <3>2, EmptySeq DEF BgTakeQueue, TypeOK
    <3> QED
        BY <1>2, <3>1, <3>2
  <2>2. engine_waiting' \in BOOLEAN
    BY <1>2 DEF BgCheck, BgBlock, BgTakeQueue, queueVars, TypeOK
  <2>3. bpc' \in BackgroundPC /\ UnderWay'
    BY <1>2 DEF BgCheck, BgBlock, BgTakeQueue, BackgroundPC, UnderWay
  <2> QED
    BY <1>1, <1>2, <2>1, <2>2, <2>3 DEF flagVars, engineVars, TypeOK, CallKind
<1>3. CASE /\ ExecAdd \/ ExecAbort \/ ExecDebug \/ ExecFail \/ ExecReset \/ ExecUnload \/ BgStep
           /\ UNCHANGED <<cpc, queueVars, flagVars>>
           /\ UNCHANGED <<callback_inputs, pending_callbacks, bg_need_notify, spc>>
  <2>1. /\ bpc' \in BackgroundPC /\ local_queue' \in Seq(Instruction)
        /\ outbox' \in Seq(Seq(Output)) /\ loaded' \in BOOLEAN
        /\ active' \in SUBSET Requests /\ remaining' \in [Requests -> 0 .. MaxDelta]
        /\ UnderWay'
    BY <1>3, ExecType
  <2>2. TypeOK'
    BY <1>1, <1>3, <2>1 DEF TypeOK, queueVars, flagVars
  <2> QED
    BY <1>1, <1>3, <2>1, <2>2 DEF CallKind
<1>4. CASE /\ UnloadFlag \/ UnloadNotify \/ ReloadCreate \/ ReloadFail \/ ReloadNotify
           /\ UNCHANGED <<queueVars, outbox, active, remaining>>
           /\ UNCHANGED <<callback_inputs, pending_callbacks, bg_need_notify, spc>>
  <2>1. /\ bpc' \in BackgroundPC /\ local_queue' \in Seq(Instruction) /\ loaded' \in BOOLEAN
        /\ reload_finished' \in BOOLEAN /\ unload_finished' \in BOOLEAN
        /\ UnderWay'
    BY <1>4, HeadType DEF UnloadFlag, UnloadNotify, ReloadCreate, ReloadFail, ReloadNotify,
                          flagVars, TypeOK, UnderWay, BackgroundPC
  <2>2. cpc' \in [Clients -> ClientPC] /\ CallKind'
    BY <1>1, <1>4, WakeCallerType
       DEF UnloadFlag, UnloadNotify, ReloadCreate, ReloadFail, ReloadNotify, TypeOK, CallKind
  <2> QED
    BY <1>1, <1>4, <2>1, <2>2 DEF TypeOK, queueVars
<1>5. CASE /\ CallbackPush \/ CallbackNotify
           /\ UNCHANGED <<cpc, queueVars, flagVars, bpc, local_queue, engineVars>>
  <2>1. /\ callback_inputs' \in Seq(Seq(Output)) /\ pending_callbacks' \in Nat
        /\ outbox' \in Seq(Seq(Output)) /\ bg_need_notify' \in BOOLEAN
        /\ spc' \in StreamPC
    <3>1. CASE CallbackPush
        BY <3>1 DEF CallbackPush, TypeOK
    <3>2. CASE CallbackNotify
        BY <3>2 DEF CallbackNotify, WakeStream, TypeOK, StreamPC
    <3> QED
        BY <1>5, <3>1, <3>2
  <2> QED
    BY <1>1, <1>5, <2>1 DEF TypeOK, CallKind, UnderWay, queueVars, flagVars, engineVars
<1> QED
    BY <1>2, <1>3, <1>4, <1>5 DEF RunBackgroundLoop

\* every step of the stream-back loop,
LEMMA StreamType ==
    ASSUME TypeInv, RunBackgroundStreamBackLoop
    PROVE  TypeInv'
<1> USE DEF TypeInv
<1>1. /\ callback_mutex' \in {"free", "stream"} /\ callback_inputs' \in Seq(Seq(Output))
      /\ pending_callbacks' \in Nat /\ stream_waiting' \in BOOLEAN
      /\ spc' \in StreamPC /\ local_inputs' \in Seq(Seq(Output))
      /\ delivered' \in Seq(Seq(Output))
  <2>1. CASE StreamCheck \/ StreamDecideToBlock
    BY <2>1 DEF StreamCheck, StreamDecideToBlock, callbackVars, TypeOK, StreamPC
  <2>2. CASE StreamLock
    BY <2>2 DEF StreamLock, TypeOK, StreamPC
  <2>3. CASE StreamBlock
    BY <2>3 DEF StreamBlock, TypeOK, StreamPC
  <2>4. CASE StreamTake
    BY <2>4, EmptySeq DEF StreamTake, TypeOK, StreamPC
  <2>5. CASE StreamDeliver
    BY <2>5 DEF StreamDeliver, callbackVars, TypeOK, StreamPC
  <2> QED
    BY <2>1, <2>2, <2>3, <2>4, <2>5 DEF RunBackgroundStreamBackLoop
<1>2. /\ UNCHANGED <<cpc, ckind, calls, submitted, instruction_queue, pending_ops>>
      /\ UNCHANGED <<engine_waiting, exit_now, reload_finished, unload_finished>>
      /\ UNCHANGED <<bpc, local_queue, outbox, bg_need_notify, loaded, active, remaining>>
      /\ UNCHANGED spurious
    BY DEF RunBackgroundStreamBackLoop, clientVars, queueVars, flagVars, bgVars, engineVars
<1> QED
    BY <1>1, <1>2 DEF TypeOK, CallKind, UnderWay

\* and a spurious wakeup.
LEMMA SpuriousType ==
    ASSUME TypeInv, SpuriousWakeup
    PROVE  TypeInv'
<1> USE DEF TypeInv
<1>1. /\ UNCHANGED <<ckind, calls, submitted, instruction_queue, pending_ops>>
      /\ UNCHANGED <<engine_waiting, exit_now, reload_finished, unload_finished>>
      /\ UNCHANGED <<callback_mutex, callback_inputs, pending_callbacks, stream_waiting>>
      /\ UNCHANGED <<local_queue, outbox, bg_need_notify, loaded, active, remaining>>
      /\ UNCHANGED <<local_inputs, delivered>>
    BY DEF SpuriousWakeup, queueVars, flagVars, callbackVars, engineVars
<1>2. spurious' \in 0 .. MaxSpurious
    BY ConstantsAssumption DEF SpuriousWakeup, TypeOK
<1>3. bpc' \in BackgroundPC /\ spc' \in StreamPC /\ UnderWay'
    BY <1>1 DEF SpuriousWakeup, TypeOK, BackgroundPC, StreamPC, UnderWay
<1>4. cpc' \in [Clients -> ClientPC] /\ CallKind'
    BY <1>1 DEF SpuriousWakeup, TypeOK, CallKind, ClientPC, Waiting
<1> QED
    BY <1>1, <1>2, <1>3, <1>4 DEF TypeOK

\* So TypeInv is inductive.
LEMMA TypeInvNext == TypeInv /\ [Next]_vars => TypeInv'
<1> SUFFICES ASSUME TypeInv, [Next]_vars PROVE TypeInv'
    OBVIOUS
<1>1. CASE Next
    BY <1>1, StartCallType, ContinueCallType, BackgroundType, StreamType, SpuriousType
       DEF Next
<1>2. CASE UNCHANGED vars
    BY <1>2 DEF vars, clientVars, queueVars, flagVars, callbackVars, bgVars, engineVars,
                streamVars, TypeInv, TypeOK, CallKind, UnderWay
<1> QED
    BY <1>1, <1>2

\* It holds in the beginning: no call is under way.
LEMMA TypeInvInit == Init => TypeInv
BY TypeInit DEF Init, TypeInv, CallKind, UnderWay, Waiting

\* Every variable of the threaded engine keeps its type, for any set of callers,
\* requests and bounds.
THEOREM TypeCorrect == Spec => []TypeOK
<1>1. TypeInv => TypeOK
    BY DEF TypeInv
<1> QED
    BY <1>1, TypeInvInit, TypeInvNext, PTL DEF Spec

-----------------------------------------------------------------------------
(* No wakeup is lost. *)

\* The facts that make NoLostBackgroundWakeup inductive: the counter the wait
\* predicate reads is the length of the queue, and a background loop that is
\* blocked has told the callers so.
BackgroundWakeupInv ==
    /\ pending_ops = Len(instruction_queue)
    /\ bpc \in {"blocked", "woken"} => engine_waiting
    /\ NoLostBackgroundWakeup

\* The same for the stream-back loop, and that it holds the mutex from the
\* evaluation of the predicate until it blocks.
StreamWakeupInv ==
    /\ pending_callbacks = Len(callback_inputs)
    /\ callback_mutex = "stream" <=> spc \in {"predicate", "block"}
    /\ spc \in {"predicate", "block", "blocked", "woken"} => stream_waiting
    /\ spc = "block" => callback_inputs = <<>>
    /\ NoLostStreamWakeup

\* Pushing an instruction while the background loop is blocked leaves the caller
\* about to notify.
LEMMA EnqueueWakes ==
    ASSUME TypeOK, BackgroundWakeupInv, NEW c \in Clients, NEW kind, NEW arg,
           Enqueue(c, kind, arg), UNCHANGED <<bpc, exit_now>>
    PROVE  BackgroundWakeupInv'
<1> DEFINE i == [kind |-> kind, arg |-> arg, by |-> c]
<1>1. pending_ops' = Len(instruction_queue')
  <2>1. Len(Append(instruction_queue, i)) = Len(instruction_queue) + 1
    BY DEF TypeOK
  <2> QED
    BY <2>1 DEF Enqueue, BackgroundWakeupInv
<1>2. bpc' = "blocked" => cpc'[c] = "notify"
    BY DEF Enqueue, BackgroundWakeupInv, TypeOK
<1> QED
    BY <1>1, <1>2 DEF Enqueue, BackgroundWakeupInv, NoLostBackgroundWakeup

\* No step leaves the background loop blocked without a notification to come.
LEMMA BackgroundWakeupNext ==
    ASSUME TypeInv, BackgroundWakeupInv, [Next]_vars
    PROVE  BackgroundWakeupInv'
<1> USE DEF BackgroundWakeupInv
<1>0. TypeOK
    BY DEF TypeInv
<1>1. ASSUME NEW c \in Clients, StartCall(c)
      PROVE  BackgroundWakeupInv'
  <2>1. /\ UNCHANGED bpc
        /\ \/ /\ UNCHANGED exit_now
              /\ \E kind \in Method, arg \in Requests \cup {NoRequest} : Enqueue(c, kind, arg)
           \/ /\ UNCHANGED <<queueVars, exit_now>>
              /\ cpc' = [cpc EXCEPT ![c] = "enqueue"]
           \/ ExitStore(c)
    BY <1>1, ConstantsAssumption
       DEF StartCall, AddRequest, AbortRequest, PlainCall, BlockingStart, bgVars,
           Method, InstructionKind, Plain
  <2>2. cpc[c] = "idle"
    BY <1>1 DEF StartCall
  <2>3. CASE UNCHANGED <<queueVars, exit_now>> /\ cpc' = [cpc EXCEPT ![c] = "enqueue"]
    BY <1>0, <2>1, <2>2, <2>3 DEF queueVars, NoLostBackgroundWakeup, TypeOK
  <2>4. CASE ExitStore(c)
    BY <1>0, <2>1, <2>4 DEF ExitStore, queueVars, NoLostBackgroundWakeup, TypeOK
  <2> QED
    BY <1>0, <2>1, <2>3, <2>4, EnqueueWakes
<1>2. ASSUME NEW c \in Clients, ContinueCall(c)
      PROVE  BackgroundWakeupInv'
  <2>1. UNCHANGED exit_now
    BY <1>2 DEF ContinueCall
  <2>2. CASE BlockingEnqueue(c)
    BY <1>0, <2>1, <2>2, EnqueueWakes DEF BlockingEnqueue
  <2>3. CASE Notify(c) \/ ExitNotifyBackground(c)
    BY <2>1, <2>3 DEF Notify, ExitNotifyBackground, WakeBackground, queueVars,
                      NoLostBackgroundWakeup
  <2>4. CASE Await(c) \/ ExitNotifyStream(c)
    BY <1>0, <2>1, <2>4 DEF Await, ExitNotifyStream, queueVars, NoLostBackgroundWakeup, TypeOK
  <2> QED
    BY <1>2, <2>2, <2>3, <2>4 DEF ContinueCall
<1>3. CASE RunBackgroundLoop
  <2>1. UNCHANGED exit_now
    BY <1>3 DEF RunBackgroundLoop
  <2>2. CASE BgCheck
    BY <2>1, <2>2 DEF BgCheck, queueVars, NoLostBackgroundWakeup
  <2>3. CASE BgBlock
    BY <1>0, <2>1, <2>3, EmptySeq DEF BgBlock, BgPredicate, NoLostBackgroundWakeup, TypeOK
  <2>4. CASE BgTakeQueue
    BY <2>1, <2>4, EmptySeq DEF BgTakeQueue, NoLostBackgroundWakeup
  <2>5. CASE /\ \/ ExecAdd \/ ExecAbort \/ ExecDebug \/ ExecFail \/ ExecReset
                \/ ExecUnload \/ BgStep
                \/ UnloadFlag \/ UnloadNotify \/ ReloadCreate \/ ReloadFail \/ ReloadNotify
             /\ UNCHANGED queueVars
    <3>1. bpc' \notin {"blocked", "woken"}
        BY <2>5 DEF ExecAdd, ExecAbort, ExecDebug, ExecFail, ExecReset, ExecUnload, BgStep,
                    UnloadFlag, UnloadNotify, ReloadCreate, ReloadFail, ReloadNotify,
                    AtInstruction
    <3> QED
        BY <2>5, <3>1 DEF queueVars, NoLostBackgroundWakeup
  <2>6. CASE UNCHANGED <<cpc, queueVars, bpc>>
    BY <2>1, <2>6 DEF queueVars, NoLostBackgroundWakeup
  <2> QED
    BY <1>3, <2>2, <2>3, <2>4, <2>5, <2>6 DEF RunBackgroundLoop
<1>4. CASE RunBackgroundStreamBackLoop
    BY <1>4 DEF RunBackgroundStreamBackLoop, clientVars, queueVars, bgVars,
                NoLostBackgroundWakeup
<1>5. CASE SpuriousWakeup
    BY <1>0, <1>5 DEF SpuriousWakeup, queueVars, NoLostBackgroundWakeup, TypeOK
<1>6. CASE UNCHANGED vars
    BY <1>6 DEF vars, clientVars, queueVars, bgVars, NoLostBackgroundWakeup
<1> QED
    BY <1>1, <1>2, <1>3, <1>4, <1>5, <1>6 DEF Next

\* For any callers, in any interleaving: while an instruction or an exit is
\* pending, a blocked background loop has a notification coming.
THEOREM BackgroundWakeup == Spec => []NoLostBackgroundWakeup
<1>1. Init => BackgroundWakeupInv
    BY EmptySeq DEF Init, BackgroundWakeupInv, NoLostBackgroundWakeup
<1>2. TypeInv /\ BackgroundWakeupInv /\ [Next]_vars => TypeInv' /\ BackgroundWakeupInv'
    BY TypeInvNext, BackgroundWakeupNext
<1>3. BackgroundWakeupInv => NoLostBackgroundWakeup
    BY DEF BackgroundWakeupInv
<1> QED
    BY <1>1, <1>2, <1>3, TypeInvInit, PTL DEF Spec

\* No step leaves the stream-back loop blocked without a notification to come.
LEMMA StreamWakeupNext ==
    ASSUME TypeInv, StreamWakeupInv, [Next]_vars
    PROVE  StreamWakeupInv'
<1> USE DEF StreamWakeupInv, NoLostStreamWakeup
<1>0. TypeOK
    BY DEF TypeInv
<1>1. CASE UNCHANGED <<callbackVars, spc, bg_need_notify>>
    BY <1>1 DEF callbackVars
<1>2. CASE \E c \in Clients : StartCall(c)
    BY <1>1, <1>2 DEF StartCall, streamVars, bgVars
<1>3. ASSUME NEW c \in Clients, ContinueCall(c)
      PROVE  StreamWakeupInv'
  <2>1. UNCHANGED <<callbackVars, bg_need_notify>>
    BY <1>3 DEF ContinueCall
  <2>2. CASE ExitNotifyStream(c)
    BY <2>1, <2>2 DEF ExitNotifyStream, WakeStream, callbackVars
  <2>3. CASE UNCHANGED spc
    BY <1>1, <2>1, <2>3
  <2> QED
    BY <1>3, <2>2, <2>3 DEF ContinueCall, BlockingEnqueue, Notify, Await, ExitNotifyBackground
<1>4. CASE RunBackgroundLoop
  <2>1. UNCHANGED <<callback_mutex, stream_waiting>>
    BY <1>4 DEF RunBackgroundLoop
  <2>2. CASE CallbackPush
    <3>1. callback_mutex = "free" /\ spc \notin {"predicate", "block"} /\ UNCHANGED spc
        BY <2>2 DEF CallbackPush
    <3>2. pending_callbacks' = Len(callback_inputs')
      <4>1. Len(Append(callback_inputs, Head(outbox))) = Len(callback_inputs) + 1
        BY <1>0 DEF TypeOK
      <4> QED
        BY <2>2, <4>1 DEF CallbackPush
    <3>3. spc' = "blocked" => bg_need_notify'
        BY <2>2, <3>1 DEF CallbackPush
    <3> QED
        BY <2>1, <3>1, <3>2, <3>3
  <2>3. CASE CallbackNotify
    BY <2>1, <2>3 DEF CallbackNotify, WakeStream
  <2>4. CASE UNCHANGED <<callback_inputs, pending_callbacks, bg_need_notify, spc>>
    BY <1>1, <2>1, <2>4 DEF callbackVars
  <2> QED
    BY <1>4, <2>2, <2>3, <2>4 DEF RunBackgroundLoop
<1>5. CASE RunBackgroundStreamBackLoop
  <2>1. UNCHANGED bg_need_notify
    BY <1>5 DEF RunBackgroundStreamBackLoop, bgVars
  <2>2. CASE StreamCheck
    BY <2>1, <2>2 DEF StreamCheck, callbackVars
  <2>3. CASE StreamLock
    BY <2>1, <2>3 DEF StreamLock
  <2>4. CASE StreamDecideToBlock
    BY <1>0, <2>1, <2>4, EmptySeq DEF StreamDecideToBlock, StreamPredicate, callbackVars, TypeOK
  <2>5. CASE StreamBlock
    BY <2>1, <2>5 DEF StreamBlock
  <2>6. CASE StreamTake
    BY <2>1, <2>6, EmptySeq DEF StreamTake
  <2>7. CASE StreamDeliver
    BY <2>1, <2>7 DEF StreamDeliver, callbackVars
  <2> QED
    BY <1>5, <2>2, <2>3, <2>4, <2>5, <2>6, <2>7 DEF RunBackgroundStreamBackLoop
<1>6. CASE SpuriousWakeup
    BY <1>6 DEF SpuriousWakeup, callbackVars
<1>7. CASE UNCHANGED vars
    BY <1>1, <1>7 DEF vars, bgVars, streamVars
<1> QED
    BY <1>2, <1>3, <1>4, <1>5, <1>6, <1>7 DEF Next

\* For any callers, in any interleaving: while a batch of outputs is queued, a
\* blocked stream-back loop has a notification coming.
THEOREM StreamWakeup == Spec => []NoLostStreamWakeup
<1>1. Init => StreamWakeupInv
    BY EmptySeq DEF Init, StreamWakeupInv, NoLostStreamWakeup
<1>2. TypeInv /\ StreamWakeupInv /\ [Next]_vars => TypeInv' /\ StreamWakeupInv'
    BY TypeInvNext, StreamWakeupNext
<1>3. StreamWakeupInv => NoLostStreamWakeup
    BY DEF StreamWakeupInv
<1> QED
    BY <1>1, <1>2, <1>3, TypeInvInit, PTL DEF Spec

-----------------------------------------------------------------------------
(* The threads implement the sequential service of EngineService. *)

\* What the mapping needs to know of the program counters: a loop that is about to
\* overwrite its local copy of a queue has emptied it, and an unload or a reload
\* under way is at the head of the queue, with the engine gone.
HandOver ==
    /\ bpc \in {"check", "wait", "blocked", "woken"} => local_queue = <<>>
    /\ spc # "deliver" => local_inputs = <<>>
    /\ ~loaded => active = {}
    /\ bpc \in {"unload_flag", "unload_notify"} =>
           ~loaded /\ local_queue # <<>> /\ Head(local_queue).kind \in {"unload", "reload"}
    /\ bpc = "reload_create" =>
           ~loaded /\ local_queue # <<>> /\ Head(local_queue).kind = "reload"

RInv == TypeInv /\ HandOver

\* It holds in the beginning, with both queues empty.
LEMMA HandOverInit == Init => HandOver
BY DEF Init, HandOver

\* A caller changes none of it: notify_one only moves a blocked loop to woken.
LEMMA HandOverCalls ==
    ASSUME RInv, NEW c \in Clients, StartCall(c) \/ ContinueCall(c)
    PROVE  HandOver'
<1>1. CASE StartCall(c)
    BY <1>1 DEF StartCall, bgVars, engineVars, streamVars, RInv, HandOver
<1>2. CASE ContinueCall(c)
  <2>1. /\ bpc' = bpc \/ (bpc = "blocked" /\ bpc' = "woken")
        /\ spc' = spc \/ (spc = "blocked" /\ spc' = "woken")
    BY <1>2 DEF ContinueCall, BlockingEnqueue, Notify, Await, ExitNotifyBackground,
                ExitNotifyStream, WakeBackground, WakeStream
  <2> QED
    BY <1>2, <2>1 DEF ContinueCall, engineVars, RInv, HandOver
<1> QED
    BY <1>1, <1>2

\* The background loop: it takes the queue after it has emptied its own, and drops
\* the engine, with its requests, before it goes on with an unload or a reload.
LEMMA HandOverBackground ==
    ASSUME RInv, RunBackgroundLoop
    PROVE  HandOver'
<1>0. UNCHANGED local_inputs
    BY DEF RunBackgroundLoop
<1>1. CASE /\ BgCheck \/ BgBlock \/ BgTakeQueue
           /\ UNCHANGED <<cpc, flagVars, outbox, engineVars>> /\ UNCHANGED spc
    BY <1>0, <1>1 DEF BgCheck, BgBlock, BgTakeQueue, engineVars, RInv, HandOver
<1>2. CASE /\ ExecAdd \/ ExecAbort \/ ExecDebug \/ ExecFail \/ ExecReset
           /\ UNCHANGED spc
  <2>1. bpc = "process" /\ bpc' \in {"process", "failed"} /\ loaded' = loaded
    BY <1>2 DEF ExecAdd, ExecAbort, ExecDebug, ExecFail, ExecReset, AtInstruction, engineVars
  <2>2. ~loaded => active' = {}
    BY <1>2 DEF ExecAdd, ExecAbort, ExecDebug, ExecFail, ExecReset, AtInstruction, engineVars,
                RInv, HandOver
  <2> QED
    BY <1>0, <1>2, <2>1, <2>2 DEF RInv, HandOver
<1>3. CASE ExecUnload /\ UNCHANGED spc
  <2>1. active' = {}
    BY <1>3 DEF ExecUnload, AbortAll, RInv, HandOver
  <2> QED
    BY <1>0, <1>3, <2>1 DEF ExecUnload, AtInstruction, RInv, HandOver
<1>4. CASE BgStep /\ UNCHANGED spc
  <2>1. ~loaded => active' = {}
    BY <1>4 DEF BgStep, RInv, HandOver
  <2> QED
    BY <1>0, <1>4, <2>1 DEF BgStep, RInv, HandOver
<1>5. CASE /\ UnloadFlag \/ UnloadNotify \/ ReloadCreate \/ ReloadFail \/ ReloadNotify
           /\ UNCHANGED <<queueVars, outbox, active, remaining>> /\ UNCHANGED spc
    BY <1>0, <1>5 DEF UnloadFlag, UnloadNotify, ReloadCreate, ReloadFail, ReloadNotify,
                      RInv, HandOver
<1>6. CASE /\ CallbackPush \/ CallbackNotify
           /\ UNCHANGED <<cpc, queueVars, flagVars, bpc, local_queue, engineVars>>
  <2>1. spc' = spc \/ (spc = "blocked" /\ spc' = "woken")
    BY <1>6 DEF CallbackPush, CallbackNotify, WakeStream
  <2> QED
    BY <1>0, <1>6, <2>1 DEF engineVars, RInv, HandOver
<1> QED
    BY <1>1, <1>2, <1>3, <1>4, <1>5, <1>6 DEF RunBackgroundLoop

\* The stream-back loop: it takes the batches after it has delivered its own.
LEMMA HandOverStream ==
    ASSUME RInv, RunBackgroundStreamBackLoop
    PROVE  HandOver'
BY DEF RunBackgroundStreamBackLoop, StreamCheck, StreamLock, StreamDecideToBlock,
       StreamBlock, StreamTake, StreamDeliver, bgVars, engineVars, RInv, HandOver

\* So RInv is inductive.
LEMMA RInvNext == RInv /\ [Next]_vars => RInv'
<1> SUFFICES ASSUME RInv, [Next]_vars PROVE RInv'
    OBVIOUS
<1>1. TypeInv'
    BY TypeInvNext DEF RInv
<1>2. CASE SpuriousWakeup
  <2>1. /\ bpc' = bpc \/ (bpc = "blocked" /\ bpc' = "woken")
        /\ spc' = spc \/ (spc = "blocked" /\ spc' = "woken")
    BY <1>2 DEF SpuriousWakeup
  <2>2. UNCHANGED <<local_queue, local_inputs, engineVars>>
    BY <1>2 DEF SpuriousWakeup
  <2> QED
    BY <1>1, <2>1, <2>2 DEF engineVars, RInv, HandOver
<1>3. CASE UNCHANGED vars
    BY <1>1, <1>3 DEF vars, bgVars, engineVars, streamVars, RInv, HandOver
<1>4. CASE Next /\ ~SpuriousWakeup
    BY <1>1, <1>4, HandOverCalls, HandOverBackground, HandOverStream DEF Next, RInv
<1> QED
    BY <1>2, <1>3, <1>4

\* It holds throughout.
LEMMA RInvAlways == Spec => []RInv
<1>1. Init => RInv
    BY TypeInvInit, HandOverInit DEF RInv
<1> QED
    BY <1>1, RInvNext, PTL DEF Spec

-----------------------------------------------------------------------------
(* The queues as the service sees them. *)

\* The batches that the service is streaming.
Streaming == local_inputs \o callback_inputs \o outbox

\* Appending to the second of two sequences appends to both.
LEMMA ConcatAppend ==
    ASSUME NEW S, NEW s \in Seq(S), NEW t \in Seq(S), NEW e \in S
    PROVE  s \o Append(t, e) = Append(s \o t, e)
<1>1. /\ Append(t, e) = t \o <<e>> /\ <<e>> \in Seq(S) /\ s \o t \in Seq(S)
      /\ Append(s \o t, e) = (s \o t) \o <<e>>
    BY AppendIsConcat, ConcatProperties
<1>2. (s \o t) \o <<e>> = s \o (t \o <<e>>)
    BY <1>1, ConcatAssociative
<1> QED
    BY <1>1, <1>2

\* Taking the first element of two sequences takes it from the first of them.
LEMMA ConcatTail ==
    ASSUME NEW S, NEW s \in Seq(S), NEW t \in Seq(S), s # <<>>
    PROVE  s \o t # <<>> /\ Head(s \o t) = Head(s) /\ Tail(s \o t) = Tail(s) \o t
<1>1. /\ s \o t \in Seq(S) /\ Len(s \o t) = Len(s) + Len(t)
      /\ \A i \in 1 .. Len(s) + Len(t) : (s \o t)[i] =
                     IF i <= Len(s) THEN s[i] ELSE t[i - Len(s)]
    BY ConcatProperties
<1>2. Len(s) \in Nat \ {0} /\ Len(t) \in Nat
    BY EmptySeq
<1>3. s \o t # <<>> /\ Head(s \o t) = Head(s)
    BY <1>1, <1>2
<1>4. /\ Tail(s) \in Seq(S) /\ Len(Tail(s)) = Len(s) - 1
      /\ \A i \in 1 .. Len(Tail(s)) : Tail(s)[i] = s[i + 1]
    BY HeadTailProperties
<1>5. /\ Tail(s \o t) \in Seq(S) /\ Len(Tail(s \o t)) = Len(s \o t) - 1
      /\ \A i \in 1 .. Len(Tail(s \o t)) : Tail(s \o t)[i] = (s \o t)[i + 1]
    BY <1>1, <1>3, HeadTailProperties
<1>6. /\ Tail(s) \o t \in Seq(S) /\ Len(Tail(s) \o t) = Len(Tail(s)) + Len(t)
      /\ \A i \in 1 .. Len(Tail(s)) + Len(t) : (Tail(s) \o t)[i] =
                     IF i <= Len(Tail(s)) THEN Tail(s)[i] ELSE t[i - Len(Tail(s))]
    BY <1>4, ConcatProperties
<1>7. ASSUME NEW i \in 1 .. Len(Tail(s \o t)) PROVE Tail(s \o t)[i] = (Tail(s) \o t)[i]
  <2>1. /\ i + 1 \in 1 .. Len(s) + Len(t) /\ i \in 1 .. Len(Tail(s)) + Len(t)
        /\ (i + 1) - Len(s) = i - Len(Tail(s))
        /\ i + 1 <= Len(s) <=> i <= Len(Tail(s))
        /\ i <= Len(Tail(s)) => i \in 1 .. Len(Tail(s))
    BY <1>1, <1>2, <1>4, <1>5
  <2>2. /\ Tail(s \o t)[i] = (s \o t)[i + 1]
        /\ (s \o t)[i + 1] = IF i + 1 <= Len(s) THEN s[i + 1] ELSE t[(i + 1) - Len(s)]
        /\ (Tail(s) \o t)[i] = IF i <= Len(Tail(s)) THEN Tail(s)[i] ELSE t[i - Len(Tail(s))]
    BY <1>1, <1>5, <1>6, <2>1
  <2> QED
    BY <1>4, <2>1, <2>2
<1>8. Len(Tail(s \o t)) = Len(Tail(s) \o t)
    BY <1>1, <1>2, <1>4, <1>5, <1>6
<1> QED
    BY <1>3, <1>5, <1>6, <1>7, <1>8, SeqEqual

\* The types of the mapped queues.
LEMMA QueueTypes ==
    ASSUME RInv
    PROVE  /\ local_queue \in Seq(Instruction) /\ instruction_queue \in Seq(Instruction)
           /\ Todo \in Seq(Instruction)
           /\ local_inputs \in Seq(Seq(Output)) /\ callback_inputs \in Seq(Seq(Output))
           /\ outbox \in Seq(Seq(Output)) /\ local_inputs \o callback_inputs \in Seq(Seq(Output))
           /\ Streaming \in Seq(Seq(Output))
BY ConcatProperties DEF RInv, TypeInv, TypeOK, Todo, Streaming

\* The answer of an ended request, and the orders, are the same in both modules.
LEMMA SameBatches ==
    /\ \A r : Service!Ended(r) = ErrorBatch(r)
    /\ \A r : Service!Chunks(<<r>>, "usage") = Tail(ErrorBatch(r))
    /\ \A S : Service!Orders(S) = Orders(S)
<1>1. ASSUME NEW r, NEW kind
      PROVE  Service!Chunks(<<r>>, kind) = <<[req |-> r, kind |-> kind]>>
    BY DEF Service!Chunks
<1>2. ASSUME NEW r PROVE Service!Ended(r) = ErrorBatch(r)
  <2>1. ASSUME NEW a, NEW b PROVE <<a>> \o <<b>> = <<a, b>>
    <3>1. PICK S : a \in S /\ b \in S
      <4>1. a \in {a, b} /\ b \in {a, b}
        OBVIOUS
      <4> QED BY <4>1
    <3>2. /\ <<a>> \in Seq(S) /\ Len(<<a>>) = 1 /\ <<a>>[1] = a
          /\ <<b>> \in Seq(S) /\ Len(<<b>>) = 1 /\ <<b>>[1] = b
          /\ <<a, b>> \in Seq(S) /\ Len(<<a, b>>) = 2 /\ <<a, b>>[1] = a /\ <<a, b>>[2] = b
      BY <3>1
    <3> DEFINE x == <<a>> \o <<b>>
               y == <<a, b>>
    <3>3. x \in Seq(S) /\ Len(x) = 2 /\ x[1] = a /\ x[2] = b
      BY <3>2, ConcatProperties
    <3>4. y \in Seq(S) /\ Len(y) = 2 /\ y[1] = a /\ y[2] = b
      BY <3>2
    <3> HIDE DEF x, y
    <3>5. Len(x) = Len(y) /\ \A i \in 1 .. Len(x) : x[i] = y[i]
      BY <3>3, <3>4
    <3>6. x = y
      BY <3>3, <3>4, <3>5, SeqEqual
    <3> QED BY <3>6 DEF x, y
  <2>2. <<[req |-> r, kind |-> "finish"]>> \o <<[req |-> r, kind |-> "usage"]>> = ErrorBatch(r)
    BY <2>1 DEF ErrorBatch
  <2> QED
    BY <1>1, <2>2 DEF Service!Ended
<1>3. \A r : Service!Chunks(<<r>>, "usage") = Tail(ErrorBatch(r))
    BY <1>1 DEF ErrorBatch
<1>4. ASSUME NEW S PROVE Service!Orders(S) = Orders(S)
  <2>1. Service!Cardinality(S) = Cardinality(S)
    BY DEF Service!Cardinality, Cardinality
  <2> QED
    BY <2>1 DEF Service!Orders, Orders
<1> QED
    BY <1>2, <1>3, <1>4

-----------------------------------------------------------------------------
(* Every step is a step of the service, or changes nothing of it. *)

\* A step that leaves the five variables of the service alone.
Stutters == UNCHANGED <<Todo, loaded, active, Streaming, delivered>>

\* It is a stuttering step of the service.
LEMMA StutterMaps == Stutters => UNCHANGED Service!vars
BY DEF Stutters, Service!vars, Streaming

\* A push is a submission.
LEMMA EnqueueSubmits ==
    ASSUME RInv, NEW c \in Clients, NEW kind, NEW arg, Enqueue(c, kind, arg),
           [kind |-> kind, arg |-> arg, by |-> c] \in Instruction,
           UNCHANGED <<local_queue, callback_inputs, outbox, local_inputs, loaded, active, delivered>>
    PROVE  Service!Submit
<1> DEFINE i == [kind |-> kind, arg |-> arg, by |-> c]
<1>1. i \in Instruction /\ instruction_queue' = Append(instruction_queue, i)
    BY DEF Enqueue
<1> HIDE DEF i
<1>2. Todo' = Append(Todo, i)
    BY <1>1, QueueTypes, ConcatAppend DEF Todo
<1> QED
    BY <1>1, <1>2 DEF Service!Submit

\* The calls.
LEMMA CallsMap ==
    ASSUME RInv, NEW c \in Clients, StartCall(c) \/ ContinueCall(c)
    PROVE  Service!Submit \/ Stutters
<1>1. CASE StartCall(c)
  <2>1. UNCHANGED <<local_queue, callback_inputs, outbox, local_inputs, loaded, active, delivered>>
    BY <1>1 DEF StartCall, callbackVars, bgVars, engineVars, streamVars
  <2>2. PICK kind \in MayCall[c] :
          \/ kind = "add" /\ AddRequest(c)
          \/ kind = "abort" /\ AbortRequest(c)
          \/ kind \in {"reset", "debug"} /\ PlainCall(c, kind)
          \/ kind \in Blocking /\ BlockingStart(c, kind)
          \/ kind = "exit" /\ ExitStore(c)
    BY <1>1 DEF StartCall
  <2>3. CASE AddRequest(c) \/ AbortRequest(c)
    <3>1. PICK r \in Requests, k \in {"add", "abort"} : Enqueue(c, k, r)
      BY <2>3 DEF AddRequest, AbortRequest
    <3>2. [kind |-> k, arg |-> r, by |-> c] \in Instruction
      BY DEF Instruction
    <3> QED
      BY <2>1, <3>1, <3>2, EnqueueSubmits
  <2>4. CASE kind \in {"reset", "debug"} /\ PlainCall(c, kind)
    <3>1. [kind |-> kind, arg |-> NoRequest, by |-> c] \in Instruction
      BY <2>4 DEF Instruction
    <3> QED
      BY <2>1, <2>4, <3>1, EnqueueSubmits DEF PlainCall
  <2>5. CASE BlockingStart(c, kind) \/ ExitStore(c)
    BY <2>1, <2>5 DEF BlockingStart, ExitStore, queueVars, Stutters, Todo, Streaming
  <2> QED
    BY <2>2, <2>3, <2>4, <2>5
<1>2. CASE ContinueCall(c)
  <2>1. UNCHANGED <<local_queue, callback_inputs, outbox, local_inputs, loaded, active, delivered>>
    BY <1>2 DEF ContinueCall, callbackVars, engineVars
  <2>2. CASE BlockingEnqueue(c)
    <3>1. ckind[c] \in Blocking /\ Enqueue(c, ckind[c], NoRequest)
      BY <2>2 DEF BlockingEnqueue, RInv, TypeInv, CallKind
    <3>2. [kind |-> ckind[c], arg |-> NoRequest, by |-> c] \in Instruction
      BY <3>1 DEF Instruction
    <3> QED
      BY <2>1, <3>1, <3>2, EnqueueSubmits
  <2>3. CASE Notify(c) \/ Await(c) \/ ExitNotifyBackground(c) \/ ExitNotifyStream(c)
    BY <2>1, <2>3 DEF Notify, Await, ExitNotifyBackground, ExitNotifyStream, queueVars,
                      Stutters, Todo, Streaming
  <2> QED
    BY <1>2, <2>2, <2>3 DEF ContinueCall
<1> QED
    BY <1>1, <1>2

\* The stream-back loop: taking the batches is invisible, the call of the user
\* callback delivers what was taken.
LEMMA StreamMaps ==
    ASSUME RInv, RunBackgroundStreamBackLoop
    PROVE  Service!Deliver \/ Stutters
<1>0. UNCHANGED <<local_queue, instruction_queue, outbox, loaded, active>>
    BY DEF RunBackgroundStreamBackLoop, bgVars, queueVars, engineVars
<1>1. CASE StreamCheck \/ StreamLock \/ StreamDecideToBlock \/ StreamBlock
    BY <1>0, <1>1 DEF StreamCheck, StreamLock, StreamDecideToBlock, StreamBlock, callbackVars,
                      Stutters, Todo, Streaming
<1>2. CASE StreamTake
  <2>1. local_inputs = <<>> /\ local_inputs' = callback_inputs /\ callback_inputs' = <<>>
    BY <1>2 DEF StreamTake, RInv, HandOver
  <2>2. <<>> \o callback_inputs = callback_inputs /\ callback_inputs \o <<>> = callback_inputs
    BY QueueTypes, ConcatEmptySeq
  <2>3. Streaming' = Streaming
    BY <1>0, <2>1, <2>2 DEF Streaming
  <2> QED
    BY <1>0, <1>2, <2>3 DEF StreamTake, Stutters, Todo
<1>3. CASE StreamDeliver
  <2> DEFINE rest == callback_inputs \o outbox
  <2>1. rest \in Seq(Seq(Output)) /\ Streaming = local_inputs \o rest
    <3>1. PICK S : S = Seq(Output)
      OBVIOUS
    <3>2. local_inputs \in Seq(S) /\ callback_inputs \in Seq(S) /\ outbox \in Seq(S)
      BY <3>1, QueueTypes
    <3>3. rest \in Seq(S)
      BY <3>2, ConcatProperties
    <3>4. Streaming = local_inputs \o rest
      BY <3>2, ConcatAssociative DEF Streaming
    <3> QED
      BY <3>1, <3>3, <3>4
  <2>2. /\ local_inputs' = <<>> /\ UNCHANGED <<callback_inputs, outbox>>
        /\ delivered' = delivered \o local_inputs
    BY <1>0, <1>3 DEF StreamDeliver, callbackVars
  <2>3. Streaming' = rest
    <3>1. <<>> \o callback_inputs = callback_inputs
      BY QueueTypes, ConcatEmptySeq
    <3> QED
      BY <2>2, <3>1 DEF Streaming
  <2> HIDE DEF rest
  <2>4. CASE local_inputs = <<>>
    <3>1. <<>> \o rest = rest /\ delivered \o <<>> = delivered
      BY <2>1, ConcatEmptySeq DEF RInv, TypeInv, TypeOK
    <3> QED
      BY <1>0, <2>1, <2>2, <2>3, <2>4, <3>1 DEF Stutters, Todo
  <2>5. CASE local_inputs # <<>>
    <3>1. PICK n : n = Len(local_inputs)
      OBVIOUS
    <3>2. /\ local_inputs \in Seq(Seq(Output)) /\ n \in Nat \ {0} /\ Len(rest) \in Nat
          /\ Len(Streaming) = n + Len(rest)
      BY <2>1, <2>5, <3>1, QueueTypes, ConcatProperties, EmptySeq
    <3>3. SubSeq(Streaming, 1, n) = local_inputs
      BY <2>1, <3>1, <3>2, SubSeqOfConcat1, SubSeqFull
    <3>4. SubSeq(Streaming, n + 1, Len(Streaming)) = rest
      <4>1. CASE rest = <<>>
        BY <3>2, <4>1, SubSeqEmpty
      <4>2. CASE rest # <<>>
        <5>1. Len(rest) > 0
          BY <2>1, <4>2, EmptySeq
        <5>2. /\ n + 1 \in n + 1 .. n + Len(rest) /\ n + Len(rest) \in n + 1 .. n + Len(rest)
              /\ (n + 1) - n = 1 /\ (n + Len(rest)) - n = Len(rest)
          BY <3>2, <5>1
        <5>3. SubSeq(local_inputs \o rest, n + 1, n + Len(rest)) = SubSeq(rest, 1, Len(rest))
          BY <2>1, <3>1, <3>2, <5>2, SubSeqOfConcat2
        <5> QED
          BY <2>1, <3>2, <5>3, SubSeqFull
      <4> QED BY <4>1, <4>2
    <3>5. n \in 1 .. Len(Streaming)
      BY <3>2
    <3>6. /\ delivered' = delivered \o SubSeq(Streaming, 1, n)
          /\ Streaming' = SubSeq(Streaming, n + 1, Len(Streaming))
      BY <2>2, <2>3, <3>3, <3>4
    <3>7. UNCHANGED <<Todo, loaded, active>>
      BY <1>0 DEF Todo
    <3> QED
      BY <3>5, <3>6, <3>7 DEF Service!Deliver, Streaming
  <2> QED
    BY <2>4, <2>5
<1> QED
    BY <1>1, <1>2, <1>3 DEF RunBackgroundStreamBackLoop

\* What the engine hands to the callback while no batch is held back is appended to
\* what the service streams.
LEMMA ExecStreams ==
    ASSUME RInv, outbox = <<>>, UNCHANGED <<local_inputs, callback_inputs>>,
           outbox' \in Seq(Seq(Output))
    PROVE  /\ Streaming' = Streaming \o outbox'
           /\ outbox' = <<>> => Streaming' = Streaming
           /\ \A batch \in Seq(Output) :
                  outbox' = <<batch>> => Streaming' = Append(Streaming, batch)
<1>1. PICK S : S = Seq(Output)
    OBVIOUS
<1>2. local_inputs \o callback_inputs \in Seq(S) /\ outbox' \in Seq(S)
    BY <1>1, QueueTypes
<1>3. Streaming = local_inputs \o callback_inputs
    BY <1>2, ConcatEmptySeq DEF Streaming
<1>4. Streaming' = Streaming \o outbox'
    BY <1>3 DEF Streaming
<1>5. Streaming \in Seq(S)
    BY <1>2, <1>3
<1>6. Streaming \o <<>> = Streaming
    BY <1>5, ConcatEmptySeq
<1>7. \A batch \in S : Append(Streaming, batch) = Streaming \o <<batch>>
    BY <1>5, AppendIsConcat
<1> QED
    BY <1>1, <1>4, <1>6, <1>7

\* Executing an instruction takes it from the head of what is left to do.
LEMMA ExecTakes ==
    ASSUME RInv, local_queue # <<>>, UNCHANGED instruction_queue
    PROVE  /\ Todo # <<>> /\ Head(Todo) = Head(local_queue)
           /\ local_queue' = Tail(local_queue) => Todo' = Tail(Todo)
BY QueueTypes, ConcatTail DEF Todo

\* AbortAllRequests ends every request.
LEMMA AbortAllEnds ==
    ASSUME RInv, outbox = <<>>, UNCHANGED <<local_inputs, callback_inputs>>,
           IF loaded THEN AbortAll ELSE UNCHANGED <<outbox, active>>
    PROVE  Service!EndAll
<1>1. CASE loaded
  <2>1. outbox' \in Seq(Seq(Output)) /\ active' = {}
    BY <1>1, AbortAllType DEF AbortAll, RInv, TypeInv, TypeOK
  <2>2. PICK order \in Orders(active) :
            outbox' = [i \in DOMAIN order |-> ErrorBatch(order[i])]
    BY <1>1 DEF AbortAll
  <2>3. order \in Service!Orders(active)
        /\ outbox' = [i \in DOMAIN order |-> Service!Ended(order[i])]
    BY <2>2, SameBatches
  <2>4. Streaming' = Streaming \o outbox'
    BY <2>1, ExecStreams
  <2> QED
    BY <2>1, <2>3, <2>4 DEF Service!EndAll, Streaming
<1>2. CASE ~loaded
  <2>1. active = {} /\ active' = {} /\ outbox' = <<>>
    BY <1>2 DEF RInv, HandOver
  <2>2. <<>> \in Service!Orders({})
    <3>1. Cardinality({}) = 0
      BY FS_EmptySet
    <3>2. <<>> \in Orders({})
      BY <3>1 DEF Orders
    <3> QED
      BY <3>2, SameBatches
  <2>3. [i \in DOMAIN <<>> |-> Service!Ended(<<>>[i])] = <<>>
    OBVIOUS
  <2>4. Streaming' = Streaming \o <<>>
    BY <2>1, ExecStreams
  <2> QED
    BY <2>1, <2>2, <2>3, <2>4 DEF Service!EndAll, Streaming
<1> QED
    BY <1>1, <1>2

\* Executing an add, an abort, a debug call or a reset.
LEMMA ExecMaps ==
    ASSUME RInv, outbox = <<>>, UNCHANGED <<local_inputs, callback_inputs, instruction_queue, delivered>>,
           ExecAdd \/ ExecAbort \/ ExecDebug \/ ExecReset
    PROVE  Service!Add \/ Service!Abort \/ Service!Debug \/ Service!Reset
<1>1. local_queue # <<>> /\ local_queue' = Tail(local_queue) /\ loaded' = loaded
    BY DEF ExecAdd, ExecAbort, ExecDebug, ExecReset, AtInstruction, engineVars
<1>2. Todo # <<>> /\ Head(Todo) = Head(local_queue) /\ Todo' = Tail(Todo)
    BY <1>1, ExecTakes
<1>3. PICK r : r = Head(Todo).arg
    OBVIOUS
<1>4. Head(local_queue).kind \in {"add", "abort"} => r \in Requests
    BY <1>1, <1>2, <1>3, HeadType DEF RInv, TypeInv
<1>5. CASE ExecAdd
  <2>1. Head(Todo).kind = "add" /\ loaded /\ r \in Requests
    BY <1>2, <1>4, <1>5 DEF ExecAdd, AtInstruction
  <2>2. CASE active' = active \cup {r} /\ UNCHANGED outbox
    <3>1. outbox' \in Seq(Seq(Output)) /\ outbox' = <<>>
      BY <2>2
    <3>2. Streaming' = Streaming
      BY <3>1, ExecStreams
    <3> QED
      BY <1>1, <1>2, <1>3, <2>1, <2>2, <3>2 DEF Service!Add, Service!Take, Streaming
  <2>3. CASE outbox' \in {<<ErrorBatch(r)>>, <<Tail(ErrorBatch(r))>>} /\ UNCHANGED active
    <3>1. PICK batch \in {ErrorBatch(r), Tail(ErrorBatch(r))} : outbox' = <<batch>>
      BY <2>3
    <3>2. batch \in Seq(Output)
      BY <2>1, ErrorBatchType
    <3>3. outbox' \in Seq(Seq(Output))
      BY <3>1, <3>2
    <3>4. Streaming' = Append(Streaming, batch)
      BY <3>1, <3>2, <3>3, ExecStreams
    <3>5. batch \in {Service!Ended(r), Service!Chunks(<<r>>, "usage")}
      BY SameBatches
    <3>6. Streaming' \in {Append(Streaming, Service!Ended(r)),
                          Append(Streaming, Service!Chunks(<<r>>, "usage"))}
      BY <3>4, <3>5
    <3> QED
      BY <1>1, <1>2, <1>3, <2>1, <2>3, <3>6 DEF Service!Add, Service!Take, Streaming
  <2> QED
    BY <1>2, <1>3, <1>5, <2>2, <2>3 DEF ExecAdd
<1>6. CASE ExecAbort
  <2>1. Head(Todo).kind = "abort" /\ r \in Requests
    BY <1>2, <1>4, <1>6 DEF ExecAbort, AtInstruction
  <2>2. r \in active => loaded
    BY DEF RInv, HandOver
  <2>3. CASE r \in active
    <3>1. active' = active \ {r} /\ outbox' = <<ErrorBatch(r)>>
      BY <1>2, <1>3, <1>6, <2>2, <2>3 DEF ExecAbort
    <3>2. ErrorBatch(r) \in Seq(Output)
      BY <2>1, ErrorBatchType
    <3>3. outbox' \in Seq(Seq(Output))
      BY <3>1, <3>2
    <3>4. Streaming' = Append(Streaming, Service!Ended(r))
      BY <3>1, <3>2, <3>3, ExecStreams, SameBatches
    <3> QED
      BY <1>1, <1>2, <1>3, <2>1, <2>3, <3>1, <3>4 DEF Service!Abort, Service!Take, Streaming
  <2>4. CASE r \notin active
    <3>1. active' = active /\ outbox' = <<>>
      BY <1>2, <1>3, <1>6, <2>4 DEF ExecAbort
    <3>2. outbox' \in Seq(Seq(Output))
      BY <3>1
    <3>3. Streaming' = Streaming
      BY <3>1, <3>2, ExecStreams
    <3> QED
      BY <1>1, <1>2, <1>3, <2>1, <2>4, <3>1, <3>3 DEF Service!Abort, Service!Take, Streaming
  <2> QED
    BY <2>3, <2>4
<1>7. CASE ExecDebug
  <2>1. Head(Todo).kind = "debug" /\ loaded /\ outbox' = <<>> /\ active' = active
    BY <1>2, <1>7 DEF ExecDebug, AtInstruction, engineVars
  <2>2. outbox' \in Seq(Seq(Output))
    BY <2>1
  <2>3. Streaming' = Streaming
    BY <2>1, <2>2, ExecStreams
  <2> QED
    BY <1>1, <1>2, <2>1, <2>3 DEF Service!Debug, Service!Take, Streaming
<1>8. CASE ExecReset
  <2>1. Head(Todo).kind = "reset"
    BY <1>2, <1>8 DEF ExecReset, AtInstruction
  <2>2. Service!EndAll
    BY <1>8, AbortAllEnds DEF ExecReset
  <2> QED
    BY <1>1, <1>2, <2>1, <2>2 DEF Service!Reset, Service!Take
<1> QED
    BY <1>5, <1>6, <1>7, <1>8

\* A step of the engine is progress.
LEMMA StepMaps ==
    ASSUME RInv, outbox = <<>>, UNCHANGED <<local_inputs, callback_inputs, instruction_queue, delivered>>,
           BgStep
    PROVE  Service!Progress \/ Stutters
<1>1. UNCHANGED <<Todo, loaded>>
    BY DEF BgStep, Todo
<1>2. CASE UNCHANGED <<outbox, active, remaining>>
    BY <1>1, <1>2 DEF Stutters, Streaming
<1>3. CASE loaded /\ \E chosen \in SUBSET active \ {{}} :
             LET ended == {r \in chosen : remaining[r] = 0} IN
                 /\ \E order \in Orders(chosen) : \E last \in Orders(ended) :
                        outbox' = <<StepBatch(order, last)>>
                 /\ active' = active \ ended
  <2>1. PICK chosen \in SUBSET active \ {{}} :
             LET ended == {r \in chosen : remaining[r] = 0} IN
                 /\ \E order \in Orders(chosen) : \E last \in Orders(ended) :
                        outbox' = <<StepBatch(order, last)>>
                 /\ active' = active \ ended
    BY <1>3
  <2>2. PICK ended : ended = {r \in chosen : remaining[r] = 0}
    OBVIOUS
  <2>3. PICK order \in Orders(chosen), last \in Orders(ended) :
             outbox' = <<StepBatch(order, last)>>
    BY <2>1, <2>2
  <2>4. /\ chosen \in SUBSET Requests /\ ended \in SUBSET Requests /\ ended \in SUBSET chosen
        /\ active' = active \ ended
    BY <2>1, <2>2 DEF RInv, TypeInv, TypeOK
  <2>5. order \in Seq(chosen) /\ last \in Seq(ended)
    BY <2>3, <2>4, OrderType
  <2>6. order \in Seq(Requests) /\ last \in Seq(Requests)
    BY <2>4, <2>5, SeqMonotonic
  <2>7. StepBatch(order, last) \in Seq(Output)
    BY <2>6, StepBatchType
  <2>8. outbox' \in Seq(Seq(Output))
    BY <2>3, <2>7
  <2>9. Streaming' = Append(Streaming, StepBatch(order, last))
    BY <2>3, <2>7, <2>8, ExecStreams
  <2> DEFINE chunks == [i \in DOMAIN order |->
                 [req |-> order[i], kind |-> IF order[i] \in ended THEN "finish" ELSE "delta"]]
  <2>10. StepBatch(order, last) = chunks \o Service!Chunks(last, "usage")
    <3>1. \A i \in DOMAIN order : order[i] \in ended <=> remaining[order[i]] = 0
      BY <2>2, <2>5
    <3>2. chunks = [i \in DOMAIN order |->
              [req |-> order[i], kind |-> IF remaining[order[i]] = 0 THEN "finish" ELSE "delta"]]
      BY <3>1
    <3> QED
      BY <3>2 DEF StepBatch, Service!Chunks
  <2>11. order \in Service!Orders(chosen) /\ last \in Service!Orders(ended)
    BY <2>3, SameBatches
  <2>12. Streaming' = Append(Streaming, chunks \o Service!Chunks(last, "usage"))
    BY <2>9, <2>10
  <2> QED
    BY <1>1, <1>3, <2>1, <2>4, <2>11, <2>12 DEF Service!Progress, Streaming
<1> QED
    BY <1>2, <1>3 DEF BgStep

\* The background loop.
LEMMA BackgroundMaps ==
    ASSUME RInv, RunBackgroundLoop
    PROVE  Service!Next \/ Stutters
<1>0. UNCHANGED <<local_inputs, delivered>>
    BY DEF RunBackgroundLoop
<1>1. CASE /\ BgCheck \/ BgBlock \/ BgTakeQueue
           /\ UNCHANGED <<cpc, flagVars, outbox, engineVars>> /\ UNCHANGED callback_inputs
  <2>1. CASE BgCheck \/ BgBlock
    BY <1>0, <1>1, <2>1 DEF BgCheck, BgBlock, queueVars, engineVars, Stutters, Todo, Streaming
  <2>2. CASE BgTakeQueue
    <3>1. local_queue = <<>> /\ local_queue' = instruction_queue /\ instruction_queue' = <<>>
      BY <2>2 DEF BgTakeQueue, RInv, HandOver
    <3>2. Todo' = Todo
      BY <3>1, QueueTypes, ConcatEmptySeq DEF Todo
    <3> QED
      BY <1>0, <1>1, <3>2 DEF engineVars, Stutters, Streaming
  <2> QED
    BY <1>1, <2>1, <2>2
<1>2. CASE /\ outbox = <<>>
           /\ \/ ExecAdd \/ ExecAbort \/ ExecDebug \/ ExecFail \/ ExecReset \/ ExecUnload \/ BgStep
           /\ UNCHANGED <<cpc, queueVars, flagVars>> /\ UNCHANGED callback_inputs
  <2>0. UNCHANGED <<local_inputs, callback_inputs, instruction_queue, delivered>>
    BY <1>0, <1>2 DEF queueVars
  <2>1. CASE ExecAdd \/ ExecAbort \/ ExecDebug \/ ExecReset
    BY <1>2, <2>0, <2>1, ExecMaps DEF Service!Next
  <2>2. CASE BgStep
    BY <1>2, <2>0, <2>2, StepMaps DEF Service!Next
  <2>3. CASE ExecFail
    BY <2>0, <2>3 DEF ExecFail, engineVars, Stutters, Todo, Streaming
  <2>4. CASE ExecUnload
    <3>1. /\ local_queue # <<>> /\ local_queue' = local_queue /\ loaded' = FALSE
          /\ Head(local_queue).kind \in {"unload", "reload"}
      BY <2>4 DEF ExecUnload, AtInstruction
    <3>2. Todo # <<>> /\ Head(Todo) = Head(local_queue) /\ Todo' = Todo
      BY <2>0, <3>1, ExecTakes DEF Todo
    <3>3. CASE loaded
      <4>1. Service!EndAll
        BY <1>2, <2>0, <2>4, AbortAllEnds DEF ExecUnload
      <4> QED
        BY <2>0, <3>1, <3>2, <3>3, <4>1 DEF Service!Next, Service!Discard
    <3>4. CASE ~loaded
      BY <2>0, <2>4, <3>1, <3>2, <3>4 DEF ExecUnload, Stutters, Streaming, RInv, TypeInv, TypeOK
    <3> QED
      BY <3>3, <3>4
  <2> QED
    BY <1>2, <2>1, <2>2, <2>3, <2>4
<1>3. CASE /\ UnloadFlag \/ UnloadNotify \/ ReloadCreate \/ ReloadFail \/ ReloadNotify
           /\ UNCHANGED <<queueVars, outbox, active, remaining>> /\ UNCHANGED callback_inputs
  <2>0. UNCHANGED <<instruction_queue, active, delivered, Streaming>>
    BY <1>0, <1>3 DEF queueVars, Streaming
  <2>1. CASE UnloadFlag \/ ReloadFail \/ ReloadNotify
    BY <2>0, <2>1 DEF UnloadFlag, ReloadFail, ReloadNotify, Stutters, Todo
  <2>2. CASE UnloadNotify
    <3>1. ~loaded /\ local_queue # <<>> /\ Head(local_queue).kind \in {"unload", "reload"}
      BY <2>2 DEF UnloadNotify, RInv, HandOver
    <3>2. CASE Head(local_queue).kind = "reload"
      BY <2>0, <2>2, <3>2 DEF UnloadNotify, Stutters, Todo
    <3>3. CASE Head(local_queue).kind = "unload"
      <4>1. local_queue' = Tail(local_queue) /\ loaded' = loaded
        BY <2>2, <3>3 DEF UnloadNotify
      <4>2. Todo # <<>> /\ Head(Todo) = Head(local_queue) /\ Todo' = Tail(Todo)
        BY <2>0, <3>1, <4>1, ExecTakes
      <4> QED
        BY <2>0, <3>1, <3>3, <4>1, <4>2
           DEF Service!Next, Service!Unloaded, Service!Take, Streaming
    <3> QED
      BY <3>1, <3>2, <3>3
  <2>3. CASE ReloadCreate
    <3>1. /\ ~loaded /\ local_queue # <<>> /\ Head(local_queue).kind = "reload"
          /\ local_queue' = Tail(local_queue) /\ loaded' = TRUE
      BY <2>3 DEF ReloadCreate, RInv, HandOver
    <3>2. Todo # <<>> /\ Head(Todo) = Head(local_queue) /\ Todo' = Tail(Todo)
      BY <2>0, <3>1, ExecTakes
    <3> QED
      BY <2>0, <3>1, <3>2 DEF Service!Next, Service!Load, Service!Take, Streaming
  <2> QED
    BY <1>3, <2>1, <2>2, <2>3
<1>4. CASE /\ CallbackPush \/ CallbackNotify
           /\ UNCHANGED <<cpc, queueVars, flagVars, bpc, local_queue, engineVars>>
  <2>1. UNCHANGED <<Todo, loaded, active>>
    BY <1>4 DEF queueVars, engineVars, Todo
  <2>2. CASE CallbackNotify
    BY <1>0, <2>1, <2>2 DEF CallbackNotify, Stutters, Streaming
  <2>3. CASE CallbackPush
    <3>1. PICK S : S = Seq(Output)
      OBVIOUS
    <3>2. PICK batch, rest, taken : /\ batch = Head(outbox) /\ rest = Tail(outbox)
                                    /\ taken = local_inputs \o callback_inputs
      OBVIOUS
    <3>3. /\ outbox # <<>> /\ outbox \in Seq(S) /\ callback_inputs' = Append(callback_inputs, batch)
          /\ outbox' = rest /\ local_inputs \in Seq(S) /\ callback_inputs \in Seq(S)
          /\ taken \in Seq(S)
      BY <2>3, <3>1, <3>2, QueueTypes DEF CallbackPush
    <3>4. batch \in S /\ rest \in Seq(S) /\ outbox = <<batch>> \o rest
      BY <3>2, <3>3
    <3>5. local_inputs \o Append(callback_inputs, batch) = Append(taken, batch)
      BY <3>2, <3>3, <3>4, ConcatAppend
    <3>6. Append(taken, batch) = taken \o <<batch>> /\ <<batch>> \in Seq(S)
      BY <3>3, <3>4, AppendIsConcat
    <3>7. (taken \o <<batch>>) \o rest = taken \o (<<batch>> \o rest)
      BY <3>3, <3>4, <3>6, ConcatAssociative
    <3>8. Streaming = taken \o outbox /\ Streaming' = Append(taken, batch) \o rest
      BY <1>0, <3>2, <3>3, <3>5 DEF Streaming
    <3>9. Streaming' = Streaming
      BY <3>4, <3>6, <3>7, <3>8
    <3> QED
      BY <1>0, <2>1, <3>9 DEF Stutters
  <2> QED
    BY <1>4, <2>2, <2>3
<1> QED
    BY <1>1, <1>2, <1>3, <1>4 DEF RunBackgroundLoop

\* Every step of a thread maps to a step of the service or to none.
LEMMA StepRefines == RInv /\ [Next]_vars => [Service!Next]_(Service!vars)
<1> SUFFICES ASSUME RInv, [Next]_vars PROVE Service!Next \/ UNCHANGED Service!vars
    OBVIOUS
<1>1. CASE UNCHANGED vars
    BY <1>1, StutterMaps DEF vars, queueVars, callbackVars, bgVars, engineVars, streamVars,
                             Stutters, Todo, Streaming
<1>2. CASE SpuriousWakeup
    BY <1>2, StutterMaps DEF SpuriousWakeup, queueVars, callbackVars, engineVars,
                             Stutters, Todo, Streaming
<1>3. ASSUME NEW c \in Clients, StartCall(c) \/ ContinueCall(c)
      PROVE  Service!Next \/ UNCHANGED Service!vars
    BY <1>3, CallsMap, StutterMaps DEF Service!Next
<1>4. CASE RunBackgroundLoop
    BY <1>4, BackgroundMaps, StutterMaps
<1>5. CASE RunBackgroundStreamBackLoop
    BY <1>5, StreamMaps, StutterMaps DEF Service!Next
<1> QED
    BY <1>1, <1>2, <1>3, <1>4, <1>5 DEF Next

\* The initial states map to the initial state of the service.
LEMMA InitRefines == Init => Service!Init
<1> SUFFICES ASSUME Init PROVE Service!Init
    OBVIOUS
<1>1. <<>> \o <<>> = <<>>
    OBVIOUS
<1> QED
    BY <1>1 DEF Init, Service!Init, Todo

\* For any number of callers, requests, chunks and spurious wakeups, the three kinds
\* of threads of ThreadedEngineImpl implement the sequential service: instructions
\* take effect in the order of the critical sections that pushed them, none twice and
\* none skipped, and every batch that the engine streams is delivered once, in order.
THEOREM ServiceImplemented == Spec => ImplementsService
<1>1. Spec => Init /\ [][Next]_vars
    BY DEF Spec
<1> QED
    BY <1>1, InitRefines, StepRefines, RInvAlways, PTL DEF ImplementsService, Service!Spec

=============================================================================
