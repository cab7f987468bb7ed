---------------------- MODULE ThreadedEngineProperties ----------------------
(***************************************************************************)
(* What the threads of ThreadedEngine guarantee together: the outputs of   *)
(* each request, the blocking calls and progress.                          *)
(***************************************************************************)
EXTENDS ThreadedEngineService, SequencesExt

\* Everything the engine streamed, delivered or on its way, oldest first.
Produced == FlattenSeq(delivered \o local_inputs \o callback_inputs \o outbox)

Usage(r) == [req |-> r, kind |-> "usage"]

\* The final usage chunk of a request is streamed at most once, and nothing of the
\* request after it, whatever aborts, resets, unloads and steps interleave.
UsageOnceAndLast ==
    LET out == Produced IN
    \A i \in 1 .. Len(out) :
        out[i].kind = "usage" => \A j \in (i + 1) .. Len(out) : out[j].req # out[i].req

Answered(r) == Contains(Produced, Usage(r))

\* No request is lost and none is in two places: it waits to be added, or is in
\* the engine, or has had its final usage streamed.
RequestAccounted ==
    \A r \in submitted :
        LET waiting  == \E i \in 1 .. Len(Todo) : Todo[i].kind = "add" /\ Todo[i].arg = r
            answered == Answered(r)
        IN  /\ waiting \/ r \in active \/ answered
            /\ ~(waiting /\ (r \in active \/ answered))
            /\ ~(r \in active /\ answered)

\* Reload and Unload return only after their own instruction was executed: no
\* instruction of the caller is left, the engine is there (Reload) or gone with all
\* its requests answered (Unload).  The flags are cleared before the push for this.
CallReturnsDone ==
    [][\A c \in Clients :
           cpc[c] \in Waiting /\ cpc'[c] = "idle" =>
               /\ \A i \in 1 .. Len(Todo) :
                      ~(Todo[i].by = c /\ Todo[i].kind = ckind[c]) \/ bpc = "unload_notify"
               /\ loaded = (ckind[c] = "reload")
               /\ ckind[c] = "unload" =>
                      \A r \in submitted : Answered(r) \/ \E i \in 1 .. Len(Todo) : Todo[i].arg = r
      ]_vars

\* Every request handed to AddRequest gets its final usage delivered, unless the
\* engine is told to exit or its loop died on a CHECK.
RequestAnswered ==
    \A r \in Requests :
        r \in submitted ~>
            Contains(FlattenSeq(delivered), Usage(r)) \/ exit_now \/ bpc = "failed"

\* A call of Reload or Unload returns, unless the engine is told to exit or its
\* loop died on a CHECK ("otherwise there can be deadlocks").
BlockingCallReturns ==
    \A c \in Clients :
        cpc[c] \in Waiting ~> cpc[c] = "idle" \/ exit_now \/ bpc = "failed"

\* ExitBackgroundLoop ends the background loop.
BackgroundLoopExits == exit_now ~> bpc \in {"done", "failed"}

\* ExitBackgroundLoop ends the stream-back loop, which MLCEngineBase.terminate joins.
StreamLoopExits == exit_now ~> spc = "done"

=============================================================================
