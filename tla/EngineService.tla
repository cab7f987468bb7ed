--------------------------- MODULE EngineService ---------------------------
(***************************************************************************)
(* What the threaded engine promises its callers, with no threads, locks   *)
(* or wakeups in sight: instructions take effect one at a time, in the     *)
(* order in which they were submitted, and the outputs reach the user in   *)
(* the order in which the engine produced them, each exactly once.         *)
(* ThreadedEngine implements this specification.                           *)
(***************************************************************************)
EXTENDS Naturals, Sequences, FiniteSets

CONSTANTS Requests, Instruction

VARIABLES
    todo,       \* submitted instructions that have not taken effect
    loaded,     \* whether there is an engine
    active,     \* the requests the engine is serving
    streaming,  \* batches of outputs produced and not yet delivered
    delivered   \* batches of outputs delivered

vars == <<todo, loaded, active, streaming, delivered>>

Init ==
    /\ todo = <<>>
    /\ loaded = FALSE
    /\ active = {}
    /\ streaming = <<>>
    /\ delivered = <<>>

Submit ==
    /\ \E i \in Instruction : todo' = Append(todo, i)
    /\ UNCHANGED <<loaded, active, streaming, delivered>>

Chunks(order, kind) == [i \in DOMAIN order |-> [req |-> order[i], kind |-> kind]]

\* The answer of a request that ends outside a step of the engine.
Ended(r) == Chunks(<<r>>, "finish") \o Chunks(<<r>>, "usage")

Take(kind) ==
    /\ todo # <<>>
    /\ Head(todo).kind = kind
    /\ todo' = Tail(todo)

Add ==
    /\ Take("add")
    /\ loaded
    /\ \/ /\ active' = active \cup {Head(todo).arg}
          /\ UNCHANGED streaming
       \/ /\ streaming' \in {Append(streaming, Ended(Head(todo).arg)),
                             Append(streaming, Chunks(<<Head(todo).arg>>, "usage"))}
          /\ UNCHANGED active
    /\ UNCHANGED <<loaded, delivered>>

Abort ==
    /\ Take("abort")
    /\ IF Head(todo).arg \in active
       THEN /\ active' = active \ {Head(todo).arg}
            /\ streaming' = Append(streaming, Ended(Head(todo).arg))
       ELSE UNCHANGED <<active, streaming>>
    /\ UNCHANGED <<loaded, delivered>>

\* The orders in which a set of requests can be visited.
Orders(S) ==
    {order \in [1 .. Cardinality(S) -> S] : \A i, j \in DOMAIN order : order[i] = order[j] => i = j}

EndAll ==
    /\ \E order \in Orders(active) :
           streaming' = streaming \o [i \in DOMAIN order |-> Ended(order[i])]
    /\ active' = {}

Reset ==
    /\ Take("reset")
    /\ EndAll
    /\ UNCHANGED <<loaded, delivered>>

Debug ==
    /\ Take("debug")
    /\ loaded
    /\ UNCHANGED <<loaded, active, streaming, delivered>>

\* An unload or a reload first ends every request and drops the engine.
Discard ==
    /\ todo # <<>> /\ Head(todo).kind \in {"unload", "reload"}
    /\ loaded
    /\ loaded' = FALSE
    /\ EndAll
    /\ UNCHANGED <<todo, delivered>>

Unloaded ==
    /\ Take("unload")
    /\ ~loaded
    /\ UNCHANGED <<loaded, active, streaming, delivered>>

Load ==
    /\ Take("reload")
    /\ ~loaded
    /\ loaded' = TRUE
    /\ UNCHANGED <<active, streaming, delivered>>

\* Some requests stream a chunk; some of those end with it.
Progress ==
    /\ loaded
    /\ \E chosen \in SUBSET active \ {{}} : \E ended \in SUBSET chosen :
       \E order \in Orders(chosen) : \E last \in Orders(ended) :
           /\ streaming' = Append(streaming,
                  [i \in DOMAIN order |->
                      [req |-> order[i],
                       kind |-> IF order[i] \in ended THEN "finish" ELSE "delta"]]
                  \o Chunks(last, "usage"))
           /\ active' = active \ ended
    /\ UNCHANGED <<todo, loaded, delivered>>

Deliver ==
    /\ \E n \in 1 .. Len(streaming) :
           /\ delivered' = delivered \o SubSeq(streaming, 1, n)
           /\ streaming' = SubSeq(streaming, n + 1, Len(streaming))
    /\ UNCHANGED <<todo, loaded, active>>

Next ==
    \/ Submit \/ Add \/ Abort \/ Reset \/ Debug
    \/ Discard \/ Unloaded \/ Load \/ Progress \/ Deliver

Spec == Init /\ [][Next]_vars

=============================================================================
