------------------------- MODULE MCEngineFrontEnd -------------------------
EXTENDS EngineFrontEnd

Call(i, n, max, stream, usage, echo, suffix) ==
    [id |-> i, n |-> n, max_tokens |-> max, stream |-> stream, usage |-> usage,
     echo |-> echo, suffix |-> suffix]

\* Two calls that stream, the first for two tokens.
TwoStreams(i, j) ==
    <<Call(i, 1, 2, TRUE, TRUE, FALSE, FALSE), Call(j, 1, 1, TRUE, FALSE, FALSE, FALSE)>>

\* A call for two generations, and one that streams with echo and suffix.
TwoGenerations(i, j) ==
    <<Call(i, 2, 1, FALSE, FALSE, FALSE, FALSE), Call(j, 1, 1, TRUE, FALSE, TRUE, TRUE)>>

Case(kind_, request, calls_) == [kind |-> kind_, request |-> request, calls |-> calls_]

\* The ids clash (the "user" field of the HTTP API names the request) or differ.
AllCases ==
    {Case("async", TwoGenerations("a", "a"), 1), Case("async", TwoStreams("a", "b"), 0),
     Case("sync", TwoGenerations("a", "b"), 0)}
============================================================================
