------------------------ MODULE ThreadedEngineService -----------------------
(***************************************************************************)
(* The sequential service of EngineService that the threads of             *)
(* ThreadedEngine implement together.                                      *)
(***************************************************************************)
EXTENDS ThreadedEngine

\* Instructions that are queued or taken and not executed yet, oldest first.
Todo == local_queue \o instruction_queue

\* The threads implement the sequential service: instructions take effect in the
\* order of the critical sections that pushed them, none twice and none skipped,
\* and the outputs are delivered in the order they were produced.
Service == INSTANCE EngineService WITH
    todo <- Todo,
    streaming <- local_inputs \o callback_inputs \o outbox

ImplementsService == Service!Spec

=============================================================================
