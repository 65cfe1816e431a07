------------------------------ MODULE MCPgPool ------------------------------
EXTENDS PgPool, TLC

CONSTANTS w1, w2, s1, s2

OneWorker == s1 :> w1
SharedWorker == (s1 :> w1) @@ (s2 :> w1)
TwoWorkers == (s1 :> w1) @@ (s2 :> w2)

TaskTask == <<"task", "task">>
TaskTaskTask == <<"task", "task", "task">>
TaskDelayTask == <<"task", "delay", "task">>
TaskDelayTaskTask == <<"task", "delay", "task", "task">>
TaskSignalTask == <<"task", "signal", "task">>
TaskDelayTaskSignalTask == <<"task", "delay", "task", "signal", "task">>
TaskSignal == <<"task", "signal">>
TaskDelaySignalTask == <<"task", "delay", "signal", "task">>

=============================================================================
