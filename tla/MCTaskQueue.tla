----------------------------- MODULE MCTaskQueue -----------------------------
(* A small instance of TaskQueue: the tasks and counters are numbers, so the *)
(* cfg gives the bounds and there is nothing to define.                      *)
EXTENDS TaskQueue
==============================================================================
