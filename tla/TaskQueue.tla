------------------------------ MODULE TaskQueue ------------------------------
(****************************************************************************)
(* The cooperative task queue.  One thread: the dialog (or its tick) calls  *)
(* the queue while no runner runs; a runner, once called, is in control     *)
(* until it returns or raises, and may itself call the queue: enqueue,      *)
(* cancel, prune, and run the next task inside its own step.                *)
(*                                                                          *)
(* Task ids come from a counter and the list of tasks is only appended to   *)
(* and filtered, so its order is the order of the ids and a set stands for  *)
(* it.                                                                      *)
(****************************************************************************)
EXTENDS Naturals, Sequences, FiniteSets

CONSTANTS
  MaxTasks,     \* bound: tasks enqueued
  Units,        \* units a chunked runner walks
  Capacity,     \* history_capacity
  MaxIterations \* run_all's guard

ASSUME TaskQueueAssumption ==
  /\ MaxTasks \in Nat
  /\ Units \in Nat
  /\ Capacity \in Nat \ {0}
  /\ MaxIterations \in Nat \ {0}

Id == 1 .. MaxTasks

VARIABLES
  count,    \* the id counter
  status,   \* Task.status, "none" for an id not given out
  cancel,   \* Task._cancel_requested
  polls,    \* the runner checks is_cancelled() before each unit
  progress, \* units reported; Units is a progress of 1.0
  queue,    \* ids of TaskQueue._tasks
  stack,    \* tasks whose runner is on the call stack, innermost last
  drain,    \* iterations run_all has left, 0 outside it
  stats     \* TaskQueue.stats

vars == <<count, status, cancel, polls, progress, queue, stack, drain, stats>>

Terminal == {"done", "failed", "cancelled"}
TaskStatus == {"none", "pending", "running"} \cup Terminal

Stats == [started : Nat, completed : Nat, failed : Nat, cancelled : Nat]

TypeOK ==
  /\ count \in 0 .. MaxTasks
  /\ status \in [Id -> TaskStatus]
  /\ cancel \in [Id -> BOOLEAN]
  /\ polls \in [Id -> BOOLEAN]
  /\ progress \in [Id -> 0 .. Units]
  /\ queue \subseteq Id
  /\ stack \in Seq(Id)
  /\ drain \in 0 .. MaxIterations
  /\ stats \in Stats

Init ==
  /\ count = 0
  /\ status = [t \in Id |-> "none"]
  /\ cancel = [t \in Id |-> FALSE]
  /\ polls = [t \in Id |-> FALSE]
  /\ progress = [t \in Id |-> 0]
  /\ queue = {}
  /\ stack = <<>>
  /\ drain = 0
  /\ stats = [started |-> 0, completed |-> 0, failed |-> 0, cancelled |-> 0]

WithStatus(s) == {t \in queue : status[t] = s}

\* Who may call the queue: the dialog outside run_all, or the innermost runner.
InControl == drain = 0 \/ stack # <<>>

------------------------------------------------------------------------------
\* The queue's calls

\* Mutant of Trimmed: the oldest tasks go, whatever their status.
TrimmedBlindly(tasks) ==
  {t \in tasks : Cardinality({u \in tasks : u >= t}) <= Capacity}

\* Mutant of Trimmed: the newest settled tasks go.
TrimmedNewest(tasks) ==
  {t \in tasks :
     \/ status[t] \notin Terminal
     \/ Cardinality({u \in tasks : u >= t /\ status[u] \in Terminal}) + Capacity
          > Cardinality(tasks)}

\* _trim_history: as many terminal tasks as there are tasks too many, oldest
\* first; a live task is skipped and the walk goes on behind it.
Trimmed(tasks) ==
  {t \in tasks :
     \/ status[t] \notin Terminal
     \/ Cardinality({u \in tasks : u <= t /\ status[u] \in Terminal}) + Capacity
          > Cardinality(tasks)}

\* Ids not given out have status "none", so Trimmed keeps the new task.
Enqueue(chunked) ==
  /\ InControl
  /\ count < MaxTasks
  /\ count' = count + 1
  /\ status' = [status EXCEPT ![count + 1] = "pending"]
  /\ polls' = [polls EXCEPT ![count + 1] = chunked]
  /\ queue' = Trimmed(queue \cup {count + 1})
  /\ UNCHANGED <<cancel, progress, stack, drain, stats>>

\* TaskQueue.request_cancel: a pending task is cancelled on the spot.
RequestCancel(t) ==
  /\ InControl
  /\ t \in queue
  /\ status[t] \notin Terminal
  /\ cancel' = [cancel EXCEPT ![t] = TRUE]
  /\ IF status[t] = "pending"
     THEN /\ status' = [status EXCEPT ![t] = "cancelled"]
          /\ stats' = [stats EXCEPT !.cancelled = @ + 1]
     ELSE UNCHANGED <<status, stats>>
  /\ UNCHANGED <<count, polls, progress, queue, stack, drain>>

\* Mutant of FlagCancel: settled tasks are flagged too.
FlagCancelAlways(t) ==
  /\ InControl
  /\ status[t] # "none"
  /\ cancel' = [cancel EXCEPT ![t] = TRUE]
  /\ UNCHANGED <<count, status, polls, progress, queue, stack, drain, stats>>

\* Task.request_cancel, on the task itself: only the flag.
FlagCancel(t) ==
  /\ InControl
  /\ status[t] \in {"pending", "running"}
  /\ cancel' = [cancel EXCEPT ![t] = TRUE]
  /\ UNCHANGED <<count, status, polls, progress, queue, stack, drain, stats>>

\* Mutant of CancelAllPending: one call counts as one cancellation.
CancelAllPendingOnce ==
  /\ InControl
  /\ cancel' = [t \in Id |-> cancel[t] \/ t \in WithStatus("pending")]
  /\ status' = [t \in Id |-> IF t \in WithStatus("pending") THEN "cancelled" ELSE status[t]]
  /\ stats' = [stats EXCEPT !.cancelled = @ + 1]
  /\ UNCHANGED <<count, polls, progress, queue, stack, drain>>

CancelAllPending ==
  /\ InControl
  /\ cancel' = [t \in Id |-> cancel[t] \/ t \in WithStatus("pending")]
  /\ status' = [t \in Id |-> IF t \in WithStatus("pending") THEN "cancelled" ELSE status[t]]
  /\ stats' = [stats EXCEPT !.cancelled = @ + Cardinality(WithStatus("pending"))]
  /\ UNCHANGED <<count, polls, progress, queue, stack, drain>>

PruneTerminal ==
  /\ InControl
  /\ queue' = {t \in queue : status[t] \notin Terminal}
  /\ UNCHANGED <<count, status, cancel, polls, progress, stack, drain, stats>>

------------------------------------------------------------------------------
\* Running

\* Mutants of FirstPending: the newest task first; flagged tasks are passed over.
LastPending(t) ==
  /\ t \in WithStatus("pending")
  /\ \A u \in WithStatus("pending") : u <= t

FirstUnflagged(t) ==
  /\ t \in WithStatus("pending") /\ ~cancel[t]
  /\ \A u \in WithStatus("pending") : ~cancel[u] => t <= u

FirstPending(t) ==
  /\ t \in WithStatus("pending")
  /\ \A u \in WithStatus("pending") : t <= u

\* A task flagged before it starts is settled without running.
CancelUnstarted(t) ==
  /\ cancel[t]
  /\ status' = [status EXCEPT ![t] = "cancelled"]
  /\ stats' = [stats EXCEPT !.cancelled = @ + 1]
  /\ UNCHANGED stack

\* Mutant of Start: the task is not marked, so a runner's own run_next enters it
\* again.
StartTwice(t) ==
  /\ ~cancel[t]
  /\ stack' = Append(stack, t)
  /\ stats' = [stats EXCEPT !.started = @ + 1]
  /\ UNCHANGED status

Start(t) ==
  /\ ~cancel[t]
  /\ status' = [status EXCEPT ![t] = "running"]
  /\ stats' = [stats EXCEPT !.started = @ + 1]
  /\ stack' = Append(stack, t)

Execute(t) ==
  /\ FirstPending(t)
  /\ CancelUnstarted(t) \/ Start(t)
  /\ UNCHANGED <<count, cancel, polls, progress, queue>>

RunNext(t) ==
  /\ InControl
  /\ Execute(t)
  /\ UNCHANGED drain

\* run_all, from the dialog; a runner's own run_all is a series of RunNext.
StartRunAll ==
  /\ drain = 0
  /\ stack = <<>>
  /\ drain' = MaxIterations
  /\ UNCHANGED <<count, status, cancel, polls, progress, queue, stack, stats>>

RunAllNext(t) ==
  /\ drain > 0
  /\ stack = <<>>
  /\ Execute(t)
  /\ drain' = drain - 1

EndRunAll ==
  /\ drain > 0
  /\ stack = <<>>
  /\ WithStatus("pending") = {}
  /\ drain' = 0
  /\ UNCHANGED <<count, status, cancel, polls, progress, queue, stack, stats>>

------------------------------------------------------------------------------
\* The innermost runner

Innermost(t) == stack # <<>> /\ t = stack[Len(stack)]

Pop == stack' = SubSeq(stack, 1, Len(stack) - 1)

\* One unit and its report_progress; a chunked runner polls first.
RunUnit(t) ==
  /\ Innermost(t)
  /\ progress[t] < Units
  /\ ~(polls[t] /\ cancel[t])
  /\ progress' = [progress EXCEPT ![t] = @ + 1]
  /\ UNCHANGED <<count, status, cancel, polls, queue, stack, drain, stats>>

\* Mutant of Settle: the result is taken without looking at the flag again.
SettleUnchecked(t) ==
  /\ status' = [status EXCEPT ![t] = "done"]
  /\ progress' = [progress EXCEPT ![t] = Units]
  /\ stats' = [stats EXCEPT !.completed = @ + 1]

\* The flag decides what a return means, whatever the runner did about it.
Settle(t) ==
  IF cancel[t]
  THEN /\ status' = [status EXCEPT ![t] = "cancelled"]
       /\ stats' = [stats EXCEPT !.cancelled = @ + 1]
       /\ UNCHANGED progress
  ELSE /\ status' = [status EXCEPT ![t] = "done"]
       /\ progress' = [progress EXCEPT ![t] = Units]
       /\ stats' = [stats EXCEPT !.completed = @ + 1]

\* A chunked runner returns at the end or when it is cancelled, any other when
\* it likes.
RunnerReturns(t) ==
  /\ Innermost(t)
  /\ polls[t] => (progress[t] = Units \/ cancel[t])
  /\ Settle(t)
  /\ Pop
  /\ UNCHANGED <<count, cancel, polls, queue, drain>>

\* An exception is recorded and goes no further: the caller of run_next, be it
\* another runner, does not see it.
RunnerRaises(t) ==
  /\ Innermost(t)
  /\ status' = [status EXCEPT ![t] = "failed"]
  /\ stats' = [stats EXCEPT !.failed = @ + 1]
  /\ Pop
  /\ UNCHANGED <<count, cancel, polls, progress, queue, drain>>

Call ==
  \/ \E chunked \in BOOLEAN : Enqueue(chunked)
  \/ \E t \in Id : RequestCancel(t) \/ FlagCancel(t)
  \/ CancelAllPending
  \/ PruneTerminal
  \/ \E t \in Id : RunNext(t)

RunAll == StartRunAll \/ (\E t \in Id : RunAllNext(t)) \/ EndRunAll

Runner == \E t \in Id : RunUnit(t) \/ RunnerReturns(t) \/ RunnerRaises(t)

Next == Call \/ RunAll \/ Runner

Spec == Init /\ [][Next]_vars

\* What the queue needs of its dispatcher and its runners: the tick comes back
\* to a queue that has work, and a runner goes on with its units and returns.
Fairness ==
  /\ WF_vars(stack = <<>> /\ \E t \in Id : RunNext(t) \/ RunAllNext(t))
  /\ WF_vars(EndRunAll)
  /\ WF_vars(\E t \in Id : RunUnit(t) \/ (progress[t] = Units /\ RunnerReturns(t))
                             \/ (polls[t] /\ cancel[t] /\ RunnerReturns(t)))

FairSpec == Spec /\ Fairness

------------------------------------------------------------------------------
\* Properties

\* The tasks marked running are exactly the runners on the call stack, each
\* once, and an inner one was enqueued after the runner that called run_next.
RunningIsStack ==
  /\ \A i \in 1 .. Len(stack) : status[stack[i]] = "running"
  /\ \A t \in Id : status[t] = "running" => \E i \in 1 .. Len(stack) : stack[i] = t
  /\ \A i, j \in 1 .. Len(stack) : i < j => stack[i] < stack[j]

\* Tasks start in the order they were enqueued, also those a runner enqueues
\* and those a runner starts from within its own step.
StartOrder ==
  \A t, u \in Id :
    (status[t] \in {"running", "done", "failed"} /\ status[u] = "pending") => t < u

\* Neither the trim of the history nor a prune from inside a runner ever drops
\* a task that is waiting or running.
LiveTasksKept ==
  \A t \in Id : status[t] \in {"pending", "running"} => t \in queue

\* A task asked to cancel before it settled does not end as done, even when
\* the request came after its last poll.
CancelledNeverDone == \A t \in Id : status[t] = "done" => ~cancel[t]

\* The counters account for every task, those dropped from the history too.
StatsAccount ==
  LET Number(statuses) == Cardinality({t \in Id : status[t] \in statuses}) IN
  /\ stats.completed = Number({"done"})
  /\ stats.failed = Number({"failed"})
  /\ stats.cancelled = Number({"cancelled"})
  /\ stats.started >= Number({"running", "done", "failed"})
  /\ stats.started <= Number({"running"} \cup Terminal)

\* Enqueueing over the capacity drops only settled tasks, the oldest ones, and
\* no more than the excess.
TrimDropsOldest ==
  [][\A chunked \in BOOLEAN :
       Enqueue(chunked) =>
         LET dropped == queue \ queue'
             history == {t \in queue' : status[t] \in Terminal} IN
         /\ \A t \in dropped : status[t] \in Terminal
         /\ \A t \in dropped, u \in history : t < u
         /\ Cardinality(queue') <= Capacity \/ history = {}
         /\ dropped # {} => Cardinality(queue') >= Capacity]_vars

\* Once settled a task stays as it is: no runner is entered twice.
SettledStays ==
  \A t \in Id : status[t] \in Terminal =>
    status'[t] = status[t] /\ progress'[t] = progress[t] /\ cancel'[t] = cancel[t]

SettledIsFinal == [][SettledStays]_vars

\* Every task given to the queue is settled, whatever the others do: raise,
\* cancel each other, prune, enqueue, or run the queue from inside.
EveryTaskSettles == \A t \in Id : status[t] = "pending" ~> status[t] \in Terminal
==============================================================================
