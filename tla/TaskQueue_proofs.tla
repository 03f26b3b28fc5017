--------------------------- MODULE TaskQueue_proofs ---------------------------
(* Proofs about TaskQueue for any number of tasks and units, any history      *)
(* capacity and any guard of run_all.                                         *)
EXTENDS TaskQueue, FiniteSetTheorems, SequenceTheorems, WellFoundedInduction, TLAPS

------------------------------------------------------------------------------
\* The inductive invariant.  A task that is started is pending, so by StartOrder
\* it is younger than every runner on the stack: pushing it keeps the stack
\* ascending.  That the stack's tasks differ makes the pop of the innermost
\* leave exactly the other running tasks.  Numbered keeps a new task apart from
\* all of them.

Numbered ==
  /\ \A t \in Id : status[t] = "none" <=> t > count
  /\ \A t \in Id : status[t] = "none" => ~cancel[t]
  /\ \A t \in queue : status[t] # "none"

IInv ==
  /\ TypeOK
  /\ Numbered
  /\ RunningIsStack
  /\ StartOrder
  /\ LiveTasksKept
  /\ CancelledNeverDone

\* The invariant holds of an empty queue.
LEMMA InitIInv ==
  ASSUME TaskQueueAssumption, Init
  PROVE  IInv
<1>1. TypeOK
  BY DEF TaskQueueAssumption, Init, TypeOK, TaskStatus, Terminal, Stats
<1>2. Numbered
  BY DEF Init, Numbered, Id
<1> QED BY <1>1, <1>2
    DEF Init, IInv, RunningIsStack, StartOrder, LiveTasksKept, CancelledNeverDone

\* The types in the form the steps use.
LEMMA Types ==
  ASSUME TaskQueueAssumption, TypeOK
  PROVE  /\ Id \subseteq Nat
         /\ count \in Nat
         /\ count < MaxTasks => count + 1 \in Id
         /\ Len(stack) \in Nat
         /\ queue \subseteq Id
         /\ status \in [Id -> TaskStatus]
         /\ \A i \in 1 .. Len(stack) : stack[i] \in Id
BY DEF TaskQueueAssumption, TypeOK, Id

\* Counting one task, or several, keeps the counters counters.
LEMMA StatsStep ==
  ASSUME NEW st \in Stats, NEW k \in Nat
  PROVE  /\ [st EXCEPT !.started = @ + 1] \in Stats
         /\ [st EXCEPT !.completed = @ + 1] \in Stats
         /\ [st EXCEPT !.failed = @ + 1] \in Stats
         /\ [st EXCEPT !.cancelled = @ + 1] \in Stats
         /\ [st EXCEPT !.cancelled = @ + k] \in Stats
BY DEF Stats

\* A runner on the stack is running.
LEMMA InnermostRuns ==
  ASSUME TaskQueueAssumption, IInv, NEW t \in Id, Innermost(t)
  PROVE  /\ status[t] = "running"
         /\ Len(stack) \in Nat \ {0}
         /\ stack[Len(stack)] = t
BY Types DEF IInv, TypeOK, RunningIsStack, Innermost

------------------------------------------------------------------------------
\* The calls

\* The trim drops settled tasks only.
LEMMA TrimKeepsLive ==
  ASSUME NEW tasks, NEW t \in tasks, status[t] \notin Terminal
  PROVE  t \in Trimmed(tasks)
BY DEF Trimmed

\* enqueue keeps the invariant.
LEMMA EnqueueIInv ==
  ASSUME TaskQueueAssumption, IInv, NEW chunked \in BOOLEAN, Enqueue(chunked)
  PROVE  IInv'
<1> USE DEF IInv
<1> DEFINE new == count + 1
<1>1. new \in Id /\ status[new] = "none" /\ ~cancel[new] /\ count \in Nat
  BY Types DEF Enqueue, Numbered
<1> HIDE DEF new
<1>2. /\ count' = new /\ count' = count + 1
      /\ status' = [status EXCEPT ![new] = "pending"]
      /\ polls' = [polls EXCEPT ![new] = chunked]
      /\ queue' = Trimmed(queue \cup {new})
      /\ UNCHANGED <<cancel, progress, stack, drain, stats>>
  BY DEF Enqueue, new
<1>3. queue' \subseteq Id
  BY <1>1, <1>2 DEF Trimmed, TypeOK
<1>4. TypeOK'
  <2>1. count' \in 0 .. MaxTasks
    BY <1>1, <1>2 DEF Enqueue, TypeOK, TaskQueueAssumption
  <2>2. status' \in [Id -> TaskStatus] /\ polls' \in [Id -> BOOLEAN]
    BY <1>1, <1>2 DEF TypeOK, TaskStatus
  <2> QED BY <1>2, <1>3, <2>1, <2>2 DEF TypeOK
<1>5. \A t \in Id : status'[t] = IF t = new THEN "pending" ELSE status[t]
  BY <1>2 DEF TypeOK
<1>6. Numbered'
  <2>1. \A t \in Id : status'[t] = "none" <=> t > count'
    BY <1>1, <1>2, <1>5, Types DEF Numbered, new
  <2>2. \A t \in Id : status'[t] = "none" => ~cancel'[t]
    BY <1>2, <1>5 DEF Numbered
  <2>3. queue' \subseteq queue \cup {new}
    BY <1>2 DEF Trimmed
  <2>4. \A t \in queue' : status'[t] # "none"
    BY <1>3, <1>5, <2>3 DEF Numbered
  <2> QED BY <2>1, <2>2, <2>4 DEF Numbered
<1>7. RunningIsStack'
  BY <1>1, <1>2, <1>5, Types DEF RunningIsStack
<1>8. StartOrder'
  BY <1>1, <1>5, Types DEF StartOrder, Numbered, new
<1>9. LiveTasksKept'
  <2> SUFFICES ASSUME NEW t \in Id, status'[t] \in {"pending", "running"}
               PROVE  t \in queue'
    BY DEF LiveTasksKept
  <2>1. t \in queue \cup {new} /\ status[t] \notin Terminal
    BY <1>1, <1>5 DEF LiveTasksKept, Terminal
  <2> QED BY <1>2, <2>1, TrimKeepsLive
<1>10. CancelledNeverDone'
  BY <1>2, <1>5 DEF CancelledNeverDone
<1> QED BY <1>4, <1>6, <1>7, <1>8, <1>9, <1>10

\* A call that cancels: some pending tasks become cancelled, some live tasks
\* are flagged, and nothing else the invariant speaks of moves.
LEMMA CancelIInv ==
  ASSUME TaskQueueAssumption, IInv, TypeOK',
         UNCHANGED <<count, queue, stack>>,
         \A t \in Id : \/ status'[t] = status[t]
                       \/ status[t] = "pending" /\ status'[t] = "cancelled",
         \A t \in Id : \/ cancel'[t] = cancel[t]
                       \/ status[t] \in {"pending", "running"}
  PROVE  IInv'
<1> USE DEF IInv
<1>1. \A t \in Id : status'[t] = "running" <=> status[t] = "running"
  OBVIOUS
<1>2. Numbered'
  <2>1. queue \subseteq Id
    BY Types
  <2>2. \A t \in Id : status'[t] = "none" <=> status[t] = "none"
    OBVIOUS
  <2> QED BY <2>1, <2>2 DEF Numbered
<1>3. RunningIsStack'
  BY <1>1, Types DEF RunningIsStack
<1>4. StartOrder' /\ LiveTasksKept' /\ CancelledNeverDone'
  BY DEF StartOrder, LiveTasksKept, CancelledNeverDone
<1> QED BY <1>2, <1>3, <1>4

\* request_cancel of the queue keeps the invariant.
LEMMA RequestCancelIInv ==
  ASSUME TaskQueueAssumption, IInv, NEW t \in Id, RequestCancel(t)
  PROVE  IInv'
<1>1. TypeOK
  BY DEF IInv
<1>2. status[t] \in {"pending", "running"}
  BY <1>1 DEF RequestCancel, TypeOK, TaskStatus, Terminal, IInv, LiveTasksKept, Numbered
<1>3. cancel' \in [Id -> BOOLEAN] /\ \A u \in Id : cancel'[u] = cancel[u] \/ u = t
  BY <1>1 DEF RequestCancel, TypeOK
<1>4. /\ status' \in [Id -> TaskStatus]
      /\ \A u \in Id : \/ status'[u] = status[u]
                       \/ status[u] = "pending" /\ status'[u] = "cancelled"
  BY <1>1, <1>2 DEF RequestCancel, TypeOK, TaskStatus, Terminal
<1>5. stats' \in Stats
  BY <1>1, StatsStep DEF RequestCancel, TypeOK
<1>6. UNCHANGED <<count, polls, progress, queue, stack, drain>>
  BY DEF RequestCancel
<1>7. TypeOK'
  BY <1>1, <1>3, <1>4, <1>5, <1>6 DEF TypeOK
<1> QED BY <1>2, <1>3, <1>4, <1>6, <1>7, CancelIInv

\* request_cancel of a task keeps the invariant.
LEMMA FlagCancelIInv ==
  ASSUME TaskQueueAssumption, IInv, NEW t \in Id, FlagCancel(t)
  PROVE  IInv'
<1>1. TypeOK
  BY DEF IInv
<1>2. cancel' \in [Id -> BOOLEAN] /\ \A u \in Id : cancel'[u] = cancel[u] \/ u = t
  BY <1>1 DEF FlagCancel, TypeOK
<1>3. TypeOK'
  BY <1>1, <1>2 DEF FlagCancel, TypeOK
<1> QED BY <1>2, <1>3, CancelIInv DEF FlagCancel

\* cancel_all_pending keeps the invariant.
LEMMA CancelAllIInv ==
  ASSUME TaskQueueAssumption, IInv, CancelAllPending
  PROVE  IInv'
<1>1. TypeOK
  BY DEF IInv
<1>2. WithStatus("pending") \subseteq Id /\ \A u \in WithStatus("pending") : status[u] = "pending"
  BY <1>1 DEF WithStatus, TypeOK
<1>3. /\ cancel' \in [Id -> BOOLEAN]
      /\ \A u \in Id : cancel'[u] = cancel[u] \/ status[u] = "pending"
  BY <1>1, <1>2 DEF CancelAllPending, TypeOK
<1>4. /\ status' \in [Id -> TaskStatus]
      /\ \A u \in Id : \/ status'[u] = status[u]
                       \/ status[u] = "pending" /\ status'[u] = "cancelled"
  BY <1>1, <1>2 DEF CancelAllPending, TypeOK, TaskStatus, Terminal
<1>5. stats' \in Stats
  <2>1. IsFiniteSet(WithStatus("pending"))
    <3>1. IsFiniteSet(Id)
      BY FS_Interval DEF Id, TaskQueueAssumption
    <3> QED BY <1>2, <3>1, FS_Subset
  <2>2. Cardinality(WithStatus("pending")) \in Nat
    BY <2>1, FS_CardinalityType
  <2> QED BY <1>1, <2>2, StatsStep DEF CancelAllPending, TypeOK
<1>6. TypeOK'
  BY <1>1, <1>3, <1>4, <1>5 DEF CancelAllPending, TypeOK
<1> QED BY <1>3, <1>4, <1>6, CancelIInv DEF CancelAllPending

\* prune_terminal keeps the invariant.
LEMMA PruneIInv ==
  ASSUME TaskQueueAssumption, IInv, PruneTerminal
  PROVE  IInv'
<1>1. /\ queue' = {t \in queue : status[t] \notin Terminal}
      /\ UNCHANGED <<count, status, cancel, polls, progress, stack, drain, stats>>
  BY DEF PruneTerminal
<1>2. \A t \in queue : status[t] \in {"pending", "running"} => t \in queue'
  BY <1>1 DEF Terminal
<1> QED BY <1>1, <1>2
  DEF IInv, TypeOK, Numbered, RunningIsStack, StartOrder, LiveTasksKept, CancelledNeverDone

------------------------------------------------------------------------------
\* Running

\* The start of a task keeps the invariant, at any depth of runners.
LEMMA ExecuteIInv ==
  ASSUME TaskQueueAssumption, IInv, NEW t \in Id, Execute(t), drain' \in 0 .. MaxIterations
  PROVE  IInv'
<1> USE DEF IInv
<1>1. /\ status[t] = "pending" /\ t \in queue
      /\ \A u \in Id : status[u] = "pending" => t <= u
      /\ UNCHANGED <<count, cancel, polls, progress, queue>>
  BY DEF Execute, FirstPending, WithStatus, LiveTasksKept
<1>2. CASE CancelUnstarted(t)
  <2>1. /\ status' \in [Id -> TaskStatus]
        /\ \A u \in Id : \/ status'[u] = status[u]
                         \/ u = t /\ status'[u] = "cancelled"
    <3>1. status \in [Id -> TaskStatus] /\ "cancelled" \in TaskStatus
      BY DEF TypeOK, TaskStatus, Terminal
    <3>2. status' = [status EXCEPT ![t] = "cancelled"]
      BY <1>2 DEF CancelUnstarted
    <3> QED BY <3>1, <3>2
  <2>2. stats' \in Stats /\ UNCHANGED stack
    BY <1>2, StatsStep DEF CancelUnstarted, TypeOK
  <2>3. TypeOK'
    BY <1>1, <2>1, <2>2 DEF TypeOK
  <2> QED BY <1>1, <2>1, <2>2, <2>3, CancelIInv
<1>3. CASE Start(t)
  <2> DEFINE n == Len(stack)
  <2>1. /\ ~cancel[t]
        /\ status' \in [Id -> TaskStatus]
        /\ \A u \in Id : status'[u] = IF u = t THEN "running" ELSE status[u]
    BY <1>3 DEF Start, TypeOK, TaskStatus
  <2>2. /\ n \in Nat
        /\ stack' \in Seq(Id)
        /\ Len(stack') = n + 1
        /\ stack'[n + 1] = t
        /\ \A i \in 1 .. n : stack'[i] = stack[i] /\ stack[i] \in Id
    BY <1>3 DEF Start, TypeOK
  <2> HIDE DEF n
  <2>3. stats' \in Stats
    BY <1>3, StatsStep DEF Start, TypeOK
  <2>4. TypeOK'
    BY <1>1, <2>1, <2>2, <2>3 DEF TypeOK
  <2>5. Numbered'
    <3>1. queue \subseteq Id
      BY Types
    <3>2. \A u \in Id : status'[u] = "none" <=> status[u] = "none"
      BY <1>1, <2>1
    <3> QED BY <1>1, <3>1, <3>2 DEF Numbered
  <2>6. StartOrder'
    BY <1>1, <2>1, Types DEF StartOrder
  <2>7. LiveTasksKept' /\ CancelledNeverDone'
    BY <1>1, <2>1 DEF LiveTasksKept, CancelledNeverDone
  <2>8. RunningIsStack'
    <3>1. \A i \in 1 .. n : stack[i] \in Id /\ status[stack[i]] = "running" /\ stack[i] < t
      BY <1>1, <2>2 DEF RunningIsStack, StartOrder, n
    <3>2. \A i \in 1 .. n + 1 : status'[stack'[i]] = "running"
      BY <2>1, <2>2, <3>1
    <3>3. \A u \in Id : status'[u] = "running" => \E i \in 1 .. n + 1 : stack'[i] = u
      <4> SUFFICES ASSUME NEW u \in Id, status'[u] = "running"
                   PROVE  \E i \in 1 .. n + 1 : stack'[i] = u
        OBVIOUS
      <4>1. CASE u = t BY <2>2, <4>1
      <4>2. CASE u # t
        <5>1. PICK i \in 1 .. n : stack[i] = u
          BY <2>1, <4>2 DEF RunningIsStack, n
        <5> QED BY <2>2, <5>1
      <4> QED BY <4>1, <4>2
    <3>4. \A i, j \in 1 .. n + 1 : i < j => stack'[i] < stack'[j]
      <4> SUFFICES ASSUME NEW i \in 1 .. n + 1, NEW j \in 1 .. n + 1, i < j
                   PROVE  stack'[i] < stack'[j]
        OBVIOUS
      <4>1. CASE j = n + 1 BY <2>2, <3>1, <4>1
      <4>2. CASE j \in 1 .. n
        <5>1. i \in 1 .. n /\ stack[i] < stack[j]
          BY <2>2, <4>2 DEF RunningIsStack, n
        <5> QED BY <2>2, <4>2, <5>1
      <4> QED BY <2>2, <4>1, <4>2
    <3> QED BY <2>2, <3>2, <3>3, <3>4 DEF RunningIsStack
  <2> QED BY <2>4, <2>5, <2>6, <2>7, <2>8
<1> QED BY <1>2, <1>3 DEF Execute

\* The innermost runner ends: its task is settled and leaves the stack.
LEMMA PopIInv ==
  ASSUME TaskQueueAssumption, IInv, NEW t \in Id, Innermost(t), Pop,
         UNCHANGED <<count, cancel, queue, polls, drain>>,
         stats' \in Stats, progress' \in [Id -> 0 .. Units],
         NEW s \in Terminal, status' = [status EXCEPT ![t] = s],
         s = "done" => ~cancel[t]
  PROVE  IInv'
<1> USE DEF IInv
<1> DEFINE n == Len(stack)
<1>1. n \in Nat \ {0} /\ stack[n] = t /\ status[t] = "running"
  BY InnermostRuns
<1>2. /\ stack' \in Seq(Id)
      /\ Len(stack') = n - 1
      /\ \A i \in 1 .. n - 1 : stack'[i] = stack[i]
  <2>1. n - 1 \in Nat /\ \A i \in 1 .. n - 1 : stack[i] \in Id
    BY <1>1, Types
  <2>2. stack' = SubSeq(stack, 1, n - 1)
    BY DEF Pop
  <2> HIDE DEF n
  <2>3. /\ SubSeq(stack, 1, n - 1) \in Seq(Id)
        /\ Len(SubSeq(stack, 1, n - 1)) = IF 1 <= n - 1 THEN n - 1 - 1 + 1 ELSE 0
        /\ \A i \in 1 .. n - 1 - 1 + 1 : SubSeq(stack, 1, n - 1)[i] = stack[1 + i - 1]
    BY <2>1, SubSeqProperties
  <2> QED BY <1>1, <2>1, <2>2, <2>3
<1>3. /\ status' \in [Id -> TaskStatus]
      /\ \A u \in Id : status'[u] = IF u = t THEN s ELSE status[u]
  BY DEF TypeOK, TaskStatus
<1>4. TypeOK'
  BY <1>2, <1>3 DEF TypeOK
<1>5. Numbered' /\ StartOrder' /\ LiveTasksKept' /\ CancelledNeverDone'
  BY <1>1, <1>3 DEF Numbered, StartOrder, LiveTasksKept, CancelledNeverDone, Terminal
<1>6. RunningIsStack'
  <2>1. \A i \in 1 .. n - 1 : stack[i] \in Id /\ stack[i] < t /\ status[stack[i]] = "running"
    BY <1>1, Types DEF RunningIsStack
  <2>2. \A i \in 1 .. n - 1 : status'[stack'[i]] = "running"
    BY <1>1, <1>2, <1>3, <2>1, Types
  <2>3. \A u \in Id : status'[u] = "running" => \E i \in 1 .. n - 1 : stack'[i] = u
    <3> SUFFICES ASSUME NEW u \in Id, status'[u] = "running"
                 PROVE  \E i \in 1 .. n - 1 : stack'[i] = u
      OBVIOUS
    <3>1. u # t /\ status[u] = "running"
      BY <1>3 DEF Terminal
    <3>2. PICK i \in 1 .. n : stack[i] = u
      BY <3>1 DEF RunningIsStack
    <3>3. i \in 1 .. n - 1
      BY <1>1, <3>1, <3>2
    <3> QED BY <1>2, <3>2, <3>3
  <2>4. \A i, j \in 1 .. n - 1 : i < j => stack'[i] < stack'[j]
    BY <1>1, <1>2 DEF RunningIsStack
  <2> QED BY <1>2, <2>2, <2>3, <2>4 DEF RunningIsStack
<1> QED BY <1>4, <1>5, <1>6

\* What the innermost runner does keeps the invariant.
LEMMA RunnerIInv ==
  ASSUME TaskQueueAssumption, IInv, Runner
  PROVE  IInv'
<1>1. TypeOK
  BY DEF IInv
<1>2. ASSUME NEW t \in Id, RunUnit(t) PROVE IInv'
  <2>1. progress' \in [Id -> 0 .. Units]
    BY <1>1, <1>2 DEF RunUnit, TypeOK, TaskQueueAssumption
  <2> QED BY <1>2, <2>1 DEF RunUnit, IInv, TypeOK, Numbered, RunningIsStack, StartOrder,
                            LiveTasksKept, CancelledNeverDone
<1>3. ASSUME NEW t \in Id, RunnerReturns(t) PROVE IInv'
  <2>1. UNCHANGED <<count, cancel, queue, polls, drain>> /\ Innermost(t) /\ Pop
    BY <1>3 DEF RunnerReturns
  <2>2. stats' \in Stats
    BY <1>1, <1>3, StatsStep DEF RunnerReturns, Settle, TypeOK
  <2>3. progress' \in [Id -> 0 .. Units]
    BY <1>1, <1>3 DEF RunnerReturns, Settle, TypeOK, TaskQueueAssumption
  <2>4. \E s \in Terminal : status' = [status EXCEPT ![t] = s] /\ (s = "done" => ~cancel[t])
    BY <1>3 DEF RunnerReturns, Settle, Terminal
  <2> QED BY <2>1, <2>2, <2>3, <2>4, PopIInv
<1>4. ASSUME NEW t \in Id, RunnerRaises(t) PROVE IInv'
  <2>1. /\ UNCHANGED <<count, cancel, queue, polls, drain>> /\ Innermost(t) /\ Pop
        /\ status' = [status EXCEPT ![t] = "failed"]
    BY <1>4 DEF RunnerRaises
  <2>2. stats' \in Stats /\ progress' \in [Id -> 0 .. Units] /\ "failed" \in Terminal
    BY <1>1, <1>4, StatsStep DEF RunnerRaises, TypeOK, Terminal
  <2> QED BY <2>1, <2>2, PopIInv
<1> QED BY <1>2, <1>3, <1>4 DEF Runner

\* Every call of the queue keeps the invariant.
LEMMA CallIInv ==
  ASSUME TaskQueueAssumption, IInv, Call
  PROVE  IInv'
<1>1. ASSUME NEW t \in Id, RunNext(t) PROVE IInv'
  <2>1. drain' \in 0 .. MaxIterations
    BY <1>1 DEF RunNext, IInv, TypeOK
  <2> QED BY <1>1, <2>1, ExecuteIInv DEF RunNext
<1> QED BY <1>1, EnqueueIInv, RequestCancelIInv, FlagCancelIInv, CancelAllIInv, PruneIInv
    DEF Call

\* run_all keeps the invariant.
LEMMA RunAllIInv ==
  ASSUME TaskQueueAssumption, IInv, RunAll
  PROVE  IInv'
<1>1. ASSUME NEW t \in Id, RunAllNext(t) PROVE IInv'
  <2>1. drain' \in 0 .. MaxIterations
    BY <1>1 DEF RunAllNext, IInv, TypeOK, TaskQueueAssumption
  <2> QED BY <1>1, <2>1, ExecuteIInv DEF RunAllNext
<1>2. CASE StartRunAll \/ EndRunAll
  <2>1. /\ UNCHANGED <<count, status, cancel, polls, progress, queue, stack, stats>>
        /\ drain' \in 0 .. MaxIterations
    BY <1>2 DEF StartRunAll, EndRunAll, TaskQueueAssumption
  <2> QED BY <2>1 DEF IInv, TypeOK, Numbered, RunningIsStack, StartOrder, LiveTasksKept,
                      CancelledNeverDone
<1> QED BY <1>1, <1>2 DEF RunAll

\* Every step keeps the invariant.
LEMMA StepIInv ==
  ASSUME TaskQueueAssumption, IInv, [Next]_vars
  PROVE  IInv'
<1>1. CASE UNCHANGED vars
  BY <1>1 DEF vars, IInv, TypeOK, Numbered, RunningIsStack, StartOrder, LiveTasksKept,
              CancelledNeverDone
<1> QED BY <1>1, CallIInv, RunAllIInv, RunnerIInv DEF Next

\* The invariant holds for ever.
LEMMA AlwaysIInv == Spec => []IInv
<1>1. Init => IInv
  BY InitIInv, TaskQueueAssumption
<1>2. IInv /\ [Next]_vars => IInv'
  BY StepIInv, TaskQueueAssumption
<1> QED BY <1>1, <1>2, PTL DEF Spec

------------------------------------------------------------------------------
\* Every variable keeps its type; a runner's progress stays within its units.
THEOREM TypeCorrect == Spec => []TypeOK
<1>1. IInv => TypeOK
  BY DEF IInv
<1> QED BY <1>1, AlwaysIInv, PTL

\* The running tasks are the call stack, however runners nest run_next.
THEOREM StackSafe == Spec => []RunningIsStack
<1>1. IInv => RunningIsStack
  BY DEF IInv
<1> QED BY <1>1, AlwaysIInv, PTL

\* First in, first started, re-entrant calls included.
THEOREM FirstInFirstStarted == Spec => []StartOrder
<1>1. IInv => StartOrder
  BY DEF IInv
<1> QED BY <1>1, AlwaysIInv, PTL

\* No waiting or running task leaves the list, for any history capacity.
THEOREM NoTaskDropped == Spec => []LiveTasksKept
<1>1. IInv => LiveTasksKept
  BY DEF IInv
<1> QED BY <1>1, AlwaysIInv, PTL

\* A cancelled task is never reported as done.
THEOREM CancelRespected == Spec => []CancelledNeverDone
<1>1. IInv => CancelledNeverDone
  BY DEF IInv
<1> QED BY <1>1, AlwaysIInv, PTL

\* A settled task stays as it is: only live tasks are flagged, only pending ones
\* cancelled or started, and the innermost runner's task is running.
LEMMA SettledStep ==
  ASSUME TaskQueueAssumption, IInv, [Next]_vars
  PROVE  SettledStays
<1> SUFFICES ASSUME NEW t \in Id, status[t] \in Terminal
             PROVE  /\ status'[t] = status[t]
                    /\ progress'[t] = progress[t]
                    /\ cancel'[t] = cancel[t]
  BY DEF SettledStays
<1>1. /\ status \in [Id -> TaskStatus] /\ cancel \in [Id -> BOOLEAN]
      /\ progress \in [Id -> 0 .. Units]
  BY DEF IInv, TypeOK
<1>2. status[t] \notin {"none", "pending", "running"}
  BY DEF Terminal
<1>3. ASSUME NEW chunked \in BOOLEAN, Enqueue(chunked) PROVE SettledStays
  <2>1. count + 1 \in Id /\ status[count + 1] = "none"
    BY <1>3, Types DEF Enqueue, IInv, Numbered
  <2> QED BY <1>1, <1>3, <2>1 DEF Enqueue, SettledStays, Terminal
<1>4. ASSUME NEW u \in Id, RequestCancel(u) \/ FlagCancel(u) PROVE SettledStays
  BY <1>1, <1>4 DEF RequestCancel, FlagCancel, SettledStays, Terminal
<1>5. CASE CancelAllPending
  BY <1>1, <1>2, <1>5 DEF CancelAllPending, WithStatus
<1>6. ASSUME NEW u \in Id, Execute(u) PROVE SettledStays
  BY <1>1, <1>6 DEF Execute, FirstPending, WithStatus, CancelUnstarted, Start,
                    SettledStays, Terminal
<1>7. ASSUME NEW u \in Id, RunUnit(u) \/ RunnerReturns(u) \/ RunnerRaises(u)
      PROVE  SettledStays
  <2>1. status[u] = "running"
    BY <1>7, InnermostRuns DEF RunUnit, RunnerReturns, RunnerRaises
  <2> QED BY <1>1, <1>7, <2>1
    DEF RunUnit, RunnerReturns, RunnerRaises, Settle, SettledStays, Terminal
<1>8. CASE PruneTerminal \/ StartRunAll \/ EndRunAll \/ UNCHANGED vars
  BY <1>8 DEF PruneTerminal, StartRunAll, EndRunAll, vars
<1>9. SettledStays \/ CancelAllPending \/ PruneTerminal \/ StartRunAll \/ EndRunAll
        \/ UNCHANGED vars
  BY <1>3, <1>4, <1>6, <1>7 DEF Next, Call, RunAll, Runner, RunNext, RunAllNext
<1> QED BY <1>5, <1>8, <1>9 DEF SettledStays

\* No call, re-entrant or late, changes a task that is done, failed or cancelled.
THEOREM SettledForGood == Spec => SettledIsFinal
<1>1. IInv /\ [Next]_vars => SettledStays
  BY SettledStep, TaskQueueAssumption
<1> QED BY <1>1, AlwaysIInv, PTL DEF Spec, SettledIsFinal
------------------------------------------------------------------------------
\* The counters.  A step moves one task, or all waiting ones, from one status to
\* another, and counts exactly that; IInv says from which.

\* The number of tasks whose status under f is one of s.
Tally(f, s) == Cardinality({t \in Id : f[t] \in s})

\* Sets of tasks are finite.
LEMMA TasksFinite ==
  ASSUME TaskQueueAssumption, NEW tasks \in SUBSET Id
  PROVE  IsFiniteSet(tasks) /\ Cardinality(tasks) \in Nat
<1>1. IsFiniteSet(Id)
  BY FS_Interval DEF Id, TaskQueueAssumption
<1> QED BY <1>1, FS_Subset, FS_CardinalityType

\* StatsAccount in terms of tallies.
LEMMA AccountByTally ==
  StatsAccount <=>
    /\ stats.completed = Tally(status, {"done"})
    /\ stats.failed = Tally(status, {"failed"})
    /\ stats.cancelled = Tally(status, {"cancelled"})
    /\ stats.started >= Tally(status, {"running", "done", "failed"})
    /\ stats.started <= Tally(status, {"running"} \cup Terminal)
BY DEF StatsAccount, Tally

\* And after a step.
LEMMA NextAccountByTally ==
  StatsAccount' <=>
    /\ stats'.completed = Tally(status', {"done"})
    /\ stats'.failed = Tally(status', {"failed"})
    /\ stats'.cancelled = Tally(status', {"cancelled"})
    /\ stats'.started >= Tally(status', {"running", "done", "failed"})
    /\ stats'.started <= Tally(status', {"running"} \cup Terminal)
BY DEF StatsAccount, Tally

\* Statuses that stay on their side of s leave its tally alone.
LEMMA MoveNone ==
  ASSUME TaskQueueAssumption, NEW f, NEW g, NEW s,
         \A u \in Id : g[u] \in s <=> f[u] \in s
  PROVE  Tally(f, s) \in Nat /\ Tally(g, s) = Tally(f, s)
<1>1. {u \in Id : f[u] \in s} = {u \in Id : g[u] \in s}
  OBVIOUS
<1> QED BY <1>1, TasksFinite DEF Tally

\* One task that changes its status leaves the tallies of the old one and
\* enters those of the new one.
LEMMA MoveOne ==
  ASSUME TaskQueueAssumption, NEW f, NEW g, NEW t \in Id, NEW s,
         \A u \in Id : u # t => g[u] = f[u]
  PROVE  /\ Tally(f, s) \in Nat
         /\ Tally(g, s) = IF g[t] \in s
                          THEN IF f[t] \in s THEN Tally(f, s) ELSE Tally(f, s) + 1
                          ELSE IF f[t] \in s THEN Tally(f, s) - 1 ELSE Tally(f, s)
<1> DEFINE rest == {u \in Id : u # t /\ f[u] \in s}
           In(h) == {u \in Id : h[u] \in s}
<1>1. /\ IsFiniteSet(rest) /\ Cardinality(rest) \in Nat
      /\ Cardinality(rest \cup {t}) = Cardinality(rest) + 1
  <2>1. IsFiniteSet(rest) /\ Cardinality(rest) \in Nat
    BY TasksFinite
  <2>2. t \notin rest
    OBVIOUS
  <2> HIDE DEF rest
  <2> QED BY <2>1, <2>2, FS_AddElement
<1>2. In(f) = IF f[t] \in s THEN rest \cup {t} ELSE rest
  OBVIOUS
<1>3. In(g) = IF g[t] \in s THEN rest \cup {t} ELSE rest
  OBVIOUS
<1>4. Tally(f, s) = Cardinality(In(f)) /\ Tally(g, s) = Cardinality(In(g))
  BY DEF Tally
<1> HIDE DEF rest, In
<1>5. Tally(f, s) = IF f[t] \in s THEN Cardinality(rest) + 1 ELSE Cardinality(rest)
  BY <1>1, <1>2, <1>4
<1>6. Tally(g, s) = IF g[t] \in s THEN Cardinality(rest) + 1 ELSE Cardinality(rest)
  BY <1>1, <1>3, <1>4
<1> QED BY <1>1, <1>5, <1>6

\* Several tasks that enter a tally from outside it.
LEMMA MoveMany ==
  ASSUME TaskQueueAssumption, NEW f, NEW g, NEW moved \in SUBSET Id, NEW s,
         \A u \in Id : u \notin moved => g[u] = f[u],
         \A u \in moved : f[u] \notin s /\ g[u] \in s
  PROVE  /\ Cardinality(moved) \in Nat /\ Tally(f, s) \in Nat
         /\ Tally(g, s) = Tally(f, s) + Cardinality(moved)
<1> DEFINE In(h) == {u \in Id : h[u] \in s}
<1>1. /\ IsFiniteSet(moved) /\ Cardinality(moved) \in Nat
      /\ IsFiniteSet(In(f)) /\ Cardinality(In(f)) \in Nat
  BY TasksFinite
<1>2. In(f) \cap moved = {} /\ In(g) = In(f) \cup moved
  OBVIOUS
<1>3. Tally(f, s) = Cardinality(In(f)) /\ Tally(g, s) = Cardinality(In(g))
  BY DEF Tally
<1> HIDE DEF In
<1>4. Cardinality(In(f) \cup moved)
        = Cardinality(In(f)) + Cardinality(moved) - Cardinality(In(f) \cap moved)
  BY <1>1, FS_Union
<1>5. Cardinality(In(f) \cap moved) = 0
  BY <1>2, FS_EmptySet
<1> QED BY <1>1, <1>2, <1>3, <1>4, <1>5

\* How the steps count a task that goes from its status to s.
Counted(t, s) ==
  \/ /\ status[t] = "none" /\ s = "pending"
     /\ stats' = stats
  \/ /\ status[t] = "pending" /\ s = "running"
     /\ stats' = [stats EXCEPT !.started = @ + 1]
  \/ /\ status[t] \in {"pending", "running"} /\ s = "cancelled"
     /\ stats' = [stats EXCEPT !.cancelled = @ + 1]
  \/ /\ status[t] = "running" /\ s = "done"
     /\ stats' = [stats EXCEPT !.completed = @ + 1]
  \/ /\ status[t] = "running" /\ s = "failed"
     /\ stats' = [stats EXCEPT !.failed = @ + 1]

\* A step that moves one task and counts it so leaves the five tallies right.
LEMMA AccountMove ==
  ASSUME TaskQueueAssumption, IInv, StatsAccount, NEW t \in Id, NEW s \in TaskStatus,
         status' = [status EXCEPT ![t] = s], Counted(t, s)
  PROVE  StatsAccount'
<1> DEFINE ran == {"running", "done", "failed"}
           begun == {"running"} \cup Terminal
<1>1. /\ status \in [Id -> TaskStatus] /\ stats \in Stats
      /\ status'[t] = s /\ \A u \in Id : u # t => status'[u] = status[u]
  BY DEF IInv, TypeOK
<1>2. \A x : /\ Tally(status, x) \in Nat
             /\ Tally(status', x) =
                  IF s \in x
                  THEN IF status[t] \in x THEN Tally(status, x) ELSE Tally(status, x) + 1
                  ELSE IF status[t] \in x THEN Tally(status, x) - 1 ELSE Tally(status, x)
  BY <1>1, MoveOne
<1>3. /\ stats.completed \in Nat /\ stats.failed \in Nat
      /\ stats.cancelled \in Nat /\ stats.started \in Nat
  BY <1>1 DEF Stats
<1>4. /\ stats.completed = Tally(status, {"done"})
      /\ stats.failed = Tally(status, {"failed"})
      /\ stats.cancelled = Tally(status, {"cancelled"})
      /\ stats.started >= Tally(status, ran)
      /\ stats.started <= Tally(status, begun)
  BY AccountByTally
<1>5. CASE status[t] = "none" /\ s = "pending"
             /\ stats' = stats
  <2>1. /\ Tally(status', {"done"}) = Tally(status, {"done"})
        /\ Tally(status', {"failed"}) = Tally(status, {"failed"})
        /\ Tally(status', {"cancelled"}) = Tally(status, {"cancelled"})
        /\ Tally(status', ran) = Tally(status, ran)
        /\ Tally(status', begun) = Tally(status, begun)
    BY <1>2, <1>5 DEF Terminal
  <2>2. \A x : Tally(status, x) \in Nat
    BY <1>2
  <2> QED BY <1>1, <1>3, <1>4, <1>5, <2>1, <2>2, NextAccountByTally DEF Stats
<1>6. CASE status[t] = "pending" /\ s = "running"
             /\ stats' = [stats EXCEPT !.started = @ + 1]
  <2>1. /\ Tally(status', {"done"}) = Tally(status, {"done"})
        /\ Tally(status', {"failed"}) = Tally(status, {"failed"})
        /\ Tally(status', {"cancelled"}) = Tally(status, {"cancelled"})
        /\ Tally(status', ran) = Tally(status, ran) + 1
        /\ Tally(status', begun) = Tally(status, begun) + 1
    BY <1>2, <1>6 DEF Terminal
  <2>2. \A x : Tally(status, x) \in Nat
    BY <1>2
  <2> QED BY <1>1, <1>3, <1>4, <1>6, <2>1, <2>2, NextAccountByTally DEF Stats
<1>7. CASE status[t] = "pending" /\ s = "cancelled"
             /\ stats' = [stats EXCEPT !.cancelled = @ + 1]
  <2>1. /\ Tally(status', {"done"}) = Tally(status, {"done"})
        /\ Tally(status', {"failed"}) = Tally(status, {"failed"})
        /\ Tally(status', {"cancelled"}) = Tally(status, {"cancelled"}) + 1
        /\ Tally(status', ran) = Tally(status, ran)
        /\ Tally(status', begun) = Tally(status, begun) + 1
    BY <1>2, <1>7 DEF Terminal
  <2>2. \A x : Tally(status, x) \in Nat
    BY <1>2
  <2> QED BY <1>1, <1>3, <1>4, <1>7, <2>1, <2>2, NextAccountByTally DEF Stats
<1>8. CASE status[t] = "running" /\ s = "cancelled"
             /\ stats' = [stats EXCEPT !.cancelled = @ + 1]
  <2>1. /\ Tally(status', {"done"}) = Tally(status, {"done"})
        /\ Tally(status', {"failed"}) = Tally(status, {"failed"})
        /\ Tally(status', {"cancelled"}) = Tally(status, {"cancelled"}) + 1
        /\ Tally(status', ran) = Tally(status, ran) - 1
        /\ Tally(status', begun) = Tally(status, begun)
    BY <1>2, <1>8 DEF Terminal
  <2>2. \A x : Tally(status, x) \in Nat
    BY <1>2
  <2> QED BY <1>1, <1>3, <1>4, <1>8, <2>1, <2>2, NextAccountByTally DEF Stats
<1>9. CASE status[t] = "running" /\ s = "done"
             /\ stats' = [stats EXCEPT !.completed = @ + 1]
  <2>1. /\ Tally(status', {"done"}) = Tally(status, {"done"}) + 1
        /\ Tally(status', {"failed"}) = Tally(status, {"failed"})
        /\ Tally(status', {"cancelled"}) = Tally(status, {"cancelled"})
        /\ Tally(status', ran) = Tally(status, ran)
        /\ Tally(status', begun) = Tally(status, begun)
    BY <1>2, <1>9 DEF Terminal
  <2>2. \A x : Tally(status, x) \in Nat
    BY <1>2
  <2> QED BY <1>1, <1>3, <1>4, <1>9, <2>1, <2>2, NextAccountByTally DEF Stats
<1>10. CASE status[t] = "running" /\ s = "failed"
             /\ stats' = [stats EXCEPT !.failed = @ + 1]
  <2>1. /\ Tally(status', {"done"}) = Tally(status, {"done"})
        /\ Tally(status', {"failed"}) = Tally(status, {"failed"}) + 1
        /\ Tally(status', {"cancelled"}) = Tally(status, {"cancelled"})
        /\ Tally(status', ran) = Tally(status, ran)
        /\ Tally(status', begun) = Tally(status, begun)
    BY <1>2, <1>10 DEF Terminal
  <2>2. \A x : Tally(status, x) \in Nat
    BY <1>2
  <2> QED BY <1>1, <1>3, <1>4, <1>10, <2>1, <2>2, NextAccountByTally DEF Stats
<1> QED BY <1>5, <1>6, <1>7, <1>8, <1>9, <1>10 DEF Counted

\* cancel_all_pending counts every task it cancels.
LEMMA AccountCancelAll ==
  ASSUME TaskQueueAssumption, IInv, StatsAccount, CancelAllPending
  PROVE  StatsAccount'
<1> DEFINE waiting == WithStatus("pending")
<1>1. /\ status \in [Id -> TaskStatus] /\ stats \in Stats
      /\ waiting \in SUBSET Id
      /\ \A u \in waiting : status[u] = "pending" /\ status'[u] = "cancelled"
      /\ \A u \in Id : u \notin waiting => status'[u] = status[u]
      /\ stats' = [stats EXCEPT !.cancelled = @ + Cardinality(waiting)]
  BY DEF IInv, TypeOK, CancelAllPending, WithStatus
<1> HIDE DEF waiting
<1>2. /\ Cardinality(waiting) \in Nat
      /\ \A x \in {{"done"}, {"failed"}, {"running", "done", "failed"}} :
           Tally(status, x) \in Nat /\ Tally(status', x) = Tally(status, x)
      /\ \A x \in {{"cancelled"}, {"running"} \cup Terminal} :
           /\ Tally(status, x) \in Nat
           /\ Tally(status', x) = Tally(status, x) + Cardinality(waiting)
  <2>1. ASSUME NEW x \in {{"done"}, {"failed"}, {"running", "done", "failed"}}
        PROVE  /\ Cardinality(waiting) \in Nat
               /\ Tally(status, x) \in Nat /\ Tally(status', x) = Tally(status, x)
    <3>1. \A u \in Id : status'[u] \in x <=> status[u] \in x
      BY <1>1
    <3> QED BY <1>1, <3>1, MoveNone, TasksFinite
  <2>2. ASSUME NEW x \in {{"cancelled"}, {"running"} \cup Terminal}
        PROVE  /\ Tally(status, x) \in Nat
               /\ Tally(status', x) = Tally(status, x) + Cardinality(waiting)
    <3>1. \A u \in waiting : status[u] \notin x /\ status'[u] \in x
      BY <1>1 DEF Terminal
    <3> QED BY <1>1, <3>1, MoveMany
  <2> QED BY <2>1, <2>2
<1>3. /\ stats'.completed = stats.completed /\ stats'.failed = stats.failed
      /\ stats'.started = stats.started
      /\ stats'.cancelled = stats.cancelled + Cardinality(waiting)
      /\ stats.started \in Nat
  BY <1>1 DEF Stats
<1>4. /\ stats.completed = Tally(status, {"done"})
      /\ stats.failed = Tally(status, {"failed"})
      /\ stats.cancelled = Tally(status, {"cancelled"})
      /\ stats.started >= Tally(status, {"running", "done", "failed"})
      /\ stats.started <= Tally(status, {"running"} \cup Terminal)
  BY AccountByTally
<1>5. /\ stats'.completed = Tally(status', {"done"})
      /\ stats'.failed = Tally(status', {"failed"})
      /\ stats'.cancelled = Tally(status', {"cancelled"})
      /\ stats'.started >= Tally(status', {"running", "done", "failed"})
      /\ stats'.started <= Tally(status', {"running"} \cup Terminal)
  BY <1>2, <1>3, <1>4
<1> QED BY <1>5, NextAccountByTally

\* Every step keeps the counters right.
LEMMA AccountStep ==
  ASSUME TaskQueueAssumption, IInv, StatsAccount, [Next]_vars
  PROVE  StatsAccount'
<1>1. CASE UNCHANGED <<status, stats>>
  BY <1>1 DEF StatsAccount
<1>2. ASSUME NEW chunked \in BOOLEAN, Enqueue(chunked) PROVE StatsAccount'
  <2>1. count + 1 \in Id /\ status[count + 1] = "none" /\ "pending" \in TaskStatus
    BY <1>2, Types DEF Enqueue, IInv, Numbered, TaskStatus
  <2> QED BY <1>2, <2>1, AccountMove DEF Enqueue, Counted
<1>3. ASSUME NEW t \in Id, RequestCancel(t) PROVE StatsAccount'
  BY <1>1, <1>3, AccountMove DEF RequestCancel, Counted, TaskStatus, Terminal
<1>4. ASSUME NEW t \in Id, Execute(t) PROVE StatsAccount'
  <2>1. status[t] = "pending"
    BY <1>4 DEF Execute, FirstPending, WithStatus
  <2> QED BY <1>4, <2>1, AccountMove
    DEF Execute, CancelUnstarted, Start, Counted, TaskStatus, Terminal
<1>5. ASSUME NEW t \in Id, RunnerReturns(t) \/ RunnerRaises(t) PROVE StatsAccount'
  <2>1. status[t] = "running"
    BY <1>5, InnermostRuns DEF RunnerReturns, RunnerRaises
  <2> QED BY <1>5, <2>1, AccountMove
    DEF RunnerReturns, RunnerRaises, Settle, Counted, TaskStatus, Terminal
<1>6. \/ UNCHANGED <<status, stats>> \/ CancelAllPending
      \/ \E chunked \in BOOLEAN : Enqueue(chunked)
      \/ \E t \in Id : \/ RequestCancel(t) \/ Execute(t)
                       \/ RunnerReturns(t) \/ RunnerRaises(t)
  BY DEF Next, Call, RunAll, Runner, FlagCancel, PruneTerminal, RunNext, RunAllNext,
         StartRunAll, EndRunAll, RunUnit, vars
<1> QED BY <1>1, <1>2, <1>3, <1>4, <1>5, <1>6, AccountCancelAll

\* The counters account for every task, those the history dropped and those
\* cancelled before they started included, for any capacity.
THEOREM CountersAccount == Spec => []StatsAccount
<1>1. Init => StatsAccount
  <2> SUFFICES ASSUME Init PROVE StatsAccount
    OBVIOUS
  <2>1. \A x : "none" \notin x => {t \in Id : status[t] \in x} = {}
    BY DEF Init
  <2>2. \A x : "none" \notin x => Tally(status, x) = 0
    BY <2>1, FS_EmptySet DEF Tally
  <2> QED BY <2>2, AccountByTally DEF Init, Terminal
<1>2. IInv /\ StatsAccount /\ [Next]_vars => StatsAccount'
  BY AccountStep, TaskQueueAssumption
<1> QED BY <1>1, <1>2, AlwaysIInv, PTL DEF Spec

------------------------------------------------------------------------------
\* The trim.  It walks the settled tasks from the oldest on: the youngest one it
\* drops bounds how many go, the oldest one it keeps bounds how many stay.

\* A nonempty set of naturals has a least element.
LEMMA LeastNatural ==
  ASSUME NEW S \in SUBSET Nat, S # {}
  PROVE  \E m \in S : \A q \in S : m <= q
<1>1. PICK m \in S : \A q \in S : ~(<<q, m>> \in OpToRel(<, Nat))
  BY WFMin, NatLessThanWellFounded
<1>2. \A q \in S : ~(q < m)
  BY <1>1 DEF OpToRel
<1> QED BY <1>2

\* A nonempty set of naturals below a bound has a greatest element.
LEMMA GreatestBounded ==
  ASSUME NEW E \in Nat, NEW S \in SUBSET (0 .. E), S # {}
  PROVE  \E m \in S : \A q \in S : q <= m
<1> DEFINE T == {E - p : p \in S}
<1>1. T \in SUBSET Nat /\ T # {}
  <2>1. \A p \in S : p \in Int /\ E - p \in Nat
    OBVIOUS
  <2>2. PICK p \in S : TRUE
    OBVIOUS
  <2>3. E - p \in T
    BY <2>2
  <2> QED BY <2>1, <2>3
<1>2. PICK t \in T : \A u \in T : t <= u
  BY <1>1, LeastNatural
<1>3. PICK m \in S : t = E - m
  OBVIOUS
<1>4. \A q \in S : E - q \in T
  OBVIOUS
<1> HIDE DEF T
<1>5. \A q \in S : E - m <= E - q
  BY <1>2, <1>3, <1>4
<1>6. \A q \in S : q <= m
  BY <1>5
<1> QED BY <1>6


\* The settled tasks at least as old as t, and the ones the trim drops.
Elders(settled, t) == {u \in settled : u <= t}
Gone(tasks, settled) ==
  {t \in settled : Cardinality(Elders(settled, t)) + Capacity <= Cardinality(tasks)}

\* Of settled tasks among all those in the history, the ones whose rank from the
\* oldest does not exceed the number of tasks too many.
LEMMA OldestGo ==
  ASSUME TaskQueueAssumption, NEW tasks \in SUBSET Id, NEW settled \in SUBSET tasks,
         NEW gone, gone = Gone(tasks, settled)
  PROVE  /\ \A t \in gone, u \in settled \ gone : t < u
         /\ settled \ gone = {} \/ Cardinality(tasks \ gone) <= Capacity
         /\ gone # {} => Cardinality(tasks \ gone) >= Capacity
<1> DEFINE UpTo(t) == Elders(settled, t)
           Rank(t) == Cardinality(UpTo(t))
           kept == settled \ gone
           n == Cardinality(tasks)
           g == Cardinality(gone)
<1>1. /\ Id \subseteq Nat /\ Id = 1 .. MaxTasks /\ MaxTasks \in Nat /\ Capacity \in Nat
      /\ gone \subseteq settled
  BY DEF Id, TaskQueueAssumption, Gone
<1>2. /\ IsFiniteSet(tasks) /\ IsFiniteSet(settled) /\ IsFiniteSet(gone)
      /\ n \in Nat /\ g \in Nat
  BY <1>1, TasksFinite
<1>3. \A t \in settled : IsFiniteSet(UpTo(t)) /\ Rank(t) \in Nat
  <2> SUFFICES ASSUME NEW t \in settled PROVE IsFiniteSet(UpTo(t)) /\ Rank(t) \in Nat
    OBVIOUS
  <2>1. UpTo(t) \in SUBSET Id
    BY <1>1 DEF Elders
  <2> HIDE DEF UpTo
  <2> QED BY <2>1, TasksFinite
<1>4. /\ \A t \in gone : Rank(t) + Capacity <= n
      /\ \A t \in kept : ~(Rank(t) + Capacity <= n)
  BY DEF Gone
<1>5. \A t \in settled, u \in Nat : u \in UpTo(t) <=> u \in settled /\ u <= t
  BY DEF Elders
<1>6. \A t \in settled : UpTo(t) \subseteq settled
  BY DEF Elders
<1> HIDE DEF Rank, UpTo, n, g, kept
<1>7. Cardinality(tasks \ gone) = n - g
  <2>1. tasks \cap gone = gone
    BY <1>1
  <2>2. Cardinality(tasks \ gone) = Cardinality(tasks) - Cardinality(tasks \cap gone)
    BY <1>2, FS_Difference
  <2> QED BY <2>1, <2>2 DEF n, g
<1>8. ASSUME NEW t \in gone, NEW u \in kept PROVE t < u
  <2> SUFFICES ASSUME u <= t PROVE FALSE
    BY <1>1 DEF kept
  <2>1. t \in settled /\ u \in settled /\ t \in Nat /\ u \in Nat
    BY <1>1 DEF kept
  <2>2. UpTo(u) \in SUBSET UpTo(t)
    <3>1. ASSUME NEW v \in UpTo(u) PROVE v \in UpTo(t)
      <4>1. v \in settled /\ v \in Nat /\ v <= u
        BY <1>1, <1>5, <1>6, <2>1, <3>1
      <4>2. v <= t
        BY <2>1, <4>1
      <4> QED BY <1>5, <2>1, <4>1, <4>2
    <3> QED BY <3>1
  <2>3. Rank(u) <= Rank(t)
    BY <1>3, <2>1, <2>2, FS_Subset DEF Rank
  <2>4. Rank(t) + Capacity <= n /\ ~(Rank(u) + Capacity <= n)
    BY <1>4
  <2>5. Rank(u) \in Nat /\ Rank(t) \in Nat
    BY <1>3, <2>1
  <2> QED BY <1>1, <1>2, <2>3, <2>4, <2>5
<1>9. ASSUME kept # {} PROVE n - g <= Capacity
  <2>1. PICK o \in kept : \A u \in kept : o <= u
    <3>1. kept \in SUBSET Nat
      BY <1>1 DEF kept
    <3> QED BY <1>9, <3>1, LeastNatural
  <2>2. o \in settled /\ ~(Rank(o) + Capacity <= n)
    BY <1>4 DEF kept
  <2>3. UpTo(o) \in SUBSET (gone \cup {o})
    <3>1. ASSUME NEW u \in UpTo(o), u \notin gone PROVE u = o
      <4>1. u \in settled /\ u \in Nat /\ o \in Nat /\ u <= o
        BY <1>1, <1>5, <1>6, <2>2, <3>1
      <4>2. o <= u
        BY <2>1, <3>1, <4>1 DEF kept
      <4> QED BY <4>1, <4>2
    <3> QED BY <3>1
  <2>4. /\ IsFiniteSet(gone \cup {o})
        /\ Cardinality(gone \cup {o}) <= g + 1 /\ Cardinality(gone \cup {o}) \in Nat
    <3>1. IsFiniteSet(gone \cup {o}) /\ Cardinality(gone \cup {o}) = IF o \in gone THEN g ELSE g + 1
      BY <1>2, FS_AddElement DEF g
    <3> QED BY <1>2, <3>1
  <2>5. Rank(o) <= Cardinality(gone \cup {o}) /\ Rank(o) \in Nat
    BY <1>3, <2>2, <2>3, <2>4, FS_Subset DEF Rank
  <2> QED BY <1>1, <1>2, <2>2, <2>4, <2>5
<1>10. ASSUME gone # {} PROVE n - g >= Capacity
  <2>1. PICK y \in gone : \A u \in gone : u <= y
    <3>1. \A u \in gone : u \in 0 .. MaxTasks
      <4>1. \A u \in gone : u \in 1 .. MaxTasks
        BY <1>1
      <4> QED BY <1>1, <4>1
    <3> QED BY <1>1, <1>10, <3>1, GreatestBounded
  <2>2. y \in settled /\ Rank(y) + Capacity <= n /\ Rank(y) \in Nat
    BY <1>1, <1>3, <1>4
  <2>3. gone \in SUBSET UpTo(y)
    BY <1>1, <1>5, <2>1, <2>2
  <2>4. g <= Rank(y)
    BY <1>3, <2>2, <2>3, FS_Subset DEF g, Rank
  <2> QED BY <1>1, <1>2, <2>2, <2>4
<1> QED BY <1>7, <1>8, <1>9, <1>10 DEF kept

\* What enqueue drops.
LEMMA EnqueueTrims ==
  ASSUME TaskQueueAssumption, IInv, NEW chunked \in BOOLEAN, Enqueue(chunked)
  PROVE  LET dropped == queue \ queue'
             history == {t \in queue' : status[t] \in Terminal} IN
         /\ \A t \in dropped : status[t] \in Terminal
         /\ \A t \in dropped, u \in history : t < u
         /\ Cardinality(queue') <= Capacity \/ history = {}
         /\ dropped # {} => Cardinality(queue') >= Capacity
<1> DEFINE tasks == queue \cup {count + 1}
           settled == {u \in tasks : status[u] \in Terminal}
           Rank(t) == Cardinality({u \in tasks : u <= t /\ status[u] \in Terminal})
           gone == Gone(tasks, settled)
<1>1. count + 1 \in Id /\ status[count + 1] = "none" /\ tasks \in SUBSET Id
  BY Types DEF Enqueue, IInv, Numbered
<1>2. /\ \A t \in Id : Rank(t) \in Nat
      /\ Cardinality(tasks) \in Nat /\ Capacity \in Nat
  BY <1>1, TasksFinite DEF TaskQueueAssumption
<1>3. \A t \in settled : Rank(t) = Cardinality(Elders(settled, t))
  <2> SUFFICES ASSUME NEW t \in settled
               PROVE  Rank(t) = Cardinality(Elders(settled, t))
    OBVIOUS
  <2>1. Elders(settled, t) = {u \in tasks : u <= t /\ status[u] \in Terminal}
    BY DEF Elders
  <2> QED BY <2>1
<1>4. queue' = tasks \ gone
  <2>1. queue' = {t \in tasks : \/ status[t] \notin Terminal
                                \/ Rank(t) + Capacity > Cardinality(tasks)}
    BY DEF Enqueue, Trimmed
  <2>2. \A t \in tasks : Rank(t) + Capacity > Cardinality(tasks)
                           <=> ~(Rank(t) + Capacity <= Cardinality(tasks))
    <3> HIDE DEF Rank
    <3> QED BY <1>1, <1>2
  <2>3. \A t \in tasks : t \in gone <=> /\ status[t] \in Terminal
                                        /\ Rank(t) + Capacity <= Cardinality(tasks)
    <3> HIDE DEF Rank
    <3> QED BY <1>3 DEF Gone
  <2> HIDE DEF Rank, gone
  <2> QED BY <2>1, <2>2, <2>3
<1>5. count + 1 \notin settled
  BY <1>1 DEF Terminal
<1>6. queue \ queue' = gone /\ {t \in queue' : status[t] \in Terminal} = settled \ gone
  <2>1. gone \subseteq settled
    BY DEF Gone
  <2> HIDE DEF gone
  <2> QED BY <1>4, <1>5, <2>1
<1>7. /\ \A t \in gone, u \in settled \ gone : t < u
      /\ settled \ gone = {} \/ Cardinality(tasks \ gone) <= Capacity
      /\ gone # {} => Cardinality(tasks \ gone) >= Capacity
  <2>1. settled \in SUBSET tasks
    OBVIOUS
  <2> HIDE DEF tasks, settled
  <2> QED BY <1>1, <2>1, OldestGo
<1>8. \A t \in gone : status[t] \in Terminal
  BY DEF Gone
<1> HIDE DEF tasks, settled, gone
<1> QED BY <1>4, <1>6, <1>7, <1>8

\* Enqueueing over the capacity drops settled tasks only, the oldest first, and
\* no more than the excess, for any history.
THEOREM HistoryKeepsNewest == Spec => TrimDropsOldest
<1> DEFINE Trims ==
      \A chunked \in BOOLEAN :
        Enqueue(chunked) =>
          LET dropped == queue \ queue'
              history == {t \in queue' : status[t] \in Terminal} IN
          /\ \A t \in dropped : status[t] \in Terminal
          /\ \A t \in dropped, u \in history : t < u
          /\ Cardinality(queue') <= Capacity \/ history = {}
          /\ dropped # {} => Cardinality(queue') >= Capacity
<1>1. IInv => Trims
  BY EnqueueTrims, TaskQueueAssumption
<1> HIDE DEF Trims
<1>2. IInv /\ [Next]_vars => [Trims]_vars
  BY <1>1
<1>3. [][Trims]_vars => TrimDropsOldest
  BY PTL DEF TrimDropsOldest, Trims
<1> QED BY <1>2, <1>3, AlwaysIInv, PTL DEF Spec

------------------------------------------------------------------------------
\* Why the queue runs dry: what of its liveness needs no fairness.  A task has
\* to be enqueued, started, taken through its units and settled; Ahead is what
\* of that is still to come, as a set of numbers.

Ahead(s, p) ==
  IF s = "none" THEN 0 .. Units + 2
  ELSE IF s = "pending" THEN 1 .. Units + 2
  ELSE IF s = "running" THEN p + 2 .. Units + 2
  ELSE {}

Left == {w \in Id \X (0 .. Units + 2) : w[2] \in Ahead(status[w[1]], progress[w[1]])}

OnlyForward ==
  /\ IsFiniteSet(Left)
  /\ Left' \subseteq Left
  /\ Left' = Left => UNCHANGED <<count, status, progress, stack>>

WorkNeverReturns == [][OnlyForward]_vars

\* There is a bounded amount of work.
LEMMA LeftFinite == ASSUME TaskQueueAssumption PROVE IsFiniteSet(Left)
<1>1. 0 \in Int /\ Units + 2 \in Int /\ 1 \in Int /\ MaxTasks \in Int
  BY DEF TaskQueueAssumption
<1>2. IsFiniteSet(Id) /\ IsFiniteSet(0 .. Units + 2)
  BY <1>1, FS_Interval DEF Id
<1>3. IsFiniteSet(Id \X (0 .. Units + 2))
  BY <1>2, FS_Product
<1>4. Left \in SUBSET (Id \X (0 .. Units + 2))
  BY DEF Left
<1> QED BY <1>3, <1>4, FS_Subset

\* A step that takes one task further and leaves the others alone.
LEMMA OneFurther ==
  ASSUME TaskQueueAssumption, NEW t \in Id,
         \A u \in Id : u # t => status'[u] = status[u] /\ progress'[u] = progress[u],
         Ahead(status'[t], progress'[t]) \subseteq Ahead(status[t], progress[t]),
         NEW k \in 0 .. Units + 2,
         k \in Ahead(status[t], progress[t]), k \notin Ahead(status'[t], progress'[t])
  PROVE  OnlyForward
<1>1. Left' = {w \in Id \X (0 .. Units + 2) : w[2] \in Ahead(status'[w[1]], progress'[w[1]])}
  BY DEF Left
<1>2. \A u \in Id :
        Ahead(status'[u], progress'[u]) \subseteq Ahead(status[u], progress[u])
  OBVIOUS
<1>3. Left' \subseteq Left
  BY <1>1, <1>2 DEF Left
<1>4. <<t, k>> \in Left /\ <<t, k>> \notin Left'
  BY <1>1 DEF Left
<1> QED BY <1>3, <1>4, LeftFinite DEF OnlyForward

\* A step that touches no task.
LEMMA NoneFurther ==
  ASSUME TaskQueueAssumption, UNCHANGED <<count, status, progress, stack>>
  PROVE  OnlyForward
<1>1. Left' = Left
  BY DEF Left
<1> QED BY <1>1, LeftFinite DEF OnlyForward

\* What is ahead of a task in each status.
LEMMA Stages ==
  ASSUME TaskQueueAssumption, NEW p \in 0 .. Units
  PROVE  /\ 0 \in Ahead("none", p) /\ 0 \notin Ahead("pending", p)
         /\ Ahead("pending", p) \subseteq Ahead("none", p)
         /\ 1 \in Ahead("pending", p) /\ 1 \notin Ahead("running", p)
         /\ Ahead("running", p) \subseteq Ahead("pending", p)
         /\ p + 2 \in Ahead("running", p) /\ p + 2 \notin Ahead("running", p + 1)
         /\ Ahead("running", p + 1) \subseteq Ahead("running", p)
         /\ \A s \in Terminal : \A q : Ahead(s, q) = {}
         /\ {0, 1, p + 2} \subseteq 0 .. Units + 2
<1>1. Units \in Nat /\ p \in Nat /\ p <= Units
  BY DEF TaskQueueAssumption
<1> QED BY <1>1 DEF Ahead, Terminal

\* Every step takes a task further or touches none.
LEMMA StepForward ==
  ASSUME TaskQueueAssumption, IInv, [Next]_vars
  PROVE  OnlyForward
<1>1. /\ status \in [Id -> TaskStatus] /\ progress \in [Id -> 0 .. Units]
      /\ cancel \in [Id -> BOOLEAN]
  BY DEF IInv, TypeOK
<1>2. \A t \in Id : progress[t] \in 0 .. Units
  BY <1>1
<1>3. ASSUME NEW chunked \in BOOLEAN, Enqueue(chunked) PROVE OnlyForward
  <2> DEFINE t == count + 1
  <2>1. t \in Id /\ status[t] = "none"
    BY <1>3, Types DEF Enqueue, IInv, Numbered
  <2>2. status' = [status EXCEPT ![t] = "pending"] /\ progress' = progress
    BY <1>3 DEF Enqueue
  <2> HIDE DEF t
  <2>3. status'[t] = "pending" /\ \A u \in Id : u # t => status'[u] = status[u]
    BY <1>1, <2>1, <2>2
  <2> QED BY <1>2, <2>1, <2>2, <2>3, Stages, OneFurther
<1>4. ASSUME NEW t \in Id, progress' = progress,
             \/ status[t] = "pending" /\ status' = [status EXCEPT ![t] = "cancelled"]
             \/ status[t] = "pending" /\ status' = [status EXCEPT ![t] = "running"]
      PROVE  OnlyForward
  <2>1. status'[t] \in {"running", "cancelled"} /\ \A u \in Id : u # t => status'[u] = status[u]
    BY <1>1, <1>4
  <2>2. CASE status'[t] = "running"
    BY <1>2, <1>4, <2>1, <2>2, Stages, OneFurther
  <2>3. CASE status'[t] = "cancelled"
    <3>1. Ahead(status'[t], progress'[t]) = {}
      BY <1>2, <2>3, Stages DEF Terminal
    <3>2. 1 \in Ahead(status[t], progress[t]) /\ 1 \in 0 .. Units + 2
      BY <1>2, <1>4, Stages
    <3> QED BY <1>4, <2>1, <3>1, <3>2, OneFurther
  <2> QED BY <2>1, <2>2, <2>3
<1>5. ASSUME NEW t \in Id, RequestCancel(t) PROVE OnlyForward
  <2>1. CASE status[t] = "pending"
    BY <1>4, <1>5, <2>1 DEF RequestCancel
  <2>2. CASE status[t] # "pending"
    BY <1>5, <2>2, NoneFurther DEF RequestCancel
  <2> QED BY <2>1, <2>2
<1>6. ASSUME NEW t \in Id, FlagCancel(t) PROVE OnlyForward
  BY <1>6, NoneFurther DEF FlagCancel
<1>7. CASE CancelAllPending
  <2> DEFINE P == WithStatus("pending")
  <2>1. /\ progress' = progress /\ count' = count /\ stack' = stack
        /\ status' = [t \in Id |-> IF t \in P THEN "cancelled" ELSE status[t]]
    BY <1>7 DEF CancelAllPending
  <2>2. \A t \in P : t \in Id /\ status[t] = "pending"
    BY DEF WithStatus, IInv, TypeOK
  <2> HIDE DEF P
  <2>3. CASE P = {}
    <3>1. status' = status
      BY <1>1, <2>1, <2>3
    <3> QED BY <2>1, <3>1, NoneFurther
  <2>4. CASE P # {}
    <3>1. PICK t \in P : TRUE
      BY <2>4
    <3>2. \A u \in Id : Ahead(status'[u], progress'[u]) \subseteq Ahead(status[u], progress[u])
      <4> TAKE u \in Id
      <4>1. CASE u \in P
        <5>1. status'[u] \in Terminal
          BY <2>1, <4>1 DEF Terminal
        <5> QED BY <1>2, <5>1, Stages
      <4>2. CASE u \notin P
        BY <2>1, <4>2
      <4> QED BY <4>1, <4>2
    <3>3. Left' = {w \in Id \X (0 .. Units + 2) : w[2] \in Ahead(status'[w[1]], progress'[w[1]])}
      BY DEF Left
    <3>4. Left' \subseteq Left
      BY <3>2, <3>3 DEF Left
    <3>5. t \in Id /\ 1 \in Ahead(status[t], progress[t]) /\ 1 \in 0 .. Units + 2
      BY <1>2, <2>2, <3>1, Stages
    <3>6. status'[t] \in Terminal
      BY <2>1, <3>1, <3>5 DEF Terminal
    <3>7. Ahead(status'[t], progress'[t]) = {}
      BY <1>2, <3>5, <3>6, Stages
    <3>8. <<t, 1>> \in Left /\ <<t, 1>> \notin Left'
      BY <3>3, <3>5, <3>7 DEF Left
    <3> QED BY <3>4, <3>8, LeftFinite DEF OnlyForward
  <2> QED BY <2>3, <2>4
<1>8. ASSUME NEW t \in Id, Execute(t) PROVE OnlyForward
  <2>1. status[t] = "pending" /\ progress' = progress
    BY <1>8 DEF Execute, FirstPending, WithStatus
  <2> QED BY <1>4, <1>8, <2>1 DEF Execute, CancelUnstarted, Start
<1>9. ASSUME NEW t \in Id, RunUnit(t) PROVE OnlyForward
  <2>1. status[t] = "running" /\ status' = status
    BY <1>9, InnermostRuns DEF RunUnit
  <2>2. progress'[t] = progress[t] + 1 /\ \A u \in Id : u # t => progress'[u] = progress[u]
    BY <1>1, <1>9 DEF RunUnit
  <2> QED BY <1>2, <2>1, <2>2, Stages, OneFurther
<1>10. ASSUME NEW t \in Id, RunnerReturns(t) \/ RunnerRaises(t) PROVE OnlyForward
  <2>1. status[t] = "running"
    BY <1>10, InnermostRuns DEF RunnerReturns, RunnerRaises
  <2>2. /\ status'[t] \in Terminal
        /\ \A u \in Id : u # t => status'[u] = status[u] /\ progress'[u] = progress[u]
    BY <1>1, <1>10 DEF RunnerReturns, RunnerRaises, Settle, Terminal
  <2>3. Ahead(status'[t], progress'[t]) = {}
    BY <1>2, <2>2, Stages
  <2>4. progress[t] + 2 \in Ahead(status[t], progress[t]) /\ progress[t] + 2 \in 0 .. Units + 2
    BY <1>2, <2>1, Stages
  <2> QED BY <2>2, <2>3, <2>4, OneFurther
<1>11. CASE PruneTerminal \/ StartRunAll \/ EndRunAll \/ UNCHANGED vars
  BY <1>11, NoneFurther DEF PruneTerminal, StartRunAll, EndRunAll, vars
<1> QED BY <1>3, <1>5, <1>6, <1>7, <1>8, <1>9, <1>10, <1>11
    DEF Next, Call, RunAll, Runner, RunNext, RunAllNext

\* Whatever raises, cancels, prunes or runs the queue from inside: work that is
\* done does not come back, and only a step that touches no task leaves as much
\* of it as there was.  As it is finite, no order of calls keeps the tasks going
\* for ever.
THEOREM WorkRunsOut == Spec => WorkNeverReturns
<1>1. IInv /\ [Next]_vars => OnlyForward
  BY StepForward, TaskQueueAssumption
<1> QED BY <1>1, AlwaysIInv, PTL DEF Spec, WorkNeverReturns
==============================================================================
