----------------------------- MODULE ToolRunner -----------------------------
(* One external tool, or the version probe of an interpreter, as the panel   *)
(* runs it on the host's main thread: the runner, the child process and the  *)
(* pipe between them, which the system bounds.                               *)
(*                                                                           *)
(* Lines are counted, not named.  A child decides at its start how much it   *)
(* will print; one that hangs does nothing more by itself.  A child that a   *)
(* failed run leaves behind has nothing more to do with the runner and is    *)
(* forgotten by the next one.                                                *)
EXTENDS Naturals

CONSTANTS PipeSize,   \* lines the pipe holds before a write blocks
          MaxLines,   \* bound: lines a child prints
          Unset       \* no exit code or outcome yet

Outcomes == {"ok", "failed", "raised", "timeout", "refused"}

ASSUME RunnerAssumption ==
  /\ PipeSize \in Nat \ {0} /\ MaxLines \in Nat
  /\ Unset \notin Outcomes

VARIABLES phase,      \* where the runner is
          job,        \* "tool" or "probe"
          timed,      \* the run has a timeout
          child,      \* the process: state, code, stdout, lines due and written
          pipe,       \* lines written and not yet read
          captured,   \* lines the runner has read
          last        \* what the panel's last tool run came to

runnerVars == <<phase, job, timed, child, pipe, captured, last>>

Spawned(due) ==
  [state |-> "running", code |-> Unset, open |-> TRUE, due |-> due, wrote |-> 0]

RunnerInit ==
  /\ phase = "idle" /\ job = "tool" /\ timed = FALSE
  /\ child = [Spawned(0) EXCEPT !.state = "exited", !.open = FALSE]
  /\ pipe = 0 /\ captured = 0
  /\ last = Unset

-----------------------------------------------------------------------------
(* The runner *)

\* No interpreter, an incomplete form, no script, a cancel before the launch,
\* or a spawn that raises: a failed result and no process.
Refuse ==
  /\ phase = "idle"
  /\ last' = "refused"
  /\ UNCHANGED <<phase, job, timed, child, pipe, captured>>

Launched(kind, limit) ==
  /\ phase = "idle"
  /\ job' = kind /\ timed' = limit
  /\ \E due \in 0 .. MaxLines : child' = Spawned(due)
  /\ pipe' = 0 /\ captured' = 0
  /\ UNCHANGED last

\* Mutant of Launch: the runner waits for the exit before it reads.
LaunchWaiting(limit) == Launched("tool", limit) /\ phase' = "waiting"

Launch(limit) == Launched("tool", limit) /\ phase' = "reading"

\* subprocess.run reads and waits at once, under the timeout from its start.
Probe == Launched("probe", TRUE) /\ phase' = "reading"

ReadLine ==
  /\ phase = "reading" /\ pipe > 0
  /\ pipe' = pipe - 1 /\ captured' = captured + 1
  /\ UNCHANGED <<phase, job, timed, child, last>>

\* A line that does not decode, or a log that raises: stdout is closed and
\* the exception becomes a failed result; nobody stops the child.
ReadRaises ==
  /\ phase = "reading" /\ job = "tool" /\ pipe > 0
  /\ phase' = "idle" /\ last' = "raised"
  /\ UNCHANGED <<job, timed, child, pipe, captured>>

\* Mutant of SeeEnd: the loop ends with the process, not with its output.
SeeExit ==
  /\ phase = "reading" /\ child.state = "exited"
  /\ phase' = "waiting"
  /\ UNCHANGED <<job, timed, child, pipe, captured, last>>

SeeEnd ==
  /\ phase = "reading" /\ pipe = 0 /\ ~child.open
  /\ phase' = "waiting"
  /\ UNCHANGED <<job, timed, child, pipe, captured, last>>

Returned(outcome) ==
  /\ phase' = "idle"
  /\ last' = IF job = "tool" THEN outcome ELSE last
  /\ UNCHANGED <<job, timed, child, pipe, captured>>

WaitReturns ==
  /\ phase = "waiting" /\ child.state = "exited"
  /\ Returned(IF child.code = 0 THEN "ok" ELSE "failed")

\* The timeout runs while wait does: for a tool, not before its output ended.
Expire ==
  /\ timed /\ child.state # "exited"
  /\ phase = "waiting" \/ (phase = "reading" /\ job = "probe")
  /\ phase' = "expired"
  /\ UNCHANGED <<job, timed, child, pipe, captured, last>>

\* Mutant of Struck: a signal that a hung process does not act on.
StruckPolitely(c) == IF c.state = "running" THEN [c EXCEPT !.state = "dying"] ELSE c

Struck(c) == IF c.state = "exited" THEN c ELSE [c EXCEPT !.state = "dying"]

\* The child may have exited since the timeout was seen.
Kill ==
  /\ phase = "expired"
  /\ phase' = "killing"
  /\ child' = Struck(child)
  /\ UNCHANGED <<job, timed, pipe, captured, last>>

Reap ==
  /\ phase = "killing" /\ child.state = "exited"
  /\ Returned("timeout")

Runner == ReadLine \/ SeeEnd \/ WaitReturns \/ Expire \/ Kill \/ Reap

-----------------------------------------------------------------------------
(* The child *)

Become(c) == child' = c /\ UNCHANGED <<phase, job, timed, captured, last>>

\* A write blocks while the pipe is full.
Write ==
  /\ child.state = "running" /\ child.open /\ child.wrote < child.due
  /\ phase # "idle" /\ pipe < PipeSize
  /\ pipe' = pipe + 1
  /\ Become([child EXCEPT !.wrote = @ + 1])

Ended(code) == [child EXCEPT !.state = "exited", !.code = code, !.open = FALSE]

\* A write to a pipe nobody reads any more raises in the child.
BrokenPipe ==
  /\ child.state = "running" /\ child.open /\ child.wrote < child.due
  /\ phase = "idle"
  /\ Become(Ended(1)) /\ UNCHANGED pipe

CloseOutput ==
  /\ child.state = "running" /\ child.open /\ child.wrote = child.due
  /\ Become([child EXCEPT !.open = FALSE]) /\ UNCHANGED pipe

Exit(code) ==
  /\ child.state = "running" /\ child.wrote = child.due
  /\ Become(Ended(code)) /\ UNCHANGED pipe

\* A lost connection without a timeout of its own, a prompt, a live lock.
Hang ==
  /\ child.state = "running"
  /\ Become([child EXCEPT !.state = "hung"]) /\ UNCHANGED pipe

\* Somebody ends the process from outside the program.
EndedOutside ==
  /\ child.state \in {"running", "hung"}
  /\ Become(Struck(child)) /\ UNCHANGED pipe

Die ==
  /\ child.state = "dying"
  /\ Become(Ended(137)) /\ UNCHANGED pipe

Child == Write \/ BrokenPipe \/ Die \/ \E code \in {0, 1} : Exit(code)

-----------------------------------------------------------------------------

RunnerNext ==
  \/ Refuse
  \/ \E limit \in BOOLEAN : Launch(limit)
  \/ Probe
  \/ ReadLine
  \/ ReadRaises
  \/ SeeEnd
  \/ WaitReturns
  \/ Expire
  \/ Kill
  \/ Reap
  \/ Write
  \/ BrokenPipe
  \/ CloseOutput
  \/ \E code \in {0, 1} : Exit(code)
  \/ Hang
  \/ EndedOutside
  \/ Die

\* The thread that runs the handler goes on, time passes, and a process that
\* neither hangs nor waits for the pipe goes on as well.  Nothing is assumed
\* of the artist, of hanging, or of anybody ending a process from outside.
RunnerSpec == RunnerInit /\ [][RunnerNext]_runnerVars /\ WF_runnerVars(Runner) /\ WF_runnerVars(Child)

-----------------------------------------------------------------------------
(* Properties *)

\* What the panel is told of a run is how its process ended: a success only
\* after an exit of its own with code 0 and with its whole output read, a
\* failure only after another exit, a timeout only once the process is gone
\* (run_tool, _default_subprocess_runner).
OutcomeIsTheChilds ==
  phase = "idle" /\ job = "tool" =>
    /\ last = "ok" => child.state = "exited" /\ child.code = 0 /\ captured = child.due
    /\ last = "failed" => child.state = "exited" /\ child.code # 0
    /\ last = "timeout" => child.state = "exited"

\* Runner and child never wait for each other: a run ends unless its process
\* hangs, however much that prints (_default_subprocess_runner).
OnlyAHangHolds == phase # "idle" ~> (phase = "idle" \/ child.state = "hung")

\* A timeout ends what it covers, a process that hangs included: the probe from
\* its start, a tool once its output has ended (python_env, tool_runner).
TimeoutEndsWhatItCovers ==
  timed /\ (phase \in {"waiting", "expired", "killing"} \/ job = "probe") /\ phase # "idle"
    ~> phase = "idle"
=============================================================================
