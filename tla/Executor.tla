------------------------------ MODULE Executor ------------------------------
(***************************************************************************)
(* One execution of a command (internal/executor/executor.go: Execute,     *)
(* readLimited; executor_sys_unix.go: killProcessTree).                    *)
(*                                                                         *)
(* Execute starts /bin/sh in a process group of its own, lets two          *)
(* goroutines read its output up to a limit, waits for both, then for the  *)
(* shell.  When the context ends, two goroutines act without order: the    *)
(* watcher that exec.CommandContext starts kills the shell, and Execute's  *)
(* own one (the killer) kills the group, found through the pid.  What the  *)
(* operating system and os/exec do (pipes of bounded capacity, zombies,    *)
(* pids used again) is modelled as far as Execute depends on it.           *)
(***************************************************************************)
EXTENDS Naturals

CONSTANTS
    Limit,         \* units of output Execute keeps of each stream
    PipeCap,       \* units a pipe holds
    MaxOut,        \* BOUND on the output of a command
    ChildKinds,    \* the processes a command may leave in the background:
                   \* "none", "holding" the pipes, "quiet" (redirected)
    PidsRecycled,  \* whether a pid is given to another process in time
    Patient        \* whether the deadline leaves the command all the time
                   \* it can use: it passes only when the shell is stuck

ASSUME ExecutorConstants ==
    /\ Limit \in Nat \ {0} /\ PipeCap \in Nat \ {0} /\ MaxOut \in Nat
    /\ ChildKinds \subseteq {"none", "holding", "quiet"}
    /\ PidsRecycled \in BOOLEAN /\ Patient \in BOOLEAN

Stream == {"stdout", "stderr"}

VARIABLES
    wants,    \* how much the shell is going to write to each stream
    code,     \* the exit code it will have, left alone: "zero" or "own"
    child,    \* the kind of the background process
    alive,    \* whether the background process runs
    pc,       \* Execute: "start", "collect", "reaped" (within Wait), "returned"
    ctx,      \* execCtx: "live", "deadline" or "canceled"
    sh,       \* the shell: "none", "running", "exited", "killed"
    pid,      \* what the pid of the shell stands for: "shell" (also a zombie),
              \* "nothing" or "other"
    wrote,    \* how much the shell has written
    got,      \* how much a reader has read
    reader,   \* the readers: "reading" or "done"
    watcher,  \* "none", "waiting", "signalled", "ended"
    killer,   \* "none", "waiting", "ended"
    result,   \* ExecResult: exit code, timeout mark, truncation
    strayed   \* history: another process group was killed

vars == <<wants, code, child, alive, pc, ctx, sh, pid, wrote, got, reader,
          watcher, killer, result, strayed>>

command == <<wants, code, child>>
output == <<wrote, got, reader>>

NoResult == [exit |-> "none", timedOut |-> FALSE, truncated |-> FALSE]

-----------------------------------------------------------------------------
Init ==
    /\ wants \in [Stream -> 0..MaxOut]
    /\ code \in {"zero", "own"}
    /\ child \in ChildKinds
    /\ alive = FALSE
    /\ pc = "start" /\ ctx = "live"
    /\ sh = "none" /\ pid = "nothing"
    /\ wrote = [s \in Stream |-> 0] /\ got = [s \in Stream |-> 0]
    /\ reader = [s \in Stream |-> "done"]
    /\ watcher = "none" /\ killer = "none"
    /\ result = NoResult
    /\ strayed = FALSE

Start ==
    /\ pc = "start"
    /\ ctx = "live"
    /\ pc' = "collect"
    /\ sh' = "running" /\ pid' = "shell"
    /\ alive' = (child # "none")
    /\ reader' = [s \in Stream |-> "reading"]
    /\ watcher' = "waiting" /\ killer' = "waiting"
    /\ UNCHANGED <<command, ctx, wrote, got, result, strayed>>

\* No pipe, no shell, or a context that has ended before.
StartFails ==
    /\ pc = "start"
    /\ pc' = "returned"
    /\ result' = [NoResult EXCEPT !.exit = "minus"]
    /\ ctx' = IF ctx = "live" THEN "canceled" ELSE ctx
    /\ UNCHANGED <<command, alive, sh, pid, output, watcher, killer, strayed>>

-----------------------------------------------------------------------------
(* The command *)

InPipe(s) == wrote[s] - got[s]

ShellWrites(s) ==
    /\ sh = "running"
    /\ wrote[s] < wants[s]
    /\ InPipe(s) < PipeCap
    /\ wrote' = [wrote EXCEPT ![s] = @ + 1]
    /\ UNCHANGED <<command, alive, pc, ctx, sh, pid, got, reader, watcher,
                   killer, result, strayed>>

ShellExits ==
    /\ sh = "running"
    /\ wrote = wants
    /\ sh' = "exited"
    /\ UNCHANGED <<command, alive, pc, ctx, pid, output, watcher, killer,
                   result, strayed>>

ChildExits ==
    /\ alive
    /\ alive' = FALSE
    /\ UNCHANGED <<command, pc, ctx, sh, pid, output, watcher, killer,
                   result, strayed>>

\* Any later process may be given the pid of one that has been waited for.
PidRecycled ==
    /\ PidsRecycled
    /\ pid = "nothing" /\ sh # "none"
    /\ pid' = "other"
    /\ UNCHANGED <<command, alive, pc, ctx, sh, output, watcher, killer,
                   result, strayed>>

-----------------------------------------------------------------------------
(* The context *)

ShellStuck ==
    /\ wrote # wants
    /\ \A s \in Stream : wrote[s] < wants[s] => InPipe(s) = PipeCap /\ reader[s] = "done"

DeadlinePasses ==
    /\ pc # "returned" /\ ctx = "live"
    /\ Patient => sh = "running" /\ ShellStuck
    /\ ctx' = "deadline"
    /\ UNCHANGED <<command, alive, pc, sh, pid, output, watcher, killer,
                   result, strayed>>

\* The client hangs up, or the task is cancelled.
CallerCancels ==
    /\ ~Patient
    /\ pc # "returned" /\ ctx = "live"
    /\ ctx' = "canceled"
    /\ UNCHANGED <<command, alive, pc, sh, pid, output, watcher, killer,
                   result, strayed>>

-----------------------------------------------------------------------------
(* readLimited *)

AtLimit(n) == n >= Limit

ReaderReads(s) ==
    /\ reader[s] = "reading"
    /\ InPipe(s) > 0
    /\ got' = [got EXCEPT ![s] = @ + 1]
    /\ reader' = [reader EXCEPT ![s] = IF AtLimit(got[s] + 1) THEN "done" ELSE @]
    /\ UNCHANGED <<command, alive, pc, ctx, sh, pid, wrote, watcher, killer,
                   result, strayed>>

\* End of file: no process has the other end of the pipe any more.
ReaderEnds(s) ==
    /\ reader[s] = "reading"
    /\ InPipe(s) = 0
    /\ sh # "running"
    /\ ~(alive /\ child = "holding")
    /\ reader' = [reader EXCEPT ![s] = "done"]
    /\ UNCHANGED <<command, alive, pc, ctx, sh, pid, wrote, got, watcher,
                   killer, result, strayed>>

-----------------------------------------------------------------------------
(* The two goroutines that kill *)

Killed == IF sh = "running" THEN "killed" ELSE sh

\* exec.CommandContext: signalling a zombie succeeds, too.
WatcherKills ==
    /\ watcher = "waiting"
    /\ ctx # "live"
    /\ pid = "shell"
    /\ sh' = Killed
    /\ watcher' = "signalled"
    /\ UNCHANGED <<command, alive, pc, ctx, pid, output, killer, result, strayed>>

\* A seeded fault: the shell alone is killed.
GroupAfterKillShellOnly == alive

\* The background process as killing the group leaves it.
GroupAfterKill == FALSE

\* killProcessTree. Once the shell has been waited for, the pid has no group,
\* and Process.Kill does nothing; or it has the group of another process.
KillerKills ==
    /\ killer = "waiting"
    /\ ctx # "live"
    /\ killer' = "ended"
    /\ IF pid = "shell"
         THEN sh' = Killed /\ alive' = GroupAfterKill
         ELSE UNCHANGED <<sh, alive>>
    /\ strayed' = (strayed \/ pid = "other")
    /\ UNCHANGED <<command, pc, ctx, pid, output, watcher, result>>

-----------------------------------------------------------------------------
(* Execute after its readers *)

\* A seeded fault: Wait is called when stdout has been read.
CollectedStdout == reader["stdout"] = "done"

Collected == \A s \in Stream : reader[s] = "done"

\* cmd.Wait gets the shell's exit status and closes the pipes.
Reap ==
    /\ pc = "collect"
    /\ Collected
    /\ sh # "running"
    /\ pc' = "reaped"
    /\ pid' = "nothing"
    /\ reader' = [s \in Stream |-> "done"]
    /\ UNCHANGED <<command, alive, ctx, sh, wrote, got, watcher, killer,
                   result, strayed>>

\* What cmd.Wait returns: nil, an ExitError, or the error of the context
\* when the watcher signalled a shell that had exited with zero.
WaitErr == sh = "killed" \/ code # "zero" \/ watcher = "signalled"

TimedOut == WaitErr /\ ctx = "deadline"

\* A seeded fault: a timeout keeps the exit code of the command.
ExitCodeKept ==
    IF ~WaitErr THEN "zero"
    ELSE IF sh = "exited" /\ code # "zero" THEN "own" ELSE "minus"

ExitCode ==
    IF ~WaitErr THEN "zero"
    ELSE IF sh = "exited" /\ code # "zero" /\ ~TimedOut THEN "own" ELSE "minus"

\* The result, and the deferred cancel.
Return ==
    /\ pc = "reaped"
    /\ pc' = "returned"
    /\ result' = [exit |-> ExitCode, timedOut |-> TimedOut,
                  truncated |-> \E s \in Stream : got[s] = Limit]
    /\ watcher' = IF watcher = "waiting" THEN "ended" ELSE watcher
    /\ ctx' = IF ctx = "live" THEN "canceled" ELSE ctx
    /\ UNCHANGED <<command, alive, sh, pid, output, killer, strayed>>

-----------------------------------------------------------------------------
Next ==
    \/ Start \/ StartFails
    \/ \E s \in Stream : ShellWrites(s) \/ ReaderReads(s) \/ ReaderEnds(s)
    \/ ShellExits \/ ChildExits \/ PidRecycled
    \/ DeadlinePasses \/ CallerCancels
    \/ WatcherKills \/ KillerKills
    \/ Reap \/ Return

SafeSpec == Init /\ [][Next]_vars

\* Goroutines run, and the timer of the context fires. The command and its
\* background process need never end.
Fairness ==
    /\ WF_vars(DeadlinePasses)
    /\ WF_vars(WatcherKills) /\ WF_vars(KillerKills)
    /\ \A s \in Stream : WF_vars(ReaderReads(s) \/ ReaderEnds(s))
    /\ WF_vars(Reap) /\ WF_vars(Return)

Spec == SafeSpec /\ Fairness

-----------------------------------------------------------------------------
(* Properties *)

\* The variables keep their types; no more than the limit is kept in memory.
TypeOK ==
    /\ wants \in [Stream -> 0..MaxOut] /\ wrote \in [Stream -> 0..MaxOut]
    /\ got \in [Stream -> 0..Limit]
    /\ code \in {"zero", "own"} /\ child \in ChildKinds
    /\ alive \in BOOLEAN /\ strayed \in BOOLEAN
    /\ pc \in {"start", "collect", "reaped", "returned"}
    /\ ctx \in {"live", "deadline", "canceled"}
    /\ sh \in {"none", "running", "exited", "killed"}
    /\ pid \in {"shell", "nothing", "other"}
    /\ reader \in [Stream -> {"reading", "done"}]
    /\ watcher \in {"none", "waiting", "signalled", "ended"}
    /\ killer \in {"none", "waiting", "ended"}
    /\ result \in [exit : {"none", "zero", "own", "minus"},
                   timedOut : BOOLEAN, truncated : BOOLEAN]

Ran == pc = "returned" /\ sh # "none"

\* The result agrees with what happened, whichever goroutine was faster: an
\* exit code is the command's own only if it ran to its end, and a timeout is
\* reported only after the deadline, never with an exit code.
OutcomeHonest ==
    Ran =>
        /\ result.exit \in {"zero", "own"} => sh = "exited" /\ result.exit = code
        /\ result.timedOut => ctx = "deadline" /\ result.exit = "minus"
        /\ sh = "killed" => result.exit = "minus"

\* No output of a command that ran to its end is lost without a mark.
OutputComplete == Ran /\ sh = "exited" /\ ~result.truncated => got = wants

\* Execute returns, also when a process of the group holds the pipes open, or
\* nobody reads what the command writes.
ExecuteReturns == pc = "collect" ~> pc = "returned"

\* "The entire process tree is killed on timeout or cancellation": once the
\* killer has acted, no process of the group of a shell that was killed at its
\* deadline is left.
\* The code does not satisfy this; the README says where it departs.
TreeKilled ==
    Ran /\ sh = "killed" /\ result.timedOut /\ killer = "ended" => ~alive

\* "Terminates the command's process group", and no other.
\* The code does not satisfy this; the README says where it departs.
KillsOwnGroup == ~strayed

\* "Output exceeded limit."
\* The code does not satisfy this; the README says where it departs.
TruncatedExceeded == Ran /\ result.truncated => \E s \in Stream : wants[s] > Limit

\* Output beyond the limit is truncated; it is no reason to time out.
\* The code does not satisfy this; the README says where it departs.
LimitOnlyTruncates == Ran => ~result.timedOut

-----------------------------------------------------------------------------
(* The inductive invariant *)

\* The output goes one way: wanted, written, read.
OutputFlows ==
    /\ \A s \in Stream : got[s] <= wrote[s] /\ wrote[s] <= wants[s]
    /\ sh = "exited" => wrote = wants

\* A reader works while Execute collects and the limit is not reached. One that
\* has stopped has reached it, or has all that there will ever be.
ReadersTell ==
    /\ pc = "start" => \A s \in Stream : got[s] = 0
    /\ \A s \in Stream : reader[s] = "reading" => pc = "collect" /\ got[s] < Limit
    /\ \A s \in Stream : sh # "none" /\ reader[s] = "done" =>
          got[s] = Limit \/ (got[s] = wrote[s] /\ sh # "running")

\* The shell and its pid exist while Execute collects, and not longer.
ShellTells ==
    /\ pc = "start" => sh = "none"
    /\ sh = "none" => pc \in {"start", "returned"}
    /\ sh = "running" \/ pid = "shell" => pc = "collect"

IndInv ==
    TypeOK /\ OutputFlows /\ ReadersTell /\ ShellTells /\ OutcomeHonest /\ OutputComplete
=============================================================================
