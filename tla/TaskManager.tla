---------------------------- MODULE TaskManager ----------------------------
(***************************************************************************)
(* The asynchronous task manager (internal/taskmanager/taskmanager.go).    *)
(*                                                                         *)
(* POST /tasks calls Submit, which admits a task while runningCount is     *)
(* below maxRunning and spawns one goroutine (runTask) for it; DELETE      *)
(* calls Cancel; a ticker calls cleanup; main calls CancelAll once, when   *)
(* the process is told to stop.  Every method is one critical section of   *)
(* tm.mu, hence one action; runTask has two, with the command in between.  *)
(*                                                                         *)
(* The executor (internal/executor) appears here only as what runTask can  *)
(* observe of it: the command is started or fails to start, and Execute    *)
(* returns with exit code zero or not.                                     *)
(***************************************************************************)
EXTENDS Integers, FiniteSets

CONSTANTS
    TaskId,      \* the identifiers GenerateTaskID will hand out, each once
    MaxRunning,  \* config: task_manager.max_running_tasks
    Cancellable, \* the tasks some client may DELETE
    Detaching    \* the tasks whose command leaves the process group (setsid)
                 \* and holds the output pipes open after the group is killed

\* config.Load fills max_running_tasks with 50 when it is not positive.
ASSUME MaxRunningAssumption == MaxRunning \in Nat \ {0}
ASSUME TaskIdAssumption == IsFiniteSet(TaskId)
ASSUME SubsetsAssumption == Cancellable \subseteq TaskId /\ Detaching \subseteq TaskId

VARIABLES
    tasks,        \* keys of tm.tasks
    status,       \* Task.Status, "none" before Submit
    finished,     \* tasks whose FinishedAt (and Result) is set
    aged,         \* finished tasks older than the retention
    timeout,      \* the timeout the request asked for, see TimeoutKind
    ctx,          \* state of task.ctx: live, canceled, or past its deadline
    pc,           \* where the goroutine of the task is
    exit,         \* exit code of the command: "none" until Execute returns
    runningCount, \* tm.runningCount
    stopping,     \* main has called CancelAll
    released      \* history: <<t, s>> when a cancellation of t, found in
                  \* status s, gave back a slot

vars == <<tasks, status, finished, aged, timeout, ctx, pc, exit,
          runningCount, stopping, released>>

Active   == {"pending", "running"}
Terminal == {"completed", "failed", "killed", "timeout"}
Status   == {"none"} \cup Active \cup Terminal

\* "unset":  no timeout in the request, passed on as 0;
\* "within": at most max_timeout, "beyond": more than max_timeout.
TimeoutKind == {"unset", "within", "beyond"}

PC == {"none", "ready", "started", "executing", "returned", "done"}

Submitted  == {t \in TaskId : status[t] # "none"}
Unfinished == {t \in TaskId : status[t] # "none" /\ t \notin finished}

\* A seeded fault: the kill signals nothing (a wrong group id).
KillableNever(t) == FALSE

\* The executor honours task.ctx: it kills the process group, which ends
\* Execute unless a process outside the group keeps the pipes open.
Killable(t) == t \notin Detaching

-----------------------------------------------------------------------------
Init ==
    /\ tasks = {} /\ finished = {} /\ aged = {} /\ released = {}
    /\ status  = [t \in TaskId |-> "none"]
    /\ timeout = [t \in TaskId |-> "unset"]
    /\ ctx     = [t \in TaskId |-> "live"]
    /\ pc      = [t \in TaskId |-> "none"]
    /\ exit    = [t \in TaskId |-> "none"]
    /\ runningCount = 0
    /\ stopping = FALSE

\* A seeded fault: the test that lets one task too many in.
AdmitsOneMore == runningCount <= MaxRunning

\* Submit's admission test, before anything is created.
Admits == runningCount < MaxRunning

InitialStatus == "pending"

\* context.WithTimeout(ctx, 0) returns a context that has already expired.
InitialCtx(k) == IF k = "unset" THEN "deadline" ELSE "live"

Submit(t, k) ==
    /\ status[t] = "none"
    /\ Admits
    /\ tasks'   = tasks \cup {t}
    /\ status'  = [status EXCEPT ![t] = InitialStatus]
    /\ timeout' = [timeout EXCEPT ![t] = k]
    /\ ctx'     = [ctx EXCEPT ![t] = InitialCtx(k)]
    /\ pc'      = [pc EXCEPT ![t] = "ready"]
    /\ runningCount' = runningCount + 1
    /\ UNCHANGED <<finished, aged, exit, stopping, released>>

-----------------------------------------------------------------------------
(* runTask *)

\* The first critical section: it does not look at the status it overwrites.
RunStart(t) ==
    /\ pc[t] = "ready"
    /\ status' = [status EXCEPT ![t] = "running"]
    /\ pc'     = [pc EXCEPT ![t] = "started"]
    /\ UNCHANGED <<tasks, finished, aged, timeout, ctx, exit, runningCount,
                   stopping, released>>

ExecReturn(t, code) ==
    /\ exit' = [exit EXCEPT ![t] = code]
    /\ pc'   = [pc EXCEPT ![t] = "returned"]
    /\ UNCHANGED <<tasks, status, finished, aged, timeout, ctx, runningCount,
                   stopping, released>>

\* cmd.Start succeeds only under a context that is not done.
ExecStart(t) ==
    /\ pc[t] = "started"
    /\ ctx[t] = "live"
    /\ pc' = [pc EXCEPT ![t] = "executing"]
    /\ UNCHANGED <<tasks, status, finished, aged, timeout, ctx, exit,
                   runningCount, stopping, released>>

\* cmd.Start fails: the context is done, or fork/exec/chdir failed.
ExecStartFails(t) == pc[t] = "started" /\ ExecReturn(t, "nonzero")

\* The command ends by itself, perhaps while it is being killed.
ExecExit(t, code) == pc[t] = "executing" /\ ExecReturn(t, code)

\* The goroutine in Execute sees the context done and kills the group.
ExecKilled(t) ==
    /\ pc[t] = "executing"
    /\ ctx[t] # "live"
    /\ Killable(t)
    /\ ExecReturn(t, "nonzero")

\* Execute caps the timeout at max_timeout: its own deadline passes first.
ExecCapped(t) ==
    /\ pc[t] = "executing"
    /\ timeout[t] = "beyond"
    /\ Killable(t)
    /\ ExecReturn(t, "nonzero")

\* A seeded fault: the outcome that forgets to keep "killed".
FinalStatusForgetsKilled(t) ==
    IF ctx[t] = "deadline" THEN "timeout"
    ELSE IF exit[t] = "zero" THEN "completed"
    ELSE "failed"

\* A seeded fault: the exit code is looked at before the cancellation.
FinalStatusExitFirst(t) ==
    IF exit[t] = "zero" THEN "completed"
    ELSE IF ctx[t] = "deadline" THEN "timeout"
    ELSE IF status[t] = "killed" THEN "killed"
    ELSE "failed"

\* The if/else chain of the second critical section.
FinalStatus(t) ==
    IF ctx[t] = "deadline" THEN "timeout"
    ELSE IF status[t] = "killed" THEN "killed"
    ELSE IF exit[t] = "zero" THEN "completed"
    ELSE "failed"

\* A seeded fault: only a task nobody cancelled gives its slot back.
SlotAtFinishUnlessKilled(t) == IF status[t] = "killed" THEN 0 ELSE 1

\* The slot the second critical section gives back, whatever happened before.
SlotAtFinish(t) == 1

RunFinish(t) ==
    /\ pc[t] = "returned"
    /\ status'   = [status EXCEPT ![t] = FinalStatus(t)]
    /\ finished' = finished \cup {t}
    /\ pc'       = [pc EXCEPT ![t] = "done"]
    /\ runningCount' = runningCount - SlotAtFinish(t)
    /\ UNCHANGED <<tasks, aged, timeout, ctx, exit, stopping, released>>

\* The deadline set by Submit passes. After runTask it has no reader left.
CtxDeadline(t) ==
    /\ pc[t] \notin {"none", "done"}
    /\ ctx[t] = "live"
    /\ ctx' = [ctx EXCEPT ![t] = "deadline"]
    /\ UNCHANGED <<tasks, status, finished, aged, timeout, pc, exit,
                   runningCount, stopping, released>>

-----------------------------------------------------------------------------
(* Cancel, CancelAll and cleanup *)

\* A seeded fault: a task that has ended is cancelled again.
CancelTargetsAny == tasks

\* The tasks a cancellation acts on: in the map and not in a final status.
CancelTargets == {t \in tasks : status[t] \in Active}

\* task.cancel() has no effect on a context that is done.
Canceled(t) == IF ctx[t] = "live" THEN "canceled" ELSE ctx[t]

\* Cancels every task of S and gives back one slot for each.
CancelTasks(S) ==
    /\ ctx'    = [t \in TaskId |-> IF t \in S THEN Canceled(t) ELSE ctx[t]]
    /\ status' = [t \in TaskId |-> IF t \in S THEN "killed" ELSE status[t]]
    /\ runningCount' = runningCount - Cardinality(S)
    /\ released' = released \cup {<<t, status[t]>> : t \in S}
    /\ UNCHANGED <<tasks, finished, aged, timeout, pc, exit>>

\* A Cancel of an unknown or of a finished task changes nothing.
Cancel(t) ==
    /\ t \in Cancellable \cap CancelTargets
    /\ CancelTasks({t})
    /\ UNCHANGED stopping

CancelAll ==
    /\ ~stopping
    /\ stopping' = TRUE
    /\ CancelTasks(CancelTargets)

\* The retention of a finished task passes.
Age(t) ==
    /\ t \in finished \ aged
    /\ aged' = aged \cup {t}
    /\ UNCHANGED <<tasks, status, finished, timeout, ctx, pc, exit,
                   runningCount, stopping, released>>

\* A seeded fault: the age is measured without looking at FinishedAt.
PurgeableUnfinished(t) == status[t] \in Terminal

\* A seeded fault: the sweep spares the tasks that were killed.
PurgeableNotKilled(t) == status[t] \in Terminal \ {"killed"} /\ t \in aged

\* The test of the sweep: a final status, FinishedAt set and before the cutoff.
Purgeable(t) == status[t] \in Terminal /\ t \in finished /\ t \in aged

Cleanup ==
    /\ \E t \in tasks : Purgeable(t)
    /\ tasks' = {t \in tasks : ~Purgeable(t)}
    /\ UNCHANGED <<status, finished, aged, timeout, ctx, pc, exit,
                   runningCount, stopping, released>>

-----------------------------------------------------------------------------
Goroutine(t) ==
    \/ RunStart(t)
    \/ ExecStart(t)
    \/ ExecStartFails(t)
    \/ ExecKilled(t)
    \/ ExecCapped(t)
    \/ RunFinish(t)

Next ==
    \/ \E t \in TaskId :
        \/ \E k \in TimeoutKind : Submit(t, k)
        \/ Goroutine(t)
        \/ \E code \in {"zero", "nonzero"} : ExecExit(t, code)
        \/ CtxDeadline(t)
        \/ Cancel(t)
        \/ Age(t)
    \/ CancelAll
    \/ Cleanup

\* A spawned goroutine is scheduled, deadlines and retentions pass, and the
\* ticker runs until main stops it. Nothing obliges a client to act or a
\* command to end by itself.
Fairness ==
    /\ \A t \in TaskId :
        /\ WF_vars(Goroutine(t))
        /\ WF_vars(CtxDeadline(t))
        /\ WF_vars(Age(t))
    /\ WF_vars(~stopping /\ Cleanup)

SafeSpec == Init /\ [][Next]_vars
Spec == SafeSpec /\ Fairness

-----------------------------------------------------------------------------
(* Properties *)

\* The variables keep their types; a key of the map was submitted.
TypeOK ==
    /\ tasks \subseteq TaskId
    /\ \A t \in tasks : status[t] # "none"
    /\ status \in [TaskId -> Status]
    /\ finished \subseteq TaskId
    /\ aged \subseteq finished
    /\ timeout \in [TaskId -> TimeoutKind]
    /\ ctx \in [TaskId -> {"live", "canceled", "deadline"}]
    /\ pc \in [TaskId -> PC]
    /\ exit \in [TaskId -> {"none", "zero", "nonzero"}]
    /\ runningCount \in Int
    /\ stopping \in BOOLEAN
    /\ released \subseteq TaskId \X Active

\* What runningCount really counts: the tasks whose goroutine has not finished,
\* less one for every cancellation, because Cancel and CancelAll give back a
\* slot that runTask gives back again.
SlotAccounting == runningCount = Cardinality(Unfinished) - Cardinality(released)

\* The admission test bounds the unfinished tasks only up to the slots that
\* cancellations gave back too early: each one lets one more task in.
OvershootBound == Cardinality(Unfinished) <= MaxRunning + Cardinality(released)

\* What max_running_tasks is documented to bound ("concurrent task count").
\* The code does not satisfy this; the README says where it departs.
ConcurrencyBound ==
    Cardinality({t \in TaskId : pc[t] = "executing"}) <= MaxRunning

\* The sweep never forgets a task whose goroutine still has to write to it:
\* GET /tasks/{id} finds every task that has not finished.
CleanupSafe == Unfinished \subseteq tasks

\* The outcome tells the truth: "completed" only when the command exited with
\* zero, "killed" only when someone cancelled the task, "timeout" only when its
\* deadline passed, and "failed" only for a command that did not succeed.
OutcomeHonest ==
    \A t \in finished :
        /\ status[t] = "completed" => exit[t] = "zero" /\ ctx[t] # "deadline"
        /\ status[t] = "killed" => ctx[t] = "canceled"
        /\ status[t] = "timeout" => ctx[t] = "deadline"
        /\ status[t] = "failed" => exit[t] = "nonzero"

\* A cancellation that reached a running task whose deadline had not passed
\* decides its outcome, whatever exit code the command leaves (runTask:
\* "keep killed").
RunningCancelWins ==
    \A t \in finished :
        (<<t, "running">> \in released /\ ctx[t] = "canceled") => status[t] = "killed"

\* What "keep killed" suggests: the same for a cancellation at any moment.
\* The code does not satisfy this; the README says where it departs.
CancelWins ==
    \A t \in finished :
        (\E s \in Active : <<t, s>> \in released) /\ ctx[t] = "canceled"
            => status[t] = "killed"

\* Once a client could read FinishedAt, the outcome of the task never changes.
FinishedStable ==
    [][\A t \in finished : t \in finished' /\ status'[t] = status[t]
                            /\ exit'[t] = exit[t]]_vars

\* A task whose request gave no timeout runs under default_timeout, so it can
\* end in another way than by timeout (gateway: "let executor apply default").
\* The code does not satisfy this; the README says where it departs.
UnsetTimeoutRuns ==
    \A t \in TaskId : timeout[t] = "unset" => status[t] # "timeout"

\* Every admitted task finishes: its command ends, is cancelled, or is killed
\* when its deadline passes. A command that leaves its process group is exempt.
EveryTaskEnds ==
    \A t \in TaskId \ Detaching : (status[t] = "pending" ~> t \in finished)

\* Cancelling a task ends it, whatever its command does ("the entire process
\* tree is killed").
\* The code does not satisfy this; the README says where it departs.
CancelEnds ==
    \A t \in TaskId : status[t] = "killed" ~> t \in finished

\* The map does not grow for ever: what has finished is forgotten, as long as
\* the agent is not stopping.
FinishedForgotten ==
    \A t \in TaskId : t \in finished ~> (t \notin tasks \/ stopping)

\* The abstract life of a task, read off the variables of the task manager.
PhaseOf(t) ==
    IF status[t] = "none" THEN "absent"
    ELSE IF t \notin tasks THEN "forgotten"
    ELSE IF t \in finished THEN "ended"
    ELSE "active"

Lifecycle ==
    INSTANCE TaskLifecycle WITH
        Task    <- TaskId,
        Outcome <- Terminal,
        Killed  <- "killed",
        phase   <- [t \in TaskId |-> PhaseOf(t)],
        outcome <- [t \in TaskId |-> IF t \in finished THEN status[t] ELSE "unknown"],
        asked   <- {t \in TaskId : \E s \in Active : <<t, s>> \in released}

\* The task manager keeps the promise of TaskLifecycle to its clients.
ImplementsLifecycle == Lifecycle!Spec

-----------------------------------------------------------------------------
(* The inductive invariant *)

\* How the status of a task, its goroutine, FinishedAt and the slots given
\* back for it constrain one another.
Coherent(t) ==
    /\ pc[t] = "none" <=> status[t] = "none"
    /\ pc[t] = "done" <=> t \in finished
    /\ pc[t] = "ready" => status[t] \in {"pending", "killed"}
    /\ status[t] = "pending" => pc[t] = "ready"
    /\ status[t] \in {"completed", "failed", "timeout"} => pc[t] = "done"
    /\ pc[t] = "done" => status[t] \in Terminal
    /\ pc[t] = "returned" => exit[t] \in {"zero", "nonzero"}
    /\ <<t, "pending">> \in released => status[t] \notin {"none", "pending"}
    /\ <<t, "running">> \in released =>
          pc[t] \notin {"none", "ready"} /\ status[t] # "running"
    /\ status[t] = "killed" => ctx[t] # "live"
    /\ status[t] = "killed" =>
          <<t, "pending">> \in released \/ <<t, "running">> \in released

\* A slot is free only as far as the count says.
CountBound == runningCount <= MaxRunning

IndInv ==
    /\ TypeOK
    /\ \A t \in TaskId : Coherent(t)
    /\ CleanupSafe
    /\ OutcomeHonest
    /\ RunningCancelWins
    /\ SlotAccounting
    /\ CountBound
=============================================================================
