------------------------------- MODULE Agent -------------------------------
(***************************************************************************)
(* The life of the process (main.go, and the server of gateway.go): it     *)
(* starts the listener, serves requests, and when a signal comes it        *)
(* cancels the tasks, stops the background services, shuts the server down *)
(* with 30 seconds of patience, closes the log and exits.                  *)
(*                                                                         *)
(* It composes the task manager with the requests and with main, which     *)
(* call its methods.  Of the requests, those matter here that keep a       *)
(* handler busy or act on tasks.                                           *)
(***************************************************************************)
EXTENDS TaskManager

CONSTANT Request \* each a connection with one request

VARIABLES
    main,     \* where main is
    listener, \* "starting", "open", "failed" or "closed"
    signal,   \* a signal is in the channel quit, which has one place
    conn,     \* where the handler of a request is
    drained,  \* Shutdown returned nil: it found no busy connection
    late      \* history: tasks submitted after CancelAll

ownVars == <<main, listener, signal, conn, drained, late>>
agentVars == <<vars, ownVars>>

Running == main # "exited"
Busy == {r \in Request : conn[r] \in {"accepted", "command"}}

\* Everything has been set up; the goroutine of the listener is spawned.
AgentInit ==
    /\ Init
    /\ main = "serving" /\ listener = "starting" /\ signal = FALSE
    /\ conn = [r \in Request |-> "none"]
    /\ drained = FALSE /\ late = {}

-----------------------------------------------------------------------------
\* ListenAndServe; its failure is logged, and main goes on waiting.
Listen ==
    /\ Running /\ listener = "starting"
    /\ listener' \in {"open", "failed"}
    /\ UNCHANGED <<vars, main, signal, conn, drained, late>>

-----------------------------------------------------------------------------
(* Requests *)

Moves(r, from, to) ==
    /\ Running
    /\ conn[r] = from
    /\ conn' = [conn EXCEPT ![r] = to]
    /\ UNCHANGED <<main, listener, signal, drained>>

Accept(r) == listener = "open" /\ Moves(r, "none", "accepted") /\ UNCHANGED <<vars, late>>

\* handleCreateTask, up to its answer.
Create(r) ==
    /\ Moves(r, "accepted", "answered")
    /\ \/ \E t \in TaskId, k \in TimeoutKind :
             /\ Submit(t, k)
             /\ late' = (IF stopping THEN late \cup {t} ELSE late)
       \/ ~Admits /\ UNCHANGED <<vars, late>>

\* handleDeleteTask.
Delete(r) ==
    /\ Moves(r, "accepted", "answered")
    /\ \E t \in TaskId : Cancel(t)
    /\ UNCHANGED late

\* Any other request: answered, or refused, without waiting for anything.
Other(r) == Moves(r, "accepted", "answered") /\ UNCHANGED <<vars, late>>

\* handleExec starts its command, under the context of the request, which
\* neither CancelAll nor Shutdown cancels.
ExecCommand(r) == Moves(r, "accepted", "command") /\ UNCHANGED <<vars, late>>

\* The command ends or is killed at its deadline, if its output pipes do not
\* stay open (see Executor). An answer after the write deadline is lost.
ExecAnswer(r) ==
    /\ \/ Moves(r, "command", "answered")
       \/ Moves(r, "command", "lost")
    /\ UNCHANGED <<vars, late>>

-----------------------------------------------------------------------------
(* Shutdown *)

\* SIGTERM or SIGINT; a second one is dropped while the first is in the channel.
Signal ==
    /\ Running
    /\ signal' = TRUE
    /\ UNCHANGED <<vars, main, listener, conn, drained, late>>

Quit ==
    /\ main = "serving" /\ signal
    /\ main' = "quitting" /\ signal' = FALSE
    /\ UNCHANGED <<vars, listener, conn, drained, late>>

\* A seeded fault: only the tasks whose command runs are cancelled.
CancelTasksRunning ==
    /\ ~stopping
    /\ stopping' = TRUE
    /\ CancelTasks({t \in CancelTargets : status[t] = "running"})

\* tm.CancelAll and svcCancel.
CancelTasksAtExit == CancelAll

StopServices ==
    /\ main = "quitting"
    /\ CancelTasksAtExit
    /\ main' = "stopping"
    /\ UNCHANGED <<listener, signal, conn, drained, late>>

\* A seeded fault: Shutdown waits for the requests, but goes on accepting.
ListenerStaysOpen == listener

ListenerInShutdown == "closed"

\* server.Shutdown closes the listener, which ends ListenAndServe.
BeginShutdown ==
    /\ main = "stopping"
    /\ main' = "shutdown"
    /\ listener' = ListenerInShutdown
    /\ UNCHANGED <<vars, signal, conn, drained, late>>

\* A seeded fault: Shutdown without a deadline.
PatienceEndsNever == FALSE

\* The 30 seconds may be over at any time.
PatienceEnds == TRUE

\* Shutdown returns: nothing is busy, or it has been too long.
EndShutdown ==
    /\ main = "shutdown"
    /\ Busy = {} \/ PatienceEnds
    /\ drained' = (Busy = {})
    /\ main' = "closing"
    /\ UNCHANGED <<vars, listener, signal, conn, late>>

\* wg.Wait, whose goroutine has ended with the listener; the log is closed and
\* the process ends with every goroutine in it. Commands are processes of
\* their own.
Exit ==
    /\ main = "closing"
    /\ main' = "exited"
    /\ UNCHANGED <<vars, listener, signal, conn, drained, late>>

-----------------------------------------------------------------------------
\* The goroutines of the task manager, as long as there is a process.
TaskStep ==
    /\ Running
    /\ \/ \E t \in TaskId :
             \/ Goroutine(t) \/ CtxDeadline(t) \/ Age(t)
             \/ \E code \in {"zero", "nonzero"} : ExecExit(t, code)
       \/ ~stopping /\ Cleanup
    /\ UNCHANGED ownVars

MainStep == Quit \/ StopServices \/ BeginShutdown \/ EndShutdown \/ Exit

RequestStep(r) ==
    Accept(r) \/ Create(r) \/ Delete(r) \/ Other(r) \/ ExecCommand(r) \/ ExecAnswer(r)

AgentNext ==
    \/ MainStep \/ Listen \/ Signal
    \/ \E r \in Request : RequestStep(r)
    \/ TaskStep

\* main runs and the timer of Shutdown fires. Nothing obliges a client, a
\* signal, a command, or the handler that waits for one.
AgentFairness == WF_agentVars(MainStep)

AgentSafeSpec == AgentInit /\ [][AgentNext]_agentVars
AgentSpec == AgentSafeSpec /\ AgentFairness

-----------------------------------------------------------------------------
(* Properties *)

\* The variables keep their types.
AgentTypeOK ==
    /\ TypeOK
    /\ main \in {"serving", "quitting", "stopping", "shutdown",
                 "closing", "exited"}
    /\ listener \in {"starting", "open", "failed", "closed"}
    /\ signal \in BOOLEAN /\ drained \in BOOLEAN
    /\ conn \in [Request -> {"none", "accepted", "command", "answered", "lost"}]
    /\ late \subseteq TaskId

\* A signal ends the process, whatever tasks, commands and clients do, and
\* also when the listener never came up.
ShutdownEnds == main = "serving" /\ signal ~> main = "exited"

\* A command of a task outlives the agent only if it was cancelled and had not
\* ended yet, or if its task came in after CancelAll.
OrphansExplained ==
    main \in {"closing", "exited"} =>
        \A t \in Unfinished : ctx[t] # "live" \/ t \in late

\* Once Shutdown has found nothing busy, no request begins and no task comes in.
DrainedIsQuiet ==
    [][drained => Busy' = {} /\ Submitted' = Submitted]_agentVars

\* "Waits for running tasks, then shuts down the HTTP server."
\* The code does not satisfy this; the README says where it departs.
TasksEnded == main = "exited" => Unfinished = {}

\* CancelAll: "cancels every running task", as a shutdown would have it.
\* The code does not satisfy this; the README says where it departs.
NoLateTask == late = {}

\* An agent that cannot listen ends.
\* The code does not satisfy this; the README says where it departs.
ServesOrExits == listener = "failed" ~> main = "exited"

-----------------------------------------------------------------------------
(* The inductive invariant *)

\* After CancelAll, a task has its context done, or has come in since.
Swept == stopping => \A t \in Unfinished : ctx[t] # "live" \/ t \in late

\* Where main is says whether CancelAll was called and the listener closed.
MainTells ==
    /\ stopping <=> main \notin {"serving", "quitting"}
    /\ main \in {"shutdown", "closing", "exited"} => listener = "closed"

\* A drained server has nothing busy, and nothing can become so.
DrainedTells == drained => Busy = {} /\ main \in {"closing", "exited"}

AgentInv == AgentTypeOK /\ IndInv /\ Swept /\ MainTells /\ DrainedTells
=============================================================================
