------------------------- MODULE CompositionProofs -------------------------
(***************************************************************************)
(* Proofs about what is composed with the task manager, for any number of  *)
(* tasks, slots and requests.  Agent: the requests and main keep every     *)
(* theorem about the task manager, shutting down leaves only the commands  *)
(* that OrphansExplained names, and a drained server is quiet.  TaskRead:  *)
(* an answer that races with the task shows no outcome that is not final,  *)
(* and one that begins after the end of the task is exact.                 *)
(***************************************************************************)
EXTENDS Agent, TaskRead, TaskManagerProofs

(***************************************************************************)
(* Agent is a task manager                                                 *)
(***************************************************************************)

\* Every step of the agent is one of the task manager, or leaves it alone.
LEMMA StepComposes == [AgentNext]_agentVars => [Next]_vars
<1> SUFFICES ASSUME [AgentNext]_agentVars PROVE [Next]_vars
  OBVIOUS
<1>1. CASE MainStep
  <2>1. CASE StopServices
    BY <2>1 DEF StopServices, CancelTasksAtExit, Next
  <2> QED BY <1>1, <2>1 DEF MainStep, Quit, BeginShutdown, EndShutdown, Exit
<1>2. CASE Listen \/ Signal
  BY <1>2 DEF Listen, Signal
<1>3. ASSUME NEW r \in Request, RequestStep(r) PROVE [Next]_vars
  <2>1. CASE Create(r)
    BY <2>1 DEF Create, Next
  <2>2. CASE Delete(r)
    BY <2>2 DEF Delete, Next
  <2> QED BY <1>3, <2>1, <2>2 DEF RequestStep, Accept, Other, ExecCommand, ExecAnswer
<1>4. CASE TaskStep
  BY <1>4 DEF TaskStep, Next
<1>5. CASE UNCHANGED agentVars
  BY <1>5 DEF agentVars
<1> QED BY <1>1, <1>2, <1>3, <1>4, <1>5 DEF AgentNext

\* The agent implements the task manager: all that is proved of SafeSpec holds
\* of the agent, whatever requests and main do.
THEOREM AgentRunsTasks == AgentSafeSpec => SafeSpec
<1>1. AgentInit => Init
  BY DEF AgentInit
<1> QED BY <1>1, StepComposes, PTL DEF AgentSafeSpec, SafeSpec

LEMMA TasksInv == IndInv /\ [Next]_vars => IndInv'
BY TypeStep, LocalStep, CountStep DEF IndInv, LocalInv, CountInv

\* What the goroutines of the task manager leave alone.
LEMMA TaskStepKeeps ==
    ASSUME IndInv, TaskStep
    PROVE  /\ UNCHANGED <<ownVars, stopping>>
           /\ Unfinished' \subseteq Unfinished
           /\ Submitted' = Submitted
           /\ \A t \in TaskId : ctx[t] # "live" => ctx'[t] # "live"
<1> USE DEF IndInv, TypeOK, Coherent, Unfinished, Submitted
<1>1. ASSUME NEW t \in TaskId, Goroutine(t)
      PROVE  /\ stopping' = stopping /\ ctx' = ctx /\ Unfinished' \subseteq Unfinished
             /\ Submitted' = Submitted
  <2>1. CASE RunStart(t)
    BY <2>1 DEF RunStart
  <2>2. CASE RunFinish(t)
    <3>1. FinalStatus(t) # "none"
      BY DEF FinalStatus
    <3> QED BY <2>2, <3>1 DEF RunFinish
  <2> QED BY <1>1, <2>1, <2>2
          DEF Goroutine, ExecStart, ExecStartFails, ExecKilled, ExecCapped, ExecReturn
<1>2. ASSUME NEW t \in TaskId, CtxDeadline(t) \/ Age(t)
      PROVE  /\ UNCHANGED <<stopping, status, finished>>
             /\ \A u \in TaskId : ctx[u] # "live" => ctx'[u] # "live"
  BY <1>2 DEF CtxDeadline, Age
<1>3. ASSUME NEW t \in TaskId, NEW code \in {"zero", "nonzero"}, ExecExit(t, code)
      PROVE  UNCHANGED <<stopping, status, finished, ctx>>
  BY <1>3 DEF ExecExit, ExecReturn
<1>4. ASSUME Cleanup
      PROVE  UNCHANGED <<stopping, status, finished, ctx>>
  BY <1>4 DEF Cleanup
<1>5. UNCHANGED ownVars
  BY DEF TaskStep
<1> QED BY <1>1, <1>2, <1>3, <1>4, <1>5 DEF TaskStep

(***************************************************************************)
(* The invariant                                                           *)
(***************************************************************************)

LEMMA AgentInvInit == AgentInit => AgentInv
<1> SUFFICES ASSUME AgentInit PROVE AgentInv
  OBVIOUS
<1>1. Init
  BY DEF AgentInit
<1>2. IndInv
  BY <1>1, TypeInit, LocalInit, CountInit DEF IndInv, LocalInv, CountInv
<1>3. Unfinished = {} /\ Busy = {} /\ ~stopping
  BY <1>1 DEF AgentInit, Init, Unfinished, Busy
<1>4. AgentTypeOK
  BY <1>2 DEF AgentInit, AgentTypeOK, IndInv
<1> QED BY <1>2, <1>3, <1>4 DEF AgentInit, AgentInv, Swept, MainTells, DrainedTells

LEMMA AgentTypeStep ==
    ASSUME AgentTypeOK, TypeOK', [AgentNext]_agentVars
    PROVE  AgentTypeOK'
<1> USE DEF AgentTypeOK
<1>1. CASE MainStep
  BY <1>1 DEF MainStep, Quit, StopServices, BeginShutdown, ListenerInShutdown,
              EndShutdown, Exit
<1>2. CASE Listen \/ Signal
  BY <1>2 DEF Listen, Signal
<1>3. ASSUME NEW r \in Request, RequestStep(r) PROVE AgentTypeOK'
  <2>1. \E to \in {"accepted", "command", "answered", "lost"} :
           conn' = [conn EXCEPT ![r] = to]
    BY <1>3 DEF RequestStep, Accept, Create, Delete, Other, ExecCommand, ExecAnswer, Moves
  <2>2. UNCHANGED <<main, listener, signal, drained>>
    BY <1>3 DEF RequestStep, Accept, Create, Delete, Other, ExecCommand, ExecAnswer, Moves
  <2>3. late' \subseteq TaskId
    BY <1>3 DEF RequestStep, Accept, Create, Delete, Other, ExecCommand, ExecAnswer
  <2> QED BY <2>1, <2>2, <2>3
<1>4. CASE TaskStep
  BY <1>4 DEF TaskStep, ownVars
<1>5. CASE UNCHANGED agentVars
  BY <1>5 DEF agentVars, ownVars
<1> QED BY <1>1, <1>2, <1>3, <1>4, <1>5 DEF AgentNext

\* CancelAll ends the context of every task that has not finished.
LEMMA CancelAllSweeps ==
    ASSUME IndInv, CancelAll
    PROVE  Unfinished' = Unfinished /\ \A t \in Unfinished : ctx'[t] # "live"
<1> USE DEF IndInv, TypeOK, Unfinished
<1>1. \A t \in Unfinished : t \in CancelTargets \/ ctx[t] # "live"
  BY DEF CleanupSafe, Coherent, CancelTargets, Active, Terminal, Status
<1>2. \A t \in CancelTargets : status[t] # "none"
  BY DEF CancelTargets, Active
<1>3. /\ \A t \in TaskId : t \in CancelTargets => ctx'[t] = Canceled(t)
      /\ \A t \in TaskId : t \notin CancelTargets => ctx'[t] = ctx[t]
      /\ \A t \in TaskId : status'[t] = IF t \in CancelTargets THEN "killed" ELSE status[t]
      /\ finished' = finished
  BY DEF CancelAll, CancelTasks
<1>4. \A t \in TaskId : Canceled(t) # "live"
  BY DEF Canceled
<1>5. Unfinished' = Unfinished
  BY <1>2, <1>3
<1> QED BY <1>1, <1>3, <1>4, <1>5

\* What a step of a request does to the tasks.
LEMMA RequestStepKeeps ==
    ASSUME IndInv, NEW r \in Request, RequestStep(r)
    PROVE  /\ stopping' = stopping
           /\ Swept => Swept'
<1> USE DEF IndInv, TypeOK, Unfinished, Swept
<1>1. CASE Create(r)
  <2>1. ASSUME NEW t \in TaskId, NEW k \in TimeoutKind, Submit(t, k),
               late' = (IF stopping THEN late \cup {t} ELSE late)
        PROVE  stopping' = stopping /\ (Swept => Swept')
    <3>1. /\ stopping' = stopping /\ finished' = finished
          /\ \A u \in TaskId \ {t} : status'[u] = status[u] /\ ctx'[u] = ctx[u]
      BY <2>1 DEF Submit
    <3> QED BY <2>1, <3>1
  <2>2. CASE UNCHANGED <<vars, late>>
    BY <2>2 DEF vars
  <2> QED BY <1>1, <2>1, <2>2 DEF Create
<1>2. CASE Delete(r)
  <2>1. PICK t \in TaskId : Cancel(t)
    BY <1>2 DEF Delete
  <2>2. /\ stopping' = stopping /\ finished' = finished /\ late' = late
        /\ \A u \in TaskId \ {t} : status'[u] = status[u] /\ ctx'[u] = ctx[u]
        /\ ctx'[t] = Canceled(t)
    BY <1>2, <2>1 DEF Delete, Cancel, CancelTasks
  <2>3. Canceled(t) # "live"
    BY DEF Canceled
  <2> QED BY <2>2, <2>3
<1>3. CASE Accept(r) \/ Other(r) \/ ExecCommand(r) \/ ExecAnswer(r)
  BY <1>3 DEF Accept, Other, ExecCommand, ExecAnswer, vars
<1> QED BY <1>1, <1>2, <1>3 DEF RequestStep

\* Requests need an open listener or a handler that is busy already.
LEMMA RequestNeeds ==
    ASSUME NEW r \in Request, RequestStep(r)
    PROVE  /\ UNCHANGED <<main, listener, drained>>
           /\ listener = "open" \/ r \in Busy
BY DEF RequestStep, Accept, Create, Delete, Other, ExecCommand, ExecAnswer, Moves, Busy

\* Every step keeps the invariant.
LEMMA AgentStep == AgentInv /\ [AgentNext]_agentVars => AgentInv'
<1> SUFFICES ASSUME AgentInv, [AgentNext]_agentVars PROVE AgentInv'
  OBVIOUS
<1>0. IndInv' /\ AgentTypeOK'
  BY StepComposes, TasksInv, AgentTypeStep DEF AgentInv, IndInv
<1> USE <1>0 DEF AgentInv
<1>1. CASE StopServices
  <2>1. CancelAll /\ main' = "stopping" /\ UNCHANGED <<listener, conn, drained, late>>
    BY <1>1 DEF StopServices, CancelTasksAtExit
  <2>2. Swept' /\ stopping'
    BY <2>1, CancelAllSweeps DEF CancelAll, Swept
  <2>3. ~drained
    BY <1>1 DEF StopServices, DrainedTells
  <2> QED BY <2>1, <2>2, <2>3 DEF MainTells, DrainedTells
<1>2. CASE Quit \/ BeginShutdown \/ EndShutdown \/ Exit
  <2>1. UNCHANGED <<stopping, status, finished, ctx, late, conn>>
    BY <1>2 DEF Quit, BeginShutdown, EndShutdown, Exit, vars
  <2>2. Swept' /\ Busy' = Busy
    BY <2>1 DEF Swept, Unfinished, Busy
  <2>3. MainTells'
    BY <1>2, <2>1 DEF Quit, BeginShutdown, ListenerInShutdown, EndShutdown, Exit, MainTells
  <2>4. DrainedTells'
    BY <1>2, <2>2 DEF Quit, BeginShutdown, EndShutdown, Exit, DrainedTells
  <2> QED BY <2>2, <2>3, <2>4
<1>3. CASE Listen \/ Signal
  <2>1. /\ UNCHANGED <<stopping, status, finished, ctx, late, conn, main, drained>>
        /\ listener' = listener \/ listener = "starting"
    BY <1>3 DEF Listen, Signal, vars
  <2> QED BY <2>1 DEF Swept, Unfinished, Busy, MainTells, DrainedTells
<1>4. ASSUME NEW r \in Request, RequestStep(r) PROVE AgentInv'
  <2>1. MainTells' /\ Swept'
    BY <1>4, RequestStepKeeps, RequestNeeds DEF MainTells
  <2>2. DrainedTells'
    BY <1>4, RequestNeeds DEF MainTells, DrainedTells
  <2> QED BY <2>1, <2>2
<1>5. CASE TaskStep
  <2>1. /\ UNCHANGED <<stopping, late, conn, main, listener, drained>>
        /\ Unfinished' \subseteq Unfinished
        /\ \A t \in TaskId : ctx[t] # "live" => ctx'[t] # "live"
    BY <1>5, TaskStepKeeps DEF ownVars
  <2>2. Swept'
    BY <2>1 DEF Swept, Unfinished
  <2> QED BY <2>1, <2>2 DEF MainTells, DrainedTells, Busy
<1>6. CASE UNCHANGED agentVars
  BY <1>6 DEF agentVars, ownVars, vars, Swept, Unfinished, Busy, MainTells, DrainedTells
<1> QED BY <1>1, <1>2, <1>3, <1>4, <1>5, <1>6 DEF AgentNext, MainStep

\* The inductive invariant holds in every reachable state.
THEOREM AgentInvariance == AgentSafeSpec => []AgentInv
BY AgentInvInit, AgentStep, PTL DEF AgentSafeSpec

\* However many tasks come in around a shutdown, a command outlives the agent
\* only if it was cancelled or its task came in after CancelAll.
THEOREM OrphansAreExplained == AgentSafeSpec => []OrphansExplained
<1>1. AgentInv => OrphansExplained
  BY DEF AgentInv, Swept, MainTells, OrphansExplained
<1> QED BY <1>1, AgentInvariance, PTL

\* Once Shutdown has found nothing busy, no request begins and no task comes in.
THEOREM DrainedStaysQuiet == AgentSafeSpec => DrainedIsQuiet
<1> DEFINE Quiet == drained => Busy' = {} /\ Submitted' = Submitted
<1>1. AgentInv /\ [AgentNext]_agentVars => [Quiet]_agentVars
  <2> SUFFICES ASSUME AgentInv, AgentNext, drained
               PROVE  Busy' = {} /\ Submitted' = Submitted
    OBVIOUS
  <2>1. Busy = {} /\ main \in {"closing", "exited"} /\ listener = "closed"
    BY DEF AgentInv, DrainedTells, MainTells
  <2>2. CASE MainStep \/ Listen \/ Signal
    <3>1. UNCHANGED <<status, conn>>
      BY <2>1, <2>2 DEF MainStep, Quit, StopServices, BeginShutdown, EndShutdown, Exit,
                        Listen, Signal, vars
    <3> QED BY <2>1, <3>1 DEF Busy, Submitted
  <2>3. CASE TaskStep
    BY <2>1, <2>3, TaskStepKeeps DEF AgentInv, ownVars, Busy
  <2>4. ~\E r \in Request : RequestStep(r)
    BY <2>1, RequestNeeds
  <2> QED BY <2>2, <2>3, <2>4 DEF AgentNext
<1> QED BY <1>1, AgentInvariance, PTL DEF AgentSafeSpec, DrainedIsQuiet

(***************************************************************************)
(* Answers that show a live task                                           *)
(***************************************************************************)

\* A reader only takes steps of the task manager.
LEMMA ReadComposes == [ReadNext]_<<vars, readVars>> => [Next]_vars
BY DEF ReadNext, ManagerStep, Get, ReadField, Respond, readVars

\* Reading the live task changes nothing for the task manager: all that is
\* proved of SafeSpec holds under any number of readers' steps.
THEOREM ReadsRunTasks == ReadSpec => SafeSpec
BY ReadComposes, PTL DEF ReadSpec, SafeSpec

LEMMA ReadInvInit == Init /\ ReadInit => ReadInv
<1> SUFFICES ASSUME Init, ReadInit PROVE ReadInv
  OBVIOUS
<1>1. IndInv
  BY TypeInit, LocalInit, CountInit DEF IndInv, LocalInv, CountInv
<1>2. ended \in BOOLEAN
  BY Zenon DEF ReadInit
<1>3. reading = Nobody /\ DOMAIN view = {}
  BY DEF ReadInit, NothingRead
<1> QED BY <1>1, <1>2, <1>3 DEF ReadInv, ReadTypeOK, PointerFinal, EndedExact

\* The words of a task that has finished do not change any more.
LEMMA FieldsFixed ==
    ASSUME IndInv, [Next]_vars, NEW t \in finished, NEW f \in Field
    PROVE  FieldOf(t, f)' = FieldOf(t, f)
BY FinishedFixed DEF FieldOf, IsSet

\* A step of the task manager under a reader that stands still.
LEMMA ReadInvManager ==
    ASSUME ReadInv, [Next]_vars, UNCHANGED <<reading, ended, view>>
    PROVE  ReadInv'
<1>1. IndInv'
  BY TasksInv DEF ReadInv
<1>2. ReadTypeOK'
  BY DEF ReadInv, ReadTypeOK
<1>3. PointerFinal'
  BY FinishedFixed DEF ReadInv, PointerFinal
<1>4. EndedExact'
  <2> SUFFICES ASSUME reading # Nobody, ended
               PROVE  /\ reading \in finished'
                      /\ \A f \in DOMAIN view : view[f] = FieldOf(reading, f)'
    BY DEF EndedExact, FieldOf, IsSet
  <2>1. reading \in finished /\ \A f \in DOMAIN view : view[f] = FieldOf(reading, f)
    BY DEF ReadInv, EndedExact
  <2>2. DOMAIN view \subseteq Field
    BY DEF ReadInv, ReadTypeOK
  <2> QED BY <2>1, <2>2, FinishedFixed, FieldsFixed DEF ReadInv
<1> QED BY <1>1, <1>2, <1>3, <1>4 DEF ReadInv

\* The encoder reads a word: a status that only runTask writes is final.
LEMMA ReadInvField ==
    ASSUME ReadInv, NEW f \in Field, ReadField(f)
    PROVE  ReadInv'
<1>1. /\ reading # Nobody /\ reading \in TaskId
      /\ UNCHANGED <<vars, reading, ended>>
      /\ DOMAIN view' = DOMAIN view \cup {f}
      /\ view'[f] = FieldOf(reading, f)
      /\ \A g \in DOMAIN view : g # f /\ view'[g] = view[g]
  BY DEF ReadField, ReadInv, ReadTypeOK
<1>2. IndInv'
  BY <1>1, TasksInv DEF ReadInv
<1>3. ReadTypeOK'
  BY <1>1 DEF ReadInv, ReadTypeOK
<1>4. \A g : FieldOf(reading, g)' = FieldOf(reading, g)
  BY <1>1 DEF FieldOf, IsSet, vars
<1>5. PointerFinal'
  <2>1. CASE f = "pointer"
    <3>1. view'["pointer"] = status[reading]
      BY <1>1, <2>1 DEF FieldOf
    <3>2. status[reading] \in Terminal \ {"killed"} => reading \in finished
      BY <1>1 DEF ReadInv, IndInv, Coherent, Terminal
    <3> QED BY <1>1, <3>1, <3>2 DEF PointerFinal, vars
  <2>2. CASE f # "pointer"
    BY <1>1, <2>2 DEF ReadInv, PointerFinal, vars
  <2> QED BY <2>1, <2>2
<1>6. EndedExact'
  <2> SUFFICES ASSUME ended
               PROVE  /\ reading \in finished'
                      /\ \A g \in DOMAIN view' : view'[g] = FieldOf(reading, g)
    BY <1>1, <1>4 DEF EndedExact
  <2>1. reading \in finished /\ \A g \in DOMAIN view : view[g] = FieldOf(reading, g)
    BY <1>1 DEF ReadInv, EndedExact
  <2> QED BY <1>1, <2>1 DEF vars
<1> QED BY <1>2, <1>3, <1>5, <1>6 DEF ReadInv

\* Between two answers there is nothing to know, and Get looks the task up.
LEMMA ReadInvStarts ==
    ASSUME ReadInv, Respond \/ \E t \in TaskId : Get(t)
    PROVE  ReadInv'
<1>1. /\ view' = NothingRead /\ DOMAIN view' = {} /\ UNCHANGED vars
      /\ \/ reading' = Nobody
         \/ reading' \in TaskId
  BY DEF Respond, Get, NothingRead
<1>2. ended' \in BOOLEAN
  <2>1. CASE Respond
    BY <2>1, Zenon DEF Respond
  <2>2. ASSUME NEW t \in TaskId, Get(t) PROVE ended' \in BOOLEAN
    <3>1. ended' = (t \in finished)
      BY <2>2 DEF Get
    <3>2. (t \in finished) \in BOOLEAN
      OBVIOUS
    <3> QED BY ONLY <3>1, <3>2
  <2> QED BY <2>1, <2>2
<1>3. reading' # Nobody /\ ended' => reading' \in finished'
  BY DEF Respond, Get, vars
<1>4. IndInv'
  BY <1>1, TasksInv DEF ReadInv
<1> QED BY <1>1, <1>2, <1>3, <1>4 DEF ReadInv, ReadTypeOK, PointerFinal, EndedExact, vars

\* The inductive invariant holds in every reachable state.
THEOREM ReadInvariance == ReadSpec => []ReadInv
<1>1. ReadInv /\ [ReadNext]_<<vars, readVars>> => ReadInv'
  <2> SUFFICES ASSUME ReadInv, [ReadNext]_<<vars, readVars>> PROVE ReadInv'
    OBVIOUS
  <2>1. CASE ManagerStep
    BY <2>1, ReadInvManager DEF ManagerStep
  <2>2. CASE UNCHANGED <<vars, readVars>>
    BY <2>2, ReadInvManager DEF readVars
  <2> QED BY <2>1, <2>2, ReadInvField, ReadInvStarts DEF ReadNext
<1> QED BY <1>1, ReadInvInit, PTL DEF ReadSpec

\* If the answer shows an outcome that only runTask writes, the task has ended
\* with that outcome, although the body may still lack the result.
THEOREM ShownOutcomesAreFinal == ReadSpec => []ShownOutcomeIsFinal
<1>1. ReadInv => ShownOutcomeIsFinal
  <2> SUFFICES ASSUME ReadInv, Encoded, Shown.status \in Terminal \ {"killed"}
               PROVE  reading \in finished /\ status[reading] = Shown.status
    BY DEF ShownOutcomeIsFinal
  <2>1. Shown.status = view["pointer"]
    BY DEF Shown, Terminal
  <2> QED BY <2>1 DEF ReadInv, PointerFinal, Encoded, Field
<1> QED BY <1>1, ReadInvariance, PTL

\* An answer to a request that begins after the task has ended is its final
\* state, even if the sweep forgets the task meanwhile.
THEOREM LateGetsAreExact == ReadSpec => []LateGetExact
<1>1. ReadInv => LateGetExact
  <2> SUFFICES ASSUME ReadInv, Encoded, ended
               PROVE  Shown = Snapshot(reading) /\ Shown.finished = "set"
    BY DEF LateGetExact
  <2>1. reading \in finished /\ \A f \in Field : view[f] = FieldOf(reading, f)
    BY DEF ReadInv, EndedExact, Encoded
  <2>2. /\ view["pointer"] = status[reading]
        /\ view["length"] = StatusLength(status[reading])
        /\ view["result"] = "set" /\ view["finished"] = "set"
    BY <2>1 DEF Field, FieldOf, IsSet
  <2>3. IsSet(reading) = "set"
    BY <2>1 DEF IsSet
  <2> QED BY <2>2, <2>3 DEF Shown, Snapshot
<1> QED BY <1>1, ReadInvariance, PTL
=============================================================================
