------------------------- MODULE TaskManagerProofs -------------------------
(***************************************************************************)
(* Proofs that the invariants of TaskManager hold for every set of tasks   *)
(* and every max_running_tasks.                                            *)
(*                                                                         *)
(* The invariant IndInv is kept by every action in three layers: types,    *)
(* the per-task facts Coherent (with the outcome properties, which only    *)
(* depend on one task), and the counting facts, which need cardinalities.  *)
(***************************************************************************)
EXTENDS TaskManager, FiniteSetTheorems, FunctionTheorems, TLAPS

(***************************************************************************)
(* Types                                                                   *)
(***************************************************************************)

\* The sets the counter is compared with are finite.
LEMMA FiniteSubsetsOfTasks ==
    ASSUME TypeOK
    PROVE  /\ IsFiniteSet(Unfinished) /\ Cardinality(Unfinished) \in Nat
           /\ IsFiniteSet(released) /\ Cardinality(released) \in Nat
           /\ \A S \in SUBSET TaskId : IsFiniteSet(S) /\ Cardinality(S) \in Nat
<1>1. \A S \in SUBSET TaskId : IsFiniteSet(S) /\ Cardinality(S) \in Nat
  BY TaskIdAssumption, FS_Subset, FS_CardinalityType
<1>2. IsFiniteSet(Active)
  <2>1. IsFiniteSet({"pending"})
    BY FS_Singleton
  <2>2. IsFiniteSet({"pending"} \cup {"running"})
    BY <2>1, FS_AddElement
  <2>3. Active = {"pending"} \cup {"running"}
    BY DEF Active
  <2> QED BY <2>2, <2>3
<1>3. IsFiniteSet(TaskId \X Active)
  BY <1>2, TaskIdAssumption, FS_Product
<1>4. released \subseteq TaskId \X Active
  BY DEF TypeOK
<1>5. IsFiniteSet(released) /\ Cardinality(released) \in Nat
  BY <1>3, <1>4, FS_Subset, FS_CardinalityType
<1>6. Unfinished \in SUBSET TaskId
  BY DEF Unfinished
<1> QED BY <1>1, <1>5, <1>6

LEMMA TypeInit == Init => TypeOK
<1> SUFFICES ASSUME Init PROVE TypeOK
  OBVIOUS
<1>1. stopping \in BOOLEAN
  BY Zenon DEF Init
<1>2. "none" \in Status /\ "none" \in PC /\ "unset" \in TimeoutKind
  BY DEF Status, PC, TimeoutKind
<1>3. /\ status \in [TaskId -> Status] /\ pc \in [TaskId -> PC]
      /\ timeout \in [TaskId -> TimeoutKind]
      /\ ctx \in [TaskId -> {"live", "canceled", "deadline"}]
      /\ exit \in [TaskId -> {"none", "zero", "nonzero"}]
  BY <1>2 DEF Init
<1> QED BY <1>1, <1>3 DEF Init, TypeOK

LEMMA TypeStep == TypeOK /\ [Next]_vars => TypeOK'
<1> SUFFICES ASSUME TypeOK, [Next]_vars PROVE TypeOK'
  OBVIOUS
<1> USE DEF TypeOK, Status, Active, Terminal, TimeoutKind, PC
<1>1. ASSUME NEW t \in TaskId, NEW k \in TimeoutKind, Submit(t, k) PROVE TypeOK'
  BY <1>1 DEF Submit, InitialStatus, InitialCtx
<1>2. ASSUME NEW t \in TaskId, Goroutine(t) PROVE TypeOK'
  <2>1. CASE RunStart(t)       BY <2>1 DEF RunStart
  <2>2. CASE ExecStart(t)      BY <2>2 DEF ExecStart
  <2>3. CASE ExecStartFails(t) BY <2>3 DEF ExecStartFails, ExecReturn
  <2>4. CASE ExecKilled(t)     BY <2>4 DEF ExecKilled, ExecReturn
  <2>5. CASE ExecCapped(t)     BY <2>5 DEF ExecCapped, ExecReturn
  <2>6. CASE RunFinish(t)
    <3>1. FinalStatus(t) \in Status \ {"none"}
      BY DEF FinalStatus
    <3> QED BY <2>6, <3>1 DEF RunFinish, SlotAtFinish
  <2> QED BY <1>2, <2>1, <2>2, <2>3, <2>4, <2>5, <2>6 DEF Goroutine
<1>3. ASSUME NEW t \in TaskId, NEW code \in {"zero", "nonzero"}, ExecExit(t, code)
      PROVE  TypeOK'
  BY <1>3 DEF ExecExit, ExecReturn
<1>4. ASSUME NEW t \in TaskId, CtxDeadline(t) PROVE TypeOK'
  BY <1>4 DEF CtxDeadline
<1>5. ASSUME NEW S, S \subseteq CancelTargets, CancelTasks(S), stopping' \in BOOLEAN
      PROVE  TypeOK'
  <2>1. S \in SUBSET TaskId
    BY <1>5 DEF CancelTargets
  <2>2. Cardinality(S) \in Nat
    BY <2>1, FiniteSubsetsOfTasks
  <2>3. \A t \in TaskId : Canceled(t) \in {"live", "canceled", "deadline"}
    BY DEF Canceled
  <2>4. {<<t, status[t]>> : t \in S} \subseteq TaskId \X Active
    BY <1>5, <2>1 DEF CancelTargets
  <2>5. released' \subseteq TaskId \X Active
    BY <1>5, <2>4 DEF CancelTasks
  <2>6. runningCount' \in Int
    BY <1>5, <2>2 DEF CancelTasks
  <2> QED BY <1>5, <2>3, <2>5, <2>6 DEF CancelTasks
<1>6. ASSUME NEW t \in TaskId, Cancel(t) PROVE TypeOK'
  BY <1>5, <1>6 DEF Cancel
<1>7. CASE CancelAll
  BY <1>5, <1>7 DEF CancelAll
<1>8. ASSUME NEW t \in TaskId, Age(t) PROVE TypeOK'
  BY <1>8 DEF Age
<1>9. CASE Cleanup
  BY <1>9 DEF Cleanup
<1>10. CASE UNCHANGED vars
  BY <1>10 DEF vars
<1> QED BY <1>1, <1>2, <1>3, <1>4, <1>6, <1>7, <1>8, <1>9, <1>10 DEF Next

\* The variables keep their types.
THEOREM TypeCorrect == SafeSpec => []TypeOK
<1>1. Init => TypeOK
  BY TypeInit
<1>2. TypeOK /\ [Next]_vars => TypeOK'
  BY TypeStep
<1> QED BY <1>1, <1>2, PTL DEF SafeSpec

(***************************************************************************)
(* The per-task facts                                                      *)
(***************************************************************************)

LocalInv ==
    /\ \A t \in TaskId : Coherent(t)
    /\ CleanupSafe
    /\ OutcomeHonest
    /\ RunningCancelWins

LEMMA LocalInit == Init => LocalInv
BY DEF Init, LocalInv, Coherent, CleanupSafe, OutcomeHonest, RunningCancelWins,
       Unfinished, Terminal

\* Execute returns.
LEMMA LocalReturn ==
    ASSUME TypeOK, LocalInv, NEW t \in TaskId, pc[t] \in {"started", "executing"},
           NEW code \in {"zero", "nonzero"}, ExecReturn(t, code)
    PROVE  LocalInv'
<1>1. /\ pc' = [pc EXCEPT ![t] = "returned"]
      /\ exit' = [exit EXCEPT ![t] = code]
      /\ UNCHANGED <<tasks, status, finished, ctx, released>>
  BY DEF ExecReturn
<1>2. t \notin finished /\ status[t] # "none" /\ status[t] # "pending"
  BY DEF LocalInv, Coherent
<1>3. \A u \in TaskId : Coherent(u)'
  BY <1>1, <1>2 DEF LocalInv, Coherent, TypeOK
<1>4. CleanupSafe' /\ OutcomeHonest' /\ RunningCancelWins'
  BY <1>1, <1>2 DEF LocalInv, CleanupSafe, OutcomeHonest, RunningCancelWins,
                    Unfinished, TypeOK
<1> QED BY <1>3, <1>4 DEF LocalInv

\* The command starts; its deadline passes.
LEMMA LocalExec ==
    ASSUME TypeOK, LocalInv, NEW t \in TaskId, ExecStart(t) \/ CtxDeadline(t)
    PROVE  LocalInv'
<1> USE DEF TypeOK, LocalInv, Coherent, CleanupSafe, OutcomeHonest,
            RunningCancelWins, Unfinished
<1>1. CASE ExecStart(t)
  BY <1>1 DEF ExecStart
<1>2. CASE CtxDeadline(t)
  <2>1. /\ ctx' = [ctx EXCEPT ![t] = "deadline"]
        /\ UNCHANGED <<tasks, status, finished, pc, exit, released>>
    BY <1>2 DEF CtxDeadline
  <2>2. t \notin finished
    BY <1>2 DEF CtxDeadline
  <2>3. \A u \in TaskId : Coherent(u)'
    BY <2>1
  <2>4. CleanupSafe' /\ OutcomeHonest' /\ RunningCancelWins'
    BY <2>1, <2>2
  <2> QED BY <2>3, <2>4
<1> QED BY <1>1, <1>2

LEMMA LocalSubmit ==
    ASSUME TypeOK, LocalInv, NEW t \in TaskId, NEW k \in TimeoutKind, Submit(t, k)
    PROVE  LocalInv'
<1>1. /\ status[t] = "none" /\ pc[t] = "none" /\ t \notin finished
      /\ <<t, "pending">> \notin released /\ <<t, "running">> \notin released
  BY DEF Submit, LocalInv, Coherent
<1>2. /\ tasks' = tasks \cup {t}
      /\ status' = [status EXCEPT ![t] = "pending"]
      /\ pc' = [pc EXCEPT ![t] = "ready"]
      /\ UNCHANGED <<finished, exit, released>>
      /\ \A u \in TaskId \ {t} : ctx'[u] = ctx[u]
  BY DEF Submit, InitialStatus, TypeOK
<1>3. Coherent(t)'
  BY <1>1, <1>2 DEF Coherent, TypeOK
<1>4. ASSUME NEW u \in TaskId \ {t} PROVE Coherent(u)'
  BY <1>2, <1>4 DEF LocalInv, Coherent, TypeOK
<1>5. CleanupSafe'
  BY <1>2 DEF LocalInv, CleanupSafe, Unfinished, TypeOK
<1>6. OutcomeHonest' /\ RunningCancelWins'
  BY <1>1, <1>2 DEF LocalInv, OutcomeHonest, RunningCancelWins, TypeOK
<1> QED BY <1>3, <1>4, <1>5, <1>6 DEF LocalInv

LEMMA LocalStart ==
    ASSUME TypeOK, LocalInv, NEW t \in TaskId, RunStart(t)
    PROVE  LocalInv'
<1>1. /\ pc[t] = "ready" /\ status[t] # "none" /\ t \notin finished
      /\ <<t, "running">> \notin released
  BY DEF RunStart, LocalInv, Coherent
<1>2. /\ status' = [status EXCEPT ![t] = "running"]
      /\ pc' = [pc EXCEPT ![t] = "started"]
      /\ UNCHANGED <<tasks, finished, ctx, exit, released>>
  BY DEF RunStart
<1>3. Coherent(t)'
  BY <1>1, <1>2 DEF Coherent, TypeOK
<1>4. ASSUME NEW u \in TaskId \ {t} PROVE Coherent(u)'
  BY <1>2, <1>4 DEF LocalInv, Coherent, TypeOK
<1>5. CleanupSafe'
  BY <1>1, <1>2 DEF LocalInv, CleanupSafe, Unfinished, TypeOK
<1>6. OutcomeHonest' /\ RunningCancelWins'
  BY <1>1, <1>2 DEF LocalInv, OutcomeHonest, RunningCancelWins, TypeOK
<1> QED BY <1>3, <1>4, <1>5, <1>6 DEF LocalInv

LEMMA LocalFinish ==
    ASSUME TypeOK, LocalInv, NEW t \in TaskId, RunFinish(t)
    PROVE  LocalInv'
<1>1. FinalStatus(t) \in Terminal
  BY DEF FinalStatus, Terminal
<1>2. /\ FinalStatus(t) = "completed" => exit[t] = "zero" /\ ctx[t] # "deadline"
      /\ FinalStatus(t) = "killed" => ctx[t] = "canceled"
      /\ FinalStatus(t) = "timeout" => ctx[t] = "deadline"
      /\ FinalStatus(t) = "failed" => exit[t] = "nonzero"
  BY DEF FinalStatus, RunFinish, LocalInv, Coherent, TypeOK
<1>3. (<<t, "running">> \in released /\ ctx[t] = "canceled")
         => FinalStatus(t) = "killed"
  BY DEF FinalStatus, RunFinish, LocalInv, Coherent, TypeOK, Status, Active, Terminal
<1>4. /\ status' = [status EXCEPT ![t] = FinalStatus(t)]
      /\ pc' = [pc EXCEPT ![t] = "done"]
      /\ finished' = finished \cup {t}
      /\ pc[t] = "returned"
      /\ UNCHANGED <<tasks, ctx, exit, released>>
  BY DEF RunFinish
<1>5. \A u \in TaskId : Coherent(u)'
  <2>1. FinalStatus(t) = "killed" =>
           <<t, "pending">> \in released \/ <<t, "running">> \in released
    BY DEF FinalStatus, LocalInv, Coherent
  <2>2. Coherent(t)'
    BY <1>1, <1>2, <1>4, <2>1 DEF LocalInv, Coherent, TypeOK, Terminal
  <2>3. \A u \in TaskId \ {t} : Coherent(u)'
    BY <1>4 DEF LocalInv, Coherent, TypeOK
  <2> QED BY <2>2, <2>3
<1>6. CleanupSafe'
  BY <1>1, <1>4 DEF LocalInv, Coherent, TypeOK, CleanupSafe, Unfinished
<1>7. OutcomeHonest'
  BY <1>2, <1>4 DEF LocalInv, TypeOK, OutcomeHonest
<1>8. RunningCancelWins'
  BY <1>3, <1>4 DEF LocalInv, TypeOK, RunningCancelWins
<1> QED BY <1>5, <1>6, <1>7, <1>8 DEF LocalInv

LEMMA LocalCancel ==
    ASSUME TypeOK, LocalInv, NEW S, S \subseteq CancelTargets, CancelTasks(S)
    PROVE  LocalInv'
<1>1. \A t \in S : /\ t \in tasks /\ t \in TaskId
                   /\ status[t] \in {"pending", "running"}
                   /\ t \notin finished
  BY DEF CancelTargets, Active, LocalInv, Coherent, TypeOK, Terminal
<1>2. \A t \in TaskId : \A s :
         <<t, s>> \in released' <=> <<t, s>> \in released \/ (t \in S /\ s = status[t])
  BY DEF CancelTasks
<1>3. /\ status' = [t \in TaskId |-> IF t \in S THEN "killed" ELSE status[t]]
      /\ ctx' = [t \in TaskId |-> IF t \in S THEN Canceled(t) ELSE ctx[t]]
      /\ UNCHANGED <<tasks, finished, pc, exit>>
  BY DEF CancelTasks
<1>4. \A t \in TaskId : Canceled(t) # "live"
  BY DEF Canceled
<1>5. \A t \in TaskId : Coherent(t)'
  <2> SUFFICES ASSUME NEW t \in TaskId PROVE Coherent(t)'
    OBVIOUS
  <2>1. CASE t \in S
    <3>1. status'[t] = "killed" /\ ctx'[t] # "live"
      BY <1>3, <1>4, <2>1
    <3>2. pc'[t] = pc[t] /\ exit'[t] = exit[t]
      BY <1>3
    <3>3. pc[t] # "none" /\ pc[t] # "done" /\ t \notin finished'
      BY <1>1, <1>3, <2>1 DEF LocalInv, Coherent
    <3>4. <<t, "running">> \in released' => pc[t] \notin {"none", "ready"}
      <4>1. CASE <<t, "running">> \in released
        BY <4>1 DEF LocalInv, Coherent
      <4>2. CASE status[t] = "running"
        BY <4>2 DEF LocalInv, Coherent
      <4> QED BY <1>2, <4>1, <4>2
    <3>5. <<t, "pending">> \in released' \/ <<t, "running">> \in released'
      BY <1>1, <1>2, <2>1
    <3>6. pc[t] # "returned" \/ exit[t] \in {"zero", "nonzero"}
      BY <1>1, <2>1 DEF LocalInv, Coherent
    <3> QED BY <3>1, <3>2, <3>3, <3>4, <3>5, <3>6 DEF Coherent
  <2>2. CASE t \notin S
    <3>1. /\ status'[t] = status[t] /\ ctx'[t] = ctx[t] /\ pc'[t] = pc[t]
          /\ exit'[t] = exit[t] /\ finished' = finished
          /\ \A s : <<t, s>> \in released' <=> <<t, s>> \in released
      BY <1>2, <1>3, <2>2
    <3> QED BY <3>1 DEF LocalInv, Coherent
  <2> QED BY <2>1, <2>2
<1>6. CleanupSafe'
  BY <1>1, <1>3 DEF LocalInv, CleanupSafe, Unfinished, TypeOK
<1>7. OutcomeHonest' /\ RunningCancelWins'
  BY <1>1, <1>2, <1>3 DEF LocalInv, OutcomeHonest, RunningCancelWins, TypeOK
<1> QED BY <1>5, <1>6, <1>7 DEF LocalInv

LEMMA LocalCleanup ==
    ASSUME TypeOK, LocalInv, Cleanup
    PROVE  LocalInv'
<1>1. /\ tasks' = {t \in tasks : ~Purgeable(t)}
      /\ UNCHANGED <<status, finished, ctx, pc, exit, released>>
  BY DEF Cleanup
<1>2. CleanupSafe'
  BY <1>1 DEF LocalInv, CleanupSafe, Unfinished, Purgeable
<1>3. \A t \in TaskId : Coherent(t)'
  BY <1>1 DEF LocalInv, Coherent
<1>4. OutcomeHonest' /\ RunningCancelWins'
  BY <1>1 DEF LocalInv, OutcomeHonest, RunningCancelWins
<1> QED BY <1>2, <1>3, <1>4 DEF LocalInv

LEMMA LocalStep == TypeOK /\ LocalInv /\ [Next]_vars => LocalInv'
<1> SUFFICES ASSUME TypeOK, LocalInv, [Next]_vars PROVE LocalInv'
  OBVIOUS
<1>1. ASSUME NEW t \in TaskId, Goroutine(t) PROVE LocalInv'
  BY <1>1, LocalStart, LocalExec, LocalReturn, LocalFinish
     DEF Goroutine, ExecStartFails, ExecKilled, ExecCapped
<1>2. ASSUME NEW t \in TaskId, NEW code \in {"zero", "nonzero"}, ExecExit(t, code)
      PROVE  LocalInv'
  BY <1>2, LocalReturn DEF ExecExit
<1>3. ASSUME NEW t \in TaskId, Cancel(t) PROVE LocalInv'
  BY <1>3, LocalCancel DEF Cancel
<1>4. CASE CancelAll
  BY <1>4, LocalCancel DEF CancelAll
<1>5. ASSUME NEW t \in TaskId, Age(t) PROVE LocalInv'
  BY <1>5 DEF Age, LocalInv, Coherent, CleanupSafe, OutcomeHonest,
              RunningCancelWins, Unfinished
<1>6. CASE UNCHANGED vars
  BY <1>6 DEF vars, LocalInv, Coherent, CleanupSafe, OutcomeHonest,
              RunningCancelWins, Unfinished
<1> QED BY <1>1, <1>2, <1>3, <1>4, <1>5, <1>6, LocalSubmit, LocalExec,
           LocalCleanup DEF Next

(***************************************************************************)
(* The count                                                               *)
(***************************************************************************)

CountInv == SlotAccounting /\ CountBound

LEMMA CountInit == Init => CountInv
<1> SUFFICES ASSUME Init PROVE CountInv
  OBVIOUS
<1>1. Unfinished = {} /\ released = {} /\ runningCount = 0
  BY DEF Init, Unfinished
<1>2. Cardinality({}) = 0
  BY FS_EmptySet
<1> QED BY <1>1, <1>2, MaxRunningAssumption DEF CountInv, SlotAccounting, CountBound

\* An admission adds one task that has not finished.
LEMMA CountSubmit ==
    ASSUME TypeOK, LocalInv, CountInv,
           NEW t \in TaskId, NEW k \in TimeoutKind, Submit(t, k)
    PROVE  CountInv'
<1>1. t \notin finished
  BY DEF Submit, LocalInv, Coherent
<1>2. Unfinished' = Unfinished \cup {t} /\ t \notin Unfinished
  BY <1>1 DEF Submit, InitialStatus, Unfinished, TypeOK
<1>3. Cardinality(Unfinished') = Cardinality(Unfinished) + 1
  BY <1>2, FiniteSubsetsOfTasks, FS_AddElement
<1>4. released' = released /\ runningCount' = runningCount + 1
      /\ runningCount < MaxRunning
  BY DEF Submit, Admits
<1> QED BY <1>3, <1>4, FiniteSubsetsOfTasks, MaxRunningAssumption
        DEF CountInv, SlotAccounting, CountBound, TypeOK

\* The second critical section of runTask ends one task and frees one slot.
LEMMA CountFinish ==
    ASSUME TypeOK, LocalInv, CountInv, NEW t \in TaskId, RunFinish(t)
    PROVE  CountInv'
<1>1. FinalStatus(t) # "none"
  BY DEF FinalStatus
<1>2. Unfinished' = Unfinished \ {t} /\ t \in Unfinished
  BY <1>1 DEF RunFinish, Unfinished, TypeOK, LocalInv, Coherent
<1>3. Cardinality(Unfinished') = Cardinality(Unfinished) - 1
  BY <1>2, FiniteSubsetsOfTasks, FS_RemoveElement
<1>4. released' = released /\ runningCount' = runningCount - 1
  BY DEF RunFinish, SlotAtFinish
<1> QED BY <1>3, <1>4, FiniteSubsetsOfTasks, MaxRunningAssumption
        DEF CountInv, SlotAccounting, CountBound, TypeOK

\* Every task a cancellation acts on leaves a new pair in the history: no task
\* is found twice in the same status.
LEMMA CountCancel ==
    ASSUME TypeOK, LocalInv, CountInv, NEW S, S \subseteq CancelTargets, CancelTasks(S)
    PROVE  CountInv'
<1> DEFINE R == {<<t, status[t]>> : t \in S}
           f == [t \in S |-> <<t, status[t]>>]
<1>1. S \in SUBSET TaskId /\ \A t \in S : status[t] \in {"pending", "running"}
  BY DEF CancelTargets, Active, TypeOK
<1>2. IsFiniteSet(S) /\ Cardinality(S) \in Nat
  BY <1>1, FiniteSubsetsOfTasks
<1>3. f \in Bijection(S, R)
  <2>1. f \in [S -> R]
    OBVIOUS
  <2>2. \A a, b \in S : f[a] = f[b] => a = b
    OBVIOUS
  <2>3. \A r \in R : \E a \in S : f[a] = r
    OBVIOUS
  <2> QED BY <2>1, <2>2, <2>3, Fun_IsBij
<1>4. IsFiniteSet(R) /\ Cardinality(R) = Cardinality(S)
  BY <1>2, <1>3, FS_Bijection DEF ExistsBijection
<1>5. R \cap released = {}
  <2> SUFFICES ASSUME NEW t \in S, <<t, status[t]>> \in released PROVE FALSE
    OBVIOUS
  <2>1. t \in TaskId /\ Coherent(t)
    BY <1>1 DEF LocalInv
  <2>2. CASE status[t] = "pending"
    BY <2>1, <2>2 DEF Coherent
  <2>3. CASE status[t] = "running"
    BY <2>1, <2>3 DEF Coherent
  <2> QED BY <1>1, <2>2, <2>3
<1>6. Cardinality(released \cup R) = Cardinality(released) + Cardinality(S)
  <2>1. /\ IsFiniteSet(released)
        /\ Cardinality(released \cup R)
             = Cardinality(released) + Cardinality(R) - Cardinality(released \cap R)
    BY <1>4, FiniteSubsetsOfTasks, FS_Union
  <2>2. Cardinality(released \cap R) = 0
    BY <1>5, FS_EmptySet
  <2> QED BY <1>2, <1>4, <2>1, <2>2, FiniteSubsetsOfTasks
<1>7. Unfinished' = Unfinished
  BY <1>1 DEF CancelTasks, Unfinished
<1>8. released' = released \cup R /\ runningCount' = runningCount - Cardinality(S)
  BY DEF CancelTasks
<1> QED BY <1>2, <1>6, <1>7, <1>8, FiniteSubsetsOfTasks, MaxRunningAssumption
        DEF CountInv, SlotAccounting, CountBound, TypeOK

\* A step that changes neither the status of a task to or from "none", nor the
\* finished tasks, nor the count and its history.
LEMMA CountSame ==
    ASSUME CountInv, UNCHANGED <<finished, runningCount, released>>,
           \A t \in TaskId : status'[t] = "none" <=> status[t] = "none"
    PROVE  CountInv'
<1>1. Unfinished' = Unfinished
  BY DEF Unfinished
<1> QED BY <1>1 DEF CountInv, SlotAccounting, CountBound

LEMMA CountStep == TypeOK /\ LocalInv /\ CountInv /\ [Next]_vars => CountInv'
<1> SUFFICES ASSUME TypeOK, LocalInv, CountInv, [Next]_vars PROVE CountInv'
  OBVIOUS
<1>1. ASSUME NEW t \in TaskId, RunStart(t) PROVE CountInv'
  <2>1. status[t] # "none"
    BY <1>1 DEF RunStart, LocalInv, Coherent
  <2>2. \A u \in TaskId : status'[u] = "none" <=> status[u] = "none"
    BY <1>1, <2>1 DEF RunStart, TypeOK
  <2> QED BY <1>1, <2>2, CountSame DEF RunStart
<1>2. ASSUME UNCHANGED <<status, finished, runningCount, released>> PROVE CountInv'
  BY <1>2, CountSame
<1>3. ASSUME NEW t \in TaskId, Goroutine(t) PROVE CountInv'
  BY <1>1, <1>2, <1>3, CountFinish
     DEF Goroutine, ExecStart, ExecStartFails, ExecKilled, ExecCapped, ExecReturn
<1>4. ASSUME NEW t \in TaskId, NEW code \in {"zero", "nonzero"}, ExecExit(t, code)
      PROVE  CountInv'
  BY <1>2, <1>4 DEF ExecExit, ExecReturn
<1>5. ASSUME NEW t \in TaskId, Cancel(t) PROVE CountInv'
  BY <1>5, CountCancel DEF Cancel
<1>6. CASE CancelAll
  BY <1>6, CountCancel DEF CancelAll
<1>7. ASSUME NEW t \in TaskId, CtxDeadline(t) \/ Age(t) PROVE CountInv'
  BY <1>2, <1>7 DEF CtxDeadline, Age
<1>8. CASE Cleanup \/ UNCHANGED vars
  BY <1>2, <1>8 DEF Cleanup, vars
<1> QED BY <1>3, <1>4, <1>5, <1>6, <1>7, <1>8, CountSubmit DEF Next

(***************************************************************************)
(* The theorems                                                            *)
(***************************************************************************)

\* IndInv is an invariant: it is inductive by the three layers above.
THEOREM Invariance == SafeSpec => []IndInv
<1>1. Init => IndInv
  BY TypeInit, LocalInit, CountInit DEF IndInv, LocalInv, CountInv
<1>2. IndInv /\ [Next]_vars => IndInv'
  BY TypeStep, LocalStep, CountStep DEF IndInv, LocalInv, CountInv
<1> QED BY <1>1, <1>2, PTL DEF SafeSpec

\* runningCount is the number of unfinished tasks less the slots that
\* cancellations gave back early, in every reachable state.
THEOREM SlotAccountingCorrect == SafeSpec => []SlotAccounting
<1>1. IndInv => SlotAccounting
  BY DEF IndInv
<1> QED BY <1>1, Invariance, PTL

\* However many tasks a client submits and cancels, the unfinished tasks
\* exceed max_running_tasks by at most the number of early releases.
THEOREM OvershootBounded == SafeSpec => []OvershootBound
<1>1. IndInv => OvershootBound
  BY FiniteSubsetsOfTasks, MaxRunningAssumption
     DEF IndInv, SlotAccounting, CountBound, OvershootBound, TypeOK
<1> QED BY <1>1, Invariance, PTL

\* While nobody cancels a task, max_running_tasks bounds the commands that run.
THEOREM BoundWithoutCancel == SafeSpec => [](released = {} => ConcurrencyBound)
<1>1. IndInv => (released = {} => ConcurrencyBound)
  <2> SUFFICES ASSUME IndInv, released = {} PROVE ConcurrencyBound
    OBVIOUS
  <2> DEFINE E == {t \in TaskId : pc[t] = "executing"}
  <2>1. E \in SUBSET Unfinished
    BY DEF IndInv, Coherent, Unfinished
  <2>2. TypeOK
    BY DEF IndInv
  <2>3. Cardinality(E) <= Cardinality(Unfinished) /\ Cardinality(E) \in Nat
    BY <2>1, <2>2, FiniteSubsetsOfTasks, FS_Subset, FS_CardinalityType
  <2>4. Cardinality(released) = 0
    BY FS_EmptySet
  <2> QED BY <2>2, <2>3, <2>4, FiniteSubsetsOfTasks, MaxRunningAssumption
          DEF IndInv, SlotAccounting, CountBound, ConcurrencyBound, TypeOK
<1> QED BY <1>1, Invariance, PTL

\* The sweep never forgets a task that has not finished.
THEOREM CleanupIsSafe == SafeSpec => []CleanupSafe
<1>1. IndInv => CleanupSafe
  BY DEF IndInv
<1> QED BY <1>1, Invariance, PTL

\* The reported outcome agrees with the exit code, the deadline and the
\* cancellations.
THEOREM OutcomesCorrect == SafeSpec => []OutcomeHonest
<1>1. IndInv => OutcomeHonest
  BY DEF IndInv
<1> QED BY <1>1, Invariance, PTL

\* A cancellation of a running task before its deadline decides its outcome.
THEOREM RunningCancelDecides == SafeSpec => []RunningCancelWins
<1>1. IndInv => RunningCancelWins
  BY DEF IndInv
<1> QED BY <1>1, Invariance, PTL

\* No step touches the outcome of a task that has finished.
LEMMA FinishedFixed ==
    ASSUME IndInv, [Next]_vars, NEW u \in finished
    PROVE  u \in finished' /\ status'[u] = status[u] /\ exit'[u] = exit[u]
<1>1. u \in TaskId /\ pc[u] = "done" /\ status[u] \in Terminal /\ status[u] # "none"
  BY DEF IndInv, TypeOK, Coherent, Terminal
<1>2. ASSUME NEW t \in TaskId, NEW k \in TimeoutKind, Submit(t, k)
      PROVE  u \in finished' /\ status'[u] = status[u] /\ exit'[u] = exit[u]
  BY <1>1, <1>2 DEF Submit, IndInv, TypeOK
<1>3. ASSUME NEW t \in TaskId, NEW code \in {"zero", "nonzero"},
             ExecReturn(t, code), pc[t] # "done"
      PROVE  u \in finished' /\ status'[u] = status[u] /\ exit'[u] = exit[u]
  BY <1>1, <1>3 DEF ExecReturn, IndInv, TypeOK
<1>4. ASSUME NEW t \in TaskId, RunStart(t) \/ ExecStart(t) \/ RunFinish(t)
      PROVE  u \in finished' /\ status'[u] = status[u] /\ exit'[u] = exit[u]
  BY <1>1, <1>4 DEF RunStart, ExecStart, RunFinish, IndInv, TypeOK
<1>5. ASSUME NEW S, S \subseteq CancelTargets, CancelTasks(S)
      PROVE  u \in finished' /\ status'[u] = status[u] /\ exit'[u] = exit[u]
  BY <1>1, <1>5 DEF CancelTargets, CancelTasks, Active, Terminal
<1>6. ASSUME NEW t \in TaskId, CtxDeadline(t) \/ Age(t)
      PROVE  u \in finished' /\ status'[u] = status[u] /\ exit'[u] = exit[u]
  BY <1>6 DEF CtxDeadline, Age
<1>7. CASE Cleanup
  BY <1>7 DEF Cleanup
<1>8. ASSUME NEW t \in TaskId, Goroutine(t)
      PROVE  u \in finished' /\ status'[u] = status[u] /\ exit'[u] = exit[u]
  BY <1>3, <1>4, <1>8 DEF Goroutine, ExecStartFails, ExecKilled, ExecCapped
<1>9. CASE UNCHANGED vars
  BY <1>9 DEF vars
<1> QED BY <1>2, <1>3, <1>5, <1>6, <1>7, <1>8, <1>9
        DEF Next, ExecExit, Cancel, CancelAll

\* What a client has read of a finished task never changes.
THEOREM OutcomesStable == SafeSpec => FinishedStable
<1> DEFINE Stable == \A t \in finished : t \in finished' /\ status'[t] = status[t]
                                         /\ exit'[t] = exit[t]
<1>1. IndInv /\ [Next]_vars => [Stable]_vars
  BY FinishedFixed
<1>2. FinishedStable <=> [][Stable]_vars
  BY DEF FinishedStable
<1> QED BY <1>1, <1>2, Invariance, PTL DEF SafeSpec

(***************************************************************************)
(* Refinement                                                              *)
(***************************************************************************)

\* The abstract variables, as the INSTANCE in TaskManager maps them.
AbsPhase == [t \in TaskId |-> PhaseOf(t)]
AbsOutcome == [t \in TaskId |-> IF t \in finished THEN status[t] ELSE "unknown"]
AbsAsked == {t \in TaskId : \E s \in Active : <<t, s>> \in released}

\* A step that leaves the inputs of the refinement mapping alone stutters.
LEMMA SameAbstraction ==
    ASSUME UNCHANGED <<tasks, finished, released>>,
           \A t \in TaskId :
              status'[t] # status[t] =>
                 t \notin finished /\ status[t] # "none" /\ status'[t] # "none"
    PROVE  UNCHANGED Lifecycle!lifecycleVars
<1>1. AbsPhase' = AbsPhase /\ AbsOutcome' = AbsOutcome /\ AbsAsked' = AbsAsked
  BY DEF AbsPhase, AbsOutcome, AbsAsked, PhaseOf
<1> QED BY <1>1 DEF Lifecycle!lifecycleVars, AbsPhase, AbsOutcome, AbsAsked

LEMMA SubmitAccepts ==
    ASSUME IndInv, NEW t \in TaskId, NEW k \in TimeoutKind, Submit(t, k)
    PROVE  Lifecycle!Accept(t)
<1>1. t \notin finished /\ status[t] = "none" /\ t \notin tasks
  BY DEF IndInv, TypeOK, Coherent, Submit
<1>2. PhaseOf(t)' = "active" /\ PhaseOf(t) = "absent"
  BY <1>1 DEF Submit, PhaseOf, InitialStatus, IndInv, TypeOK
<1>3. \A u \in TaskId \ {t} : PhaseOf(u)' = PhaseOf(u)
  BY DEF Submit, PhaseOf, IndInv, TypeOK
<1>4. AbsPhase' = [AbsPhase EXCEPT ![t] = "active"]
  BY <1>2, <1>3 DEF AbsPhase
<1>5. AbsOutcome' = AbsOutcome
  BY <1>1 DEF Submit, AbsOutcome, IndInv, TypeOK
<1>6. AbsAsked' = AbsAsked
  BY DEF Submit, AbsAsked
<1> QED BY <1>2, <1>4, <1>5, <1>6 DEF Lifecycle!Accept, AbsPhase, AbsOutcome, AbsAsked

LEMMA FinishEnds ==
    ASSUME IndInv, NEW t \in TaskId, RunFinish(t), NEW o, o = FinalStatus(t)
    PROVE  Lifecycle!End(t, o)
<1>1. t \notin finished /\ status[t] # "none" /\ t \in tasks
  BY DEF IndInv, Coherent, CleanupSafe, Unfinished, RunFinish
<1>2. FinalStatus(t) # "none"
  BY DEF FinalStatus
<1>3. PhaseOf(t) = "active" /\ PhaseOf(t)' = "ended"
  BY <1>1, <1>2 DEF RunFinish, PhaseOf, IndInv, TypeOK
<1>4. \A u \in TaskId \ {t} : PhaseOf(u)' = PhaseOf(u)
  BY DEF RunFinish, PhaseOf, IndInv, TypeOK
<1>5. AbsPhase' = [AbsPhase EXCEPT ![t] = "ended"]
  BY <1>3, <1>4 DEF AbsPhase
<1>6. AbsOutcome' = [AbsOutcome EXCEPT ![t] = o]
  BY DEF RunFinish, AbsOutcome, IndInv, TypeOK
<1>7. AbsAsked' = AbsAsked
  BY DEF RunFinish, AbsAsked
<1>8. FinalStatus(t) = "killed" => t \in AbsAsked
  BY DEF FinalStatus, AbsAsked, Active, IndInv, Coherent
<1> QED BY <1>3, <1>5, <1>6, <1>7, <1>8
        DEF Lifecycle!End, AbsPhase, AbsOutcome, AbsAsked

LEMMA CancelAsks ==
    ASSUME IndInv, NEW S, S \subseteq CancelTargets, CancelTasks(S)
    PROVE  Lifecycle!Ask(S) /\ S \in SUBSET TaskId
<1>1. \A t \in S : /\ t \in tasks /\ t \in TaskId /\ t \notin finished
                   /\ status[t] \in Active /\ status[t] # "none"
  BY DEF CancelTargets, Active, Terminal, IndInv, Coherent, TypeOK
<1>2. \A t \in S : PhaseOf(t) = "active"
  BY <1>1 DEF PhaseOf
<1>3. AbsPhase' = AbsPhase
  BY <1>1 DEF CancelTasks, AbsPhase, PhaseOf
<1>4. AbsOutcome' = AbsOutcome
  BY <1>1 DEF CancelTasks, AbsOutcome
<1>5. AbsAsked' = AbsAsked \cup S
  BY <1>1 DEF CancelTasks, AbsAsked
<1> QED BY <1>1, <1>2, <1>3, <1>4, <1>5
        DEF Lifecycle!Ask, AbsPhase, AbsOutcome, AbsAsked

LEMMA CleanupForgets ==
    ASSUME IndInv, Cleanup
    PROVE  \E S \in SUBSET TaskId : Lifecycle!Forget(S)
<1> DEFINE S == {t \in tasks : Purgeable(t)}
<1>1. S \in SUBSET TaskId
  BY DEF IndInv, TypeOK
<1>2. \A t \in S : PhaseOf(t) = "ended" /\ PhaseOf(t)' = "forgotten"
  BY DEF Purgeable, Cleanup, PhaseOf, IndInv, TypeOK, Terminal
<1>3. \A t \in TaskId \ S : PhaseOf(t)' = PhaseOf(t)
  BY DEF Cleanup, PhaseOf
<1>4. AbsPhase' = [t \in TaskId |-> IF t \in S THEN "forgotten" ELSE AbsPhase[t]]
  BY <1>2, <1>3 DEF AbsPhase
<1>5. AbsOutcome' = AbsOutcome /\ AbsAsked' = AbsAsked
  BY DEF Cleanup, AbsOutcome, AbsAsked
<1>6. Lifecycle!Forget(S)
  BY <1>1, <1>2, <1>4, <1>5 DEF Lifecycle!Forget, AbsPhase, AbsOutcome, AbsAsked
<1> QED BY <1>1, <1>6

\* The task manager implements TaskLifecycle: every step is a step of the
\* abstract life of the tasks, or leaves it alone.
THEOREM Refinement == SafeSpec => ImplementsLifecycle
<1>1. Init => Lifecycle!Init
  BY DEF Init, Lifecycle!Init, Lifecycle!Unknown, PhaseOf
<1>2. IndInv /\ [Next]_vars => [Lifecycle!Next]_(Lifecycle!lifecycleVars)
  <2> DEFINE Stutter == UNCHANGED Lifecycle!lifecycleVars
  <2> SUFFICES ASSUME IndInv, [Next]_vars PROVE Lifecycle!Next \/ Stutter
    OBVIOUS
  <2> HIDE DEF Stutter
  <2>1. ASSUME NEW t \in TaskId, NEW k \in TimeoutKind, Submit(t, k)
        PROVE  Lifecycle!Next
    BY <2>1, SubmitAccepts DEF Lifecycle!Next
  <2>2. ASSUME NEW t \in TaskId, RunFinish(t) PROVE Lifecycle!Next
    <3>1. FinalStatus(t) \in Terminal
      BY DEF FinalStatus, Terminal
    <3>2. PICK o \in Terminal : o = FinalStatus(t)
      BY <3>1
    <3>3. Lifecycle!End(t, o)
      BY <2>2, <3>2, FinishEnds
    <3> QED BY <3>3 DEF Lifecycle!Next
  <2>3. ASSUME NEW S, S \subseteq CancelTargets, CancelTasks(S)
        PROVE  Lifecycle!Next
    BY <2>3, CancelAsks DEF Lifecycle!Next
  <2>4. ASSUME Cleanup PROVE Lifecycle!Next
    BY <2>4, CleanupForgets DEF Lifecycle!Next
  <2>5. ASSUME tasks' = tasks, status' = status, finished' = finished,
               released' = released
        PROVE  Stutter
    BY <2>5, SameAbstraction DEF Stutter
  <2>6. ASSUME NEW t \in TaskId, RunStart(t) PROVE Stutter
    <3>1. status[t] # "none" /\ t \notin finished
      BY <2>6 DEF RunStart, IndInv, Coherent
    <3>2. \A u \in TaskId :
             status'[u] # status[u] =>
                u \notin finished /\ status[u] # "none" /\ status'[u] # "none"
      BY <2>6, <3>1 DEF RunStart, IndInv, TypeOK
    <3> QED BY <2>6, <3>2, SameAbstraction DEF RunStart, Stutter
  <2>7. ASSUME NEW t \in TaskId, Goroutine(t) PROVE Lifecycle!Next \/ Stutter
    BY <2>2, <2>5, <2>6, <2>7
       DEF Goroutine, ExecStart, ExecStartFails, ExecKilled, ExecCapped, ExecReturn
  <2>8. ASSUME NEW t \in TaskId,
               \/ \E code \in {"zero", "nonzero"} : ExecExit(t, code)
               \/ CtxDeadline(t) \/ Age(t)
        PROVE  Stutter
    BY <2>5, <2>8 DEF ExecExit, ExecReturn, CtxDeadline, Age
  <2>9. ASSUME NEW t \in TaskId, Cancel(t) PROVE Lifecycle!Next
    BY <2>3, <2>9 DEF Cancel
  <2>10. CASE CancelAll
    BY <2>3, <2>10 DEF CancelAll
  <2>11. CASE UNCHANGED vars
    BY <2>5, <2>11 DEF vars
  <2> QED BY <2>1, <2>4, <2>7, <2>8, <2>9, <2>10, <2>11 DEF Next
<1> QED BY <1>1, <1>2, Invariance, PTL DEF SafeSpec, ImplementsLifecycle, Lifecycle!Spec
=============================================================================
