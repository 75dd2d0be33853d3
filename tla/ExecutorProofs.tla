--------------------------- MODULE ExecutorProofs ---------------------------
(***************************************************************************)
(* Proofs about one execution of a command, for every limit, pipe and      *)
(* amount of output: whichever goroutine is faster, the result tells what  *)
(* happened to the command, and no output is missing without a mark.       *)
(***************************************************************************)
EXTENDS Executor, TLAPS

(***************************************************************************)
(* Types                                                                   *)
(***************************************************************************)

Result == [exit : {"none", "zero", "own", "minus"}, timedOut : BOOLEAN, truncated : BOOLEAN]

LEMMA NoResultType ==
    NoResult \in Result /\ [NoResult EXCEPT !.exit = "minus"] \in Result
BY DEF NoResult, Result

LEMMA ReturnType ==
    ASSUME Return
    PROVE  result' \in Result
<1>1. ExitCode \in {"none", "zero", "own", "minus"}
  BY DEF ExitCode
<1>2. TimedOut \in BOOLEAN
  BY Zenon DEF TimedOut
<1>3. (\E s \in Stream : got[s] = Limit) \in BOOLEAN
  BY Zenon
<1> QED BY <1>1, <1>2, <1>3, Zenon DEF Return, Result

LEMMA TypeInit == Init => TypeOK
<1> SUFFICES ASSUME Init PROVE TypeOK
  OBVIOUS
<1>1. alive \in BOOLEAN /\ strayed \in BOOLEAN
  BY Zenon DEF Init
<1>2. 0 \in 0..MaxOut /\ 0 \in 0..Limit
  BY ExecutorConstants
<1>3. result \in Result
  BY NoResultType DEF Init
<1> QED BY <1>1, <1>2, <1>3 DEF Init, TypeOK, Result

\* One more unit is written, or read.
LEMMA OneMore ==
    ASSUME NEW f \in [Stream -> Nat], NEW s \in Stream
    PROVE  /\ [f EXCEPT ![s] = @ + 1] \in [Stream -> Nat]
           /\ [f EXCEPT ![s] = @ + 1][s] = f[s] + 1
           /\ \A u \in Stream \ {s} : [f EXCEPT ![s] = @ + 1][u] = f[u]
OBVIOUS

LEMMA TypeStep ==
    ASSUME TypeOK, OutputFlows, ReadersTell, [Next]_vars
    PROVE  TypeOK'
<1> USE DEF TypeOK, command, output
<1>1. CASE Start
  <2>1. alive' \in BOOLEAN
    BY <1>1, Zenon DEF Start
  <2> QED BY <1>1, <2>1 DEF Start
<1>2. CASE StartFails
  BY <1>2, NoResultType DEF StartFails, Result
<1>3. ASSUME NEW s \in Stream, ShellWrites(s) PROVE TypeOK'
  <2>1. wrote[s] \in 0..MaxOut /\ wants[s] \in 0..MaxOut /\ wrote[s] < wants[s]
    BY <1>3 DEF ShellWrites
  <2>2. wrote[s] + 1 \in 0..MaxOut
    BY <2>1, ExecutorConstants
  <2> QED BY <1>3, <2>2 DEF ShellWrites
<1>4. ASSUME NEW s \in Stream, ReaderReads(s) PROVE TypeOK'
  <2>1. got[s] \in 0..Limit /\ got[s] < Limit
    BY <1>4 DEF ReaderReads, ReadersTell
  <2>2. got[s] + 1 \in 0..Limit
    BY <2>1, ExecutorConstants
  <2> QED BY <1>4, <2>2 DEF ReaderReads
<1>5. ASSUME NEW s \in Stream, ReaderEnds(s) PROVE TypeOK'
  BY <1>5 DEF ReaderEnds
<1>6. CASE ShellExits
  BY <1>6 DEF ShellExits
<1>7. CASE ChildExits
  <2>1. alive' \in BOOLEAN
    BY <1>7, Zenon DEF ChildExits
  <2> QED BY <1>7, <2>1 DEF ChildExits
<1>8. CASE PidRecycled
  BY <1>8 DEF PidRecycled
<1>9. CASE DeadlinePasses \/ CallerCancels
  BY <1>9 DEF DeadlinePasses, CallerCancels
<1>10. CASE WatcherKills
  BY <1>10 DEF WatcherKills, Killed
<1>11. CASE KillerKills
  <2>1. strayed' \in BOOLEAN /\ alive' \in BOOLEAN
    BY <1>11, Zenon DEF KillerKills, GroupAfterKill
  <2>2. sh' \in {"none", "running", "exited", "killed"} /\ killer' = "ended"
    BY <1>11 DEF KillerKills, Killed
  <2> QED BY <1>11, <2>1, <2>2 DEF KillerKills
<1>12. CASE Reap
  BY <1>12 DEF Reap
<1>13. CASE Return
  <2>1. result' \in Result
    BY <1>13, ReturnType
  <2> QED BY <1>13, <2>1 DEF Return, Result
<1>14. CASE UNCHANGED vars
  BY <1>14 DEF vars
<1> QED BY <1>1, <1>2, <1>3, <1>4, <1>5, <1>6, <1>7, <1>8, <1>9, <1>10, <1>11,
           <1>12, <1>13, <1>14 DEF Next

(***************************************************************************)
(* The shell, its output and the readers                                   *)
(***************************************************************************)

LEMMA ShellStep ==
    ASSUME TypeOK, ShellTells, [Next]_vars
    PROVE  ShellTells'
BY DEF ShellTells, TypeOK, Next, vars, Start, StartFails, ShellWrites, ReaderReads,
       ReaderEnds, ShellExits, ChildExits, PidRecycled, DeadlinePasses, CallerCancels,
       WatcherKills, KillerKills, Killed, Reap, Return

\* A kill ends a running shell, and only while Execute collects.
LEMMA KillKeeps ==
    ASSUME ShellTells, WatcherKills \/ KillerKills
    PROVE  /\ UNCHANGED <<wants, wrote, got, reader, pc, ctx, code, result>>
           /\ sh' = sh \/ (sh = "running" /\ sh' = "killed" /\ pc = "collect")
BY DEF ShellTells, WatcherKills, KillerKills, Killed, command, output

LEMMA FlowStep ==
    ASSUME TypeOK, OutputFlows, ReadersTell, ShellTells, [Next]_vars
    PROVE  OutputFlows'
<1> USE DEF TypeOK, OutputFlows, command, output
<1>1. ASSUME NEW s \in Stream, ShellWrites(s) PROVE OutputFlows'
  <2>1. /\ wrote' = [wrote EXCEPT ![s] = @ + 1] /\ wrote[s] < wants[s]
        /\ UNCHANGED <<wants, got, sh>> /\ sh = "running"
    BY <1>1 DEF ShellWrites
  <2>2. \A u \in Stream :
           /\ wrote'[u] = (IF u = s THEN wrote[u] + 1 ELSE wrote[u])
           /\ wrote[u] \in Nat /\ wants[u] \in Nat /\ got[u] \in Nat
    BY <2>1
  <2> QED BY <2>1, <2>2
<1>2. ASSUME NEW s \in Stream, ReaderReads(s) PROVE OutputFlows'
  <2>1. /\ got' = [got EXCEPT ![s] = @ + 1] /\ wrote[s] - got[s] > 0
        /\ UNCHANGED <<wants, wrote, sh>>
    BY <1>2 DEF ReaderReads, InPipe
  <2>2. \A u \in Stream :
           /\ got'[u] = (IF u = s THEN got[u] + 1 ELSE got[u])
           /\ wrote[u] \in Nat /\ wants[u] \in Nat /\ got[u] \in Nat
    BY <2>1
  <2> QED BY <2>1, <2>2
<1>3. CASE ShellExits
  BY <1>3 DEF ShellExits
<1>4. CASE WatcherKills \/ KillerKills
  BY <1>4, KillKeeps
<1>5. CASE Start
  BY <1>5 DEF Start
<1>6. ASSUME UNCHANGED <<wants, wrote, got, sh>> PROVE OutputFlows'
  BY <1>6
<1> QED BY <1>1, <1>2, <1>3, <1>4, <1>5, <1>6
        DEF Next, vars, StartFails, ReaderEnds, ChildExits, PidRecycled,
            DeadlinePasses, CallerCancels, Reap, Return

LEMMA ReadersStep ==
    ASSUME TypeOK, OutputFlows, ReadersTell, ShellTells, [Next]_vars
    PROVE  ReadersTell'
<1> USE DEF TypeOK, ReadersTell, command, output
<1>1. CASE Start
  <2>1. /\ reader' = [s \in Stream |-> "reading"] /\ pc' = "collect" /\ got' = got
        /\ sh = "none"
    BY <1>1 DEF Start, ShellTells
  <2>2. \A s \in Stream : got[s] < Limit
    BY <1>1, ExecutorConstants DEF Start
  <2> QED BY <2>1, <2>2
<1>2. ASSUME NEW s \in Stream, ShellWrites(s) PROVE ReadersTell'
  <2>1. /\ wrote' = [wrote EXCEPT ![s] = @ + 1] /\ UNCHANGED <<got, reader, pc, sh>>
        /\ sh = "running"
    BY <1>2 DEF ShellWrites
  <2> QED BY <2>1
<1>3. ASSUME NEW s \in Stream, ReaderReads(s) PROVE ReadersTell'
  <2>1. /\ got' = [got EXCEPT ![s] = @ + 1] /\ reader[s] = "reading"
        /\ reader' = [reader EXCEPT ![s] = IF got[s] + 1 >= Limit THEN "done" ELSE @]
        /\ UNCHANGED <<wrote, pc, sh>>
    BY <1>3 DEF ReaderReads, AtLimit
  <2>2. got[s] < Limit /\ got[s] \in Nat /\ Limit \in Nat
    BY <2>1, ExecutorConstants
  <2>3. ASSUME NEW u \in Stream, u # s
        PROVE  got'[u] = got[u] /\ reader'[u] = reader[u]
    BY <2>1, <2>3
  <2>4. /\ got'[s] = got[s] + 1
        /\ reader'[s] = IF got[s] + 1 >= Limit THEN "done" ELSE "reading"
    BY <2>1
  <2> QED BY <2>1, <2>2, <2>3, <2>4
<1>4. ASSUME NEW s \in Stream, ReaderEnds(s) PROVE ReadersTell'
  <2>1. wrote[s] = got[s] /\ sh # "running"
    BY <1>4 DEF ReaderEnds, InPipe
  <2> QED BY <1>4, <2>1 DEF ReaderEnds
<1>5. CASE ShellExits
  BY <1>5 DEF ShellExits
<1>6. CASE WatcherKills \/ KillerKills
  BY <1>6, KillKeeps
<1>7. CASE Reap
  BY <1>7 DEF Reap, Collected
<1>8. ASSUME UNCHANGED <<wrote, got, reader, sh>>,
             pc' = pc \/ (pc # "collect" /\ pc' # "start")
      PROVE  ReadersTell'
  BY <1>8
<1> QED BY <1>1, <1>2, <1>3, <1>4, <1>5, <1>6, <1>7, <1>8
        DEF Next, vars, StartFails, ChildExits, PidRecycled,
            DeadlinePasses, CallerCancels, Return

(***************************************************************************)
(* The result                                                              *)
(***************************************************************************)

\* What Return puts together is true of the shell that was waited for.
LEMMA ReturnHonest ==
    ASSUME TypeOK, OutputFlows, ReadersTell, ShellTells, Return
    PROVE  OutcomeHonest' /\ OutputComplete'
<1>1. /\ pc = "reaped" /\ UNCHANGED <<sh, code, wants, wrote, got>>
      /\ result'.exit = ExitCode /\ result'.timedOut = TimedOut
      /\ result'.truncated = (\E s \in Stream : got[s] = Limit)
      /\ ctx = "deadline" => ctx' = "deadline"
  BY DEF Return, command, output
<1>2. sh \in {"exited", "killed"} /\ code \in {"zero", "own"}
  BY <1>1 DEF TypeOK, ShellTells
<1>3. \A s \in Stream : reader[s] = "done"
  BY <1>1 DEF TypeOK, ReadersTell
<1>4. ASSUME sh = "exited", ~result'.truncated PROVE got = wants
  <2>1. \A s \in Stream : got[s] = wrote[s]
    BY <1>1, <1>2, <1>3, <1>4 DEF ReadersTell
  <2>2. got = wrote
    BY <2>1 DEF TypeOK
  <2> QED BY <1>4, <2>2 DEF OutputFlows
<1>5. OutputComplete'
  BY <1>1, <1>4 DEF OutputComplete, Ran
<1>6. OutcomeHonest'
  BY <1>1, <1>2 DEF OutcomeHonest, Ran, ExitCode, WaitErr, TimedOut
<1> QED BY <1>5, <1>6

\* Nothing that comes after it changes what the result is about.
LEMMA ResultStep ==
    ASSUME IndInv, [Next]_vars
    PROVE  OutcomeHonest' /\ OutputComplete'
<1> USE DEF IndInv, command, output
<1>1. CASE Return
  BY <1>1, ReturnHonest
<1>2. CASE WatcherKills \/ KillerKills
  BY <1>2, KillKeeps DEF OutcomeHonest, OutputComplete, Ran
<1>3. CASE StartFails
  BY <1>3 DEF StartFails, ShellTells, OutcomeHonest, OutputComplete, Ran
<1>4. ASSUME UNCHANGED <<wants, code, result>>, pc' # "returned"
      PROVE  OutcomeHonest' /\ OutputComplete'
  BY <1>4 DEF OutcomeHonest, OutputComplete, Ran
<1>5. CASE Start \/ Reap
  BY <1>4, <1>5 DEF Start, Reap
<1>6. ASSUME NEW s \in Stream, ShellWrites(s) \/ ReaderReads(s) \/ ReaderEnds(s)
      PROVE  OutcomeHonest' /\ OutputComplete'
  <2>1. pc = "collect"
    BY <1>6 DEF ShellTells, ReadersTell, ShellWrites, ReaderReads, ReaderEnds
  <2> QED BY <1>4, <1>6, <2>1 DEF ShellWrites, ReaderReads, ReaderEnds
<1>7. CASE ShellExits
  BY <1>4, <1>7 DEF ShellExits, ShellTells
<1>8. CASE DeadlinePasses \/ CallerCancels
  BY <1>4, <1>8 DEF DeadlinePasses, CallerCancels
<1>9. ASSUME UNCHANGED <<pc, sh, ctx, wants, code, got, result>>
      PROVE  OutcomeHonest' /\ OutputComplete'
  BY <1>9 DEF OutcomeHonest, OutputComplete, Ran
<1> QED BY <1>1, <1>2, <1>3, <1>5, <1>6, <1>7, <1>8, <1>9
        DEF Next, vars, ChildExits, PidRecycled

LEMMA InvInit == Init => IndInv
<1> SUFFICES ASSUME Init PROVE IndInv
  OBVIOUS
<1>1. OutputFlows /\ ReadersTell
  BY ExecutorConstants DEF Init, OutputFlows, ReadersTell
<1> QED BY <1>1, TypeInit DEF Init, IndInv, ShellTells, OutcomeHonest, OutputComplete, Ran

LEMMA InvStep == IndInv /\ [Next]_vars => IndInv'
BY TypeStep, ShellStep, FlowStep, ReadersStep, ResultStep DEF IndInv

(***************************************************************************)
(* Theorems                                                                *)
(***************************************************************************)

\* The inductive invariant holds in every reachable state.
THEOREM Invariance == SafeSpec => []IndInv
BY InvInit, InvStep, PTL DEF SafeSpec

\* The variables keep their types, and no more than the limit is kept in memory.
THEOREM TypeCorrect == SafeSpec => []TypeOK
<1>1. IndInv => TypeOK
  BY DEF IndInv
<1> QED BY <1>1, Invariance, PTL

\* Whichever of the shell, the readers, the watcher and the killer is faster,
\* an exit code is the command's own, and a timeout came at the deadline.
THEOREM OutcomesAreHonest == SafeSpec => []OutcomeHonest
<1>1. IndInv => OutcomeHonest
  BY DEF IndInv
<1> QED BY <1>1, Invariance, PTL

\* A command that ran to its end, and whose result has no truncation mark, has
\* all of its output in the result, for every limit and every size of pipe.
THEOREM OutputIsComplete == SafeSpec => []OutputComplete
<1>1. IndInv => OutputComplete
  BY DEF IndInv
<1> QED BY <1>1, Invariance, PTL
=============================================================================
