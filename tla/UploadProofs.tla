---------------------------- MODULE UploadProofs ----------------------------
(***************************************************************************)
(* Proofs about uploads, for any number of uploads and crashes, when no    *)
(* target ends in ".tmp": a target never shows a part of a file, and shows *)
(* what the last successful upload of it sent; a conflict has its reason;  *)
(* so the directory keeps the promise of FileStore.                        *)
(***************************************************************************)
EXTENDS Upload, TLAPS

\* The types of targets and temp files, with and without targets in ".tmp".
LEMMA Paths ==
    ASSUME TypeOK, NEW u \in Up
    PROVE  /\ target[u] \in Path /\ Tmp(target[u]) \in Path
           /\ Tmp(target[u])[2] # 0
<1>1. PICK n \in Name, k \in Suffixes : target[u] = <<n, k>>
  BY DEF TypeOK
<1>2. k \in 0..2 /\ k + 1 \in 0..2 /\ k + 1 # 0
  BY UploadConstants
<1>3. Tmp(target[u]) = <<n, k + 1>>
  BY <1>1 DEF Tmp
<1> QED BY <1>1, <1>2, <1>3 DEF Path

LEMMA TypeInit == Init => TypeOK
BY UploadConstants DEF Init, TypeOK, InFlight, Answered

\* Every step keeps the types.
LEMMA TypeStep == TypeOK /\ [Next]_vars => TypeOK'
<1> SUFFICES ASSUME TypeOK, [Next]_vars PROVE TypeOK'
  OBVIOUS
<1> USE UploadConstants DEF TypeOK, InFlight, Answered
<1>1. ASSUME NEW u \in Up, Arrive(u) PROVE TypeOK'
  BY <1>1 DEF Arrive
<1>2. ASSUME NEW u \in Up, Open(u) PROVE TypeOK'
  BY <1>2 DEF Open, AnswerToExisting
<1>3. ASSUME NEW u \in Up, OpenFails(u) PROVE TypeOK'
  BY <1>3 DEF OpenFails
<1>4. ASSUME NEW u \in Up, CopyPart(u) PROVE TypeOK'
  BY <1>4 DEF CopyPart
<1>5. ASSUME NEW u \in Up, CopyRest(u) PROVE TypeOK'
  BY <1>5 DEF CopyRest, CopyLeaves
<1>6. ASSUME NEW u \in Up, StepFails(u) PROVE TypeOK'
  BY <1>6 DEF StepFails
<1>7. ASSUME NEW u \in Up, Cleanup(u) PROVE TypeOK'
  BY <1>7 DEF Cleanup, AfterCleanup
<1>8. ASSUME NEW u \in Up, Rename(u) PROVE TypeOK'
  <2>1. dir[Tmp(target[u])] \in Up \cup {None}
    BY Paths
  <2>2. dir' \in [Path -> Up \cup {None}] /\ latest' \in [Path -> Up \cup {None}]
    BY <1>8, <2>1 DEF Rename, AfterRename
  <2> QED BY <1>8, <2>2 DEF Rename
<1>9. ASSUME NEW u \in Up, CleanupFails(u) PROVE TypeOK'
  BY <1>9 DEF CleanupFails
<1>10. CASE Crash
  BY <1>10 DEF Crash
<1>11. CASE UNCHANGED vars
  BY <1>11 DEF vars
<1> QED BY <1>1, <1>2, <1>3, <1>4, <1>5, <1>6, <1>7, <1>8, <1>9, <1>10, <1>11 DEF Next, Step

LEMMA TypeInvariance == SafeSpec => []TypeOK
BY TypeInit, TypeStep, PTL DEF SafeSpec

-----------------------------------------------------------------------------
(* Targets that are nobody's temp file *)

NoTmpTargets == Suffixes = {0}

\* Then a target is no temp path, and two uploads with one temp path have one
\* target.
LEMMA Targets ==
    ASSUME NoTmpTargets, TypeOK, NEW u \in Up, NEW v \in Up
    PROVE  /\ target[u] # Tmp(target[v])
           /\ Tmp(target[u]) = Tmp(target[v]) => target[u] = target[v]
           /\ target[u][2] = 0
BY Paths DEF NoTmpTargets, TypeOK, Tmp

\* The initial states satisfy the inductive invariant.
LEMMA InvInit == Init /\ NoTmpTargets => IndInv
<1> SUFFICES ASSUME Init, NoTmpTargets PROVE IndInv
  OBVIOUS
<1>1. TypeOK
  BY TypeInit
<1>2. TempOwned
  BY <1>1, Paths, UploadConstants DEF TempOwned, Init
<1> QED BY <1>1, <1>2, UploadConstants DEF Init, IndInv, TempInv, StoredInv

LEMMA InvOpen ==
    ASSUME IndInv, NoTmpTargets, TypeOK', NEW u \in Up, Open(u)
    PROVE  IndInv'
<1> DEFINE t == Tmp(target[u])
<1>1. t \in Path /\ t[2] # 0 /\ TypeOK
  BY Paths DEF IndInv
<1>2. CASE ~MayCreate(u)
  <2>1. pc' = [pc EXCEPT ![u] = "conflict"] /\ UNCHANGED <<target, dir, written, latest, stuck>>
    BY <1>2 DEF Open, AnswerToExisting
  <2>2. TempInv' /\ StoredInv' /\ TempOwned'
    BY <2>1, <1>1, UploadConstants DEF IndInv, TempInv, StoredInv, TempOwned, MayHaveTemp,
       TypeOK, Open, Answered
  <2> QED BY <2>1, <2>2 DEF IndInv
<1>3. CASE MayCreate(u)
  <2>1. /\ dir' = [dir EXCEPT ![t] = u] /\ pc' = [pc EXCEPT ![u] = "copy"]
        /\ UNCHANGED <<target, written, latest, stuck>> /\ dir[t] = None
    BY <1>3 DEF Open, MayCreate
  <2>2. TempInv'
    <3>1. ASSUME NEW v \in Up, v # u, pc[v] \in {"copy", "rename", "cleanup"}
          PROVE  dir'[Tmp(target[v])] = v
      BY <2>1, <1>1, <3>1, Paths, UploadConstants DEF IndInv, TempInv, TypeOK
    <3> QED BY <2>1, <1>1, <3>1 DEF IndInv, TempInv, TypeOK, Open
  <2>3. StoredInv'
    BY <2>1, <1>1, UploadConstants DEF IndInv, StoredInv, TypeOK, Open
  <2>4. TempOwned'
    BY <2>1, <1>1, Paths DEF IndInv, TempOwned, MayHaveTemp, TypeOK, Open
  <2> QED BY <2>1, <2>2, <2>3, <2>4 DEF IndInv
<1> QED BY <1>2, <1>3

\* Steps that change no directory entry.
LEMMA InvQuiet ==
    ASSUME IndInv, NoTmpTargets, TypeOK', NEW u \in Up,
           \/ Arrive(u) \/ OpenFails(u) \/ CopyPart(u) \/ CopyRest(u)
           \/ StepFails(u) \/ CleanupFails(u)
    PROVE  IndInv'
<1>1. UNCHANGED <<target, dir, latest>>
  BY DEF Arrive, OpenFails, CopyPart, CopyRest, StepFails, CleanupFails
<1>2. TempInv'
  BY <1>1 DEF IndInv, TempInv, TypeOK, Arrive, OpenFails, CopyPart, CopyRest, CopyLeaves,
     StepFails, CleanupFails
<1>3. StoredInv'
  BY <1>1, UploadConstants DEF IndInv, StoredInv, TypeOK, Arrive, OpenFails, CopyPart, CopyRest,
     CopyLeaves, StepFails, CleanupFails
<1>4. TempOwned'
  BY <1>1 DEF IndInv, TempOwned, MayHaveTemp, TypeOK, Arrive, OpenFails, CopyPart, CopyRest,
     StepFails, CleanupFails
<1> QED BY <1>1, <1>2, <1>3, <1>4 DEF IndInv

LEMMA InvCleanup ==
    ASSUME IndInv, NoTmpTargets, TypeOK', NEW u \in Up, Cleanup(u)
    PROVE  IndInv'
<1> DEFINE t == Tmp(target[u])
<1>1. t \in Path /\ t[2] # 0 /\ TypeOK /\ dir[t] = u
  BY Paths DEF IndInv, TempInv, Cleanup
<1>2. /\ dir' = [dir EXCEPT ![t] = None] /\ pc' = [pc EXCEPT ![u] = "failed"]
      /\ UNCHANGED <<target, written, latest, stuck>> /\ pc[u] = "cleanup"
  BY DEF Cleanup, AfterCleanup
<1>3. TempInv'
  <2>1. ASSUME NEW v \in Up, v # u, pc[v] \in {"copy", "rename", "cleanup"}
        PROVE  dir'[Tmp(target[v])] = v
    BY <1>1, <1>2, <2>1, Paths DEF IndInv, TempInv, TypeOK
  <2> QED BY <1>1, <1>2, <2>1 DEF IndInv, TempInv, TypeOK
<1>4. StoredInv'
  BY <1>1, <1>2, UploadConstants DEF IndInv, StoredInv, TypeOK
<1>5. TempOwned'
  BY <1>1, <1>2, Paths, UploadConstants DEF IndInv, TempOwned, MayHaveTemp, TypeOK
<1> QED BY <1>2, <1>3, <1>4, <1>5 DEF IndInv

LEMMA InvRename ==
    ASSUME IndInv, NoTmpTargets, TypeOK', NEW u \in Up, Rename(u)
    PROVE  IndInv'
<1> DEFINE t == Tmp(target[u])
<1>1. t \in Path /\ t[2] # 0 /\ target[u] \in Path /\ TypeOK /\ dir[t] = u /\ pc[u] = "rename"
  BY Paths DEF IndInv, TempInv, Rename
<1>2. target[u][2] = 0 /\ target[u] # t /\ u # None
  BY <1>1, Targets, UploadConstants
<1>3. /\ dir' = [dir EXCEPT ![target[u]] = u, ![t] = None]
      /\ pc' = [pc EXCEPT ![u] = "stored"]
      /\ latest' = [latest EXCEPT ![target[u]] = u]
      /\ UNCHANGED <<target, written, stuck>>
  BY <1>1, <1>2 DEF Rename, AfterRename
<1>4. TempInv'
  <2>1. ASSUME NEW v \in Up, v # u, pc[v] \in {"copy", "rename", "cleanup"}
        PROVE  dir'[Tmp(target[v])] = v
    <3>1. dir[Tmp(target[v])] = v /\ Tmp(target[v]) # t /\ Tmp(target[v]) \in Path
      BY <1>1, <2>1, Paths DEF IndInv, TempInv
    <3>2. Tmp(target[v]) # target[u]
      BY <1>1, Targets
    <3> QED BY <1>1, <1>3, <3>1, <3>2 DEF TypeOK
  <2> QED BY <1>1, <1>3, <2>1 DEF IndInv, TempInv, TypeOK
<1>5. StoredInv'
  <2>1. written[u] = "all"
    BY <1>1 DEF IndInv, TempInv
  <2>2. ASSUME NEW p \in Path, p[2] = 0, p # target[u]
        PROVE  dir'[p] = dir[p] /\ latest'[p] = latest[p]
    BY <1>1, <1>3, <2>2 DEF TypeOK
  <2>3. dir'[target[u]] = u /\ latest'[target[u]] = u /\ pc'[u] = "stored"
    BY <1>1, <1>2, <1>3 DEF TypeOK
  <2>4. ASSUME NEW v \in Up, pc[v] = "stored" PROVE pc'[v] = "stored"
    BY <1>1, <1>3, <2>4 DEF TypeOK
  <2>5. ASSUME NEW p \in Path, p[2] = 0
        PROVE  /\ dir'[p] = latest'[p]
               /\ dir'[p] # None => pc'[dir'[p]] = "stored" /\ written'[dir'[p]] = "all"
    <3>1. CASE p = target[u]
      BY <3>1, <1>3, <2>1, <2>3
    <3>2. CASE p # target[u]
      <4>1. dir'[p] = dir[p] /\ latest'[p] = latest[p]
        BY <2>2, <2>5, <3>2
      <4>2. /\ dir[p] = latest[p] /\ dir[p] \in Up \cup {None}
            /\ dir[p] # None => pc[dir[p]] = "stored" /\ written[dir[p]] = "all"
        BY <1>1, <2>5 DEF IndInv, StoredInv, TypeOK
      <4> QED BY <1>3, <2>4, <4>1, <4>2
    <3> QED BY <3>1, <3>2
  <2> QED BY <2>5 DEF StoredInv
<1>6. TempOwned'
  <2>1. ASSUME NEW v \in Up, dir'[Tmp(target[v])] = v
        PROVE  MayHaveTemp(v)'
    <3>1. Tmp(target[v]) \in Path /\ Tmp(target[v]) # target[u] /\ v # None
      BY <1>1, Paths, Targets, UploadConstants
    <3>2. dir[Tmp(target[v])] = v /\ v # u
      BY <1>1, <1>2, <1>3, <2>1, <3>1 DEF TypeOK
    <3>3. MayHaveTemp(v)
      BY <3>2 DEF IndInv, TempOwned
    <3> QED BY <1>1, <1>3, <3>2, <3>3 DEF MayHaveTemp, TypeOK
  <2> QED BY <1>3, <2>1 DEF TempOwned
<1>7. \A p \in Path : p[2] # 0 => latest'[p] = None
  BY <1>1, <1>2, <1>3 DEF IndInv, TypeOK
<1> QED BY <1>4, <1>5, <1>6, <1>7 DEF IndInv

LEMMA InvCrash ==
    ASSUME IndInv, NoTmpTargets, TypeOK', Crash
    PROVE  IndInv'
<1>1. UNCHANGED <<target, dir, written, latest, stuck>>
  BY DEF Crash
<1>2. ASSUME NEW v \in Up
      PROVE  /\ pc'[v] \notin {"copy", "rename", "cleanup"}
             /\ pc[v] \in {"stored", "failed"} => pc'[v] = pc[v]
             /\ pc[v] \in {"copy", "rename", "cleanup", "lost"} => pc'[v] = "lost"
  BY DEF Crash, InFlight, IndInv, TypeOK
<1>3. TempInv' /\ TempOwned'
  BY <1>1, <1>2 DEF IndInv, TempInv, TempOwned, MayHaveTemp, TypeOK
<1>4. ASSUME NEW p \in Path, p[2] = 0
      PROVE  /\ dir'[p] = latest'[p]
             /\ dir'[p] # None => pc'[dir'[p]] = "stored" /\ written'[dir'[p]] = "all"
  <2>1. /\ dir[p] = latest[p] /\ dir[p] \in Up \cup {None}
        /\ dir[p] # None => pc[dir[p]] = "stored" /\ written[dir[p]] = "all"
    BY <1>4 DEF IndInv, StoredInv, TypeOK
  <2> QED BY <1>1, <1>2, <2>1
<1>5. StoredInv'
  BY <1>4 DEF StoredInv
<1> QED BY <1>1, <1>3, <1>5 DEF IndInv

LEMMA InvStep == IndInv /\ NoTmpTargets /\ [Next]_vars => IndInv'
<1> SUFFICES ASSUME IndInv, NoTmpTargets, [Next]_vars PROVE IndInv'
  OBVIOUS
<1>1. TypeOK'
  BY TypeStep DEF IndInv
<1>2. CASE UNCHANGED vars
  BY <1>2 DEF vars, IndInv, TypeOK, TempInv, StoredInv, TempOwned, MayHaveTemp
<1> QED BY <1>1, <1>2, InvOpen, InvQuiet, InvCleanup, InvRename, InvCrash DEF Next, Step

LEMMA Invariance == NoTmpTargets /\ SafeSpec => []IndInv
<1> SUFFICES ASSUME NoTmpTargets PROVE SafeSpec => []IndInv
  OBVIOUS
<1>1. Init => IndInv
  BY InvInit
<1>2. IndInv /\ [Next]_vars => IndInv'
  BY InvStep
<1> QED BY <1>1, <1>2, PTL DEF SafeSpec

-----------------------------------------------------------------------------
\* The variables keep their types, for all targets.
THEOREM TypeCorrect == SafeSpec => []TypeOK
BY TypeInvariance

\* A target never shows a part of a file, through any number of concurrent
\* uploads, failures and crashes, when no target ends in ".tmp".
THEOREM TargetsWhole == Suffixes = {0} /\ SafeSpec => []NeverPartial
<1>1. IndInv => NeverPartial
  BY DEF IndInv, StoredInv, NeverPartial
<1> QED BY Invariance, <1>1, PTL DEF NoTmpTargets

\* A target shows what the last successful upload of it sent, when no target
\* ends in ".tmp".
THEOREM TargetsOwn == Suffixes = {0} /\ SafeSpec => []StoredIsOwn
<1>1. IndInv => StoredIsOwn
  BY DEF IndInv, StoredInv, StoredIsOwn
<1> QED BY Invariance, <1>1, PTL DEF NoTmpTargets

\* A temp file is there only while its own upload is at work, or since a crash
\* interrupted it or the system refused to remove it, when no target ends in
\* ".tmp".
THEOREM TempFilesOwned == Suffixes = {0} /\ SafeSpec => []TempOwned
<1>1. IndInv => TempOwned
  BY DEF IndInv
<1> QED BY <1>1, Invariance, PTL DEF NoTmpTargets

-----------------------------------------------------------------------------
(* Conflicts *)

LEMMA NamedStep == TypeOK /\ NoTmpTargets /\ TempNamed /\ [Next]_vars => TempNamed'
<1> SUFFICES ASSUME TypeOK, NoTmpTargets, TempNamed, [Next]_vars PROVE TempNamed'
  OBVIOUS
<1>1. ASSUME UNCHANGED <<dir, target>> PROVE TempNamed'
  BY <1>1 DEF TempNamed
<1>2. ASSUME NEW u \in Up, Open(u) PROVE TempNamed'
  BY <1>2, Paths DEF Open, AnswerToExisting, TempNamed, TypeOK
<1>3. ASSUME NEW u \in Up, Cleanup(u) PROVE TempNamed'
  BY <1>3, Paths DEF Cleanup, AfterCleanup, TempNamed, TypeOK
<1>4. ASSUME NEW u \in Up, Rename(u) PROVE TempNamed'
  BY <1>4, Paths, Targets DEF Rename, AfterRename, TempNamed, TypeOK
<1>5. CASE \/ Crash \/ UNCHANGED vars
           \/ \E u \in Up : \/ Arrive(u) \/ OpenFails(u) \/ CopyPart(u)
                            \/ CopyRest(u) \/ StepFails(u) \/ CleanupFails(u)
  BY <1>1, <1>5 DEF Crash, vars, Arrive, OpenFails, CopyPart, CopyRest, StepFails, CleanupFails
<1> QED BY <1>2, <1>3, <1>4, <1>5 DEF Next, Step

\* The file in the way of an upload belongs to another one of its target, which
\* is not answered, was lost, or could not be cleared away.
LEMMA ConflictStep ==
    IndInv /\ NoTmpTargets /\ TempNamed /\ [Next]_vars =>
        \A u \in Up : pc[u] = "open" /\ pc'[u] = "conflict" =>
            \E v \in Up \ {u} : target[v] = target[u] /\ MayHaveTemp(v)
<1> SUFFICES ASSUME IndInv, NoTmpTargets, TempNamed, [Next]_vars,
                    NEW u \in Up, pc[u] = "open", pc'[u] = "conflict"
             PROVE  \E v \in Up \ {u} : target[v] = target[u] /\ MayHaveTemp(v)
  OBVIOUS
<1>1. TypeOK
  BY DEF IndInv
<1>2. Open(u) /\ ~MayCreate(u)
  <2>1. ASSUME NEW w \in Up, Arrive(w) \/ Step(w), w # u PROVE pc'[u] = pc[u]
    BY <1>1, <2>1 DEF TypeOK, Arrive, Step, Open, OpenFails, CopyPart, CopyRest,
                      StepFails, Cleanup, CleanupFails, Rename
  <2>2. ASSUME Arrive(u) \/ OpenFails(u) \/ CopyPart(u) \/ CopyRest(u) \/ StepFails(u)
               \/ Cleanup(u) \/ CleanupFails(u) \/ Rename(u)
        PROVE  FALSE
    BY <1>1, <2>2 DEF TypeOK, Arrive, OpenFails, CopyPart, CopyRest, StepFails, Cleanup,
                      CleanupFails, Rename
  <2>3. ~Crash /\ ~UNCHANGED vars
    BY <1>1 DEF TypeOK, Crash, InFlight, vars
  <2>4. Open(u)
    BY <2>1, <2>2, <2>3 DEF Next, Step
  <2> QED BY <1>1, <2>4 DEF Open, TypeOK
<1>3. dir[Tmp(target[u])] \in Up
  BY <1>1, <1>2, Paths DEF MayCreate, TypeOK
<1> DEFINE v == dir[Tmp(target[u])]
<1>4. Tmp(target[v]) = Tmp(target[u])
  BY <1>1, <1>3, Paths, UploadConstants DEF TempNamed
<1>5. target[v] = target[u] /\ MayHaveTemp(v)
  BY <1>1, <1>3, <1>4, Targets DEF IndInv, TempOwned
<1>6. v # u
  BY <1>1, <1>5 DEF MayHaveTemp, IndInv, TempInv
<1> QED BY <1>3, <1>5, <1>6

\* An upload is answered with a conflict only when its target exists, or when
\* another upload of it is at work, was interrupted by a crash, or left a temp
\* file that the system refused to remove; when no target ends in ".tmp".
THEOREM ConflictsExplained == Suffixes = {0} /\ SafeSpec => ConflictExplained
<1> SUFFICES ASSUME Suffixes = {0} PROVE SafeSpec => ConflictExplained
  OBVIOUS
<1>1. NoTmpTargets
  BY DEF NoTmpTargets
<1>2. SafeSpec => []IndInv
  BY <1>1, Invariance
<1>3. Init => TempNamed
  BY DEF Init, TempNamed
<1>4. TypeOK /\ TempNamed /\ [Next]_vars => TempNamed'
  BY <1>1, NamedStep
<1>5. IndInv /\ TempNamed /\ [Next]_vars =>
        \A u \in Up : pc[u] = "open" /\ pc'[u] = "conflict" =>
            \/ dir[target[u]] # None
            \/ \E v \in Up \ {u} : target[v] = target[u] /\ MayHaveTemp(v)
  BY <1>1, ConflictStep
<1> QED BY <1>2, <1>3, <1>4, <1>5, TypeInvariance, PTL DEF SafeSpec, ConflictExplained

-----------------------------------------------------------------------------
(* The promise of FileStore *)

\* Under every name there is nothing or a whole file.
LEMMA ShownIsWhole ==
    ASSUME IndInv, NEW n \in Name
    PROVE  <<n, 0>> \in Path /\ Shown(n) = dir[<<n, 0>>]
<1>1. <<n, 0>> \in Path /\ <<n, 0>>[2] = 0
  BY DEF Path
<1>2. dir[<<n, 0>>] # None => written[dir[<<n, 0>>]] = "all"
  BY <1>1 DEF IndInv, StoredInv
<1> QED
  BY <1>1, <1>2 DEF Shown

\* What a step does to targets, contents and answers is what it does to the
\* promise.
LEMMA SamePromise ==
    ASSUME IndInv, IndInv', target' = target
    PROVE  /\ (\A n \in Name : dir'[<<n, 0>>] = dir[<<n, 0>>])
                 => [n \in Name |-> Shown(n)]' = [n \in Name |-> Shown(n)]
           /\ [u \in Up |-> target[u][1]]' = [u \in Up |-> target[u][1]]
           /\ (\A u \in Up : Told(u)' = Told(u))
                 => [u \in Up |-> Told(u)]' = [u \in Up |-> Told(u)]
<1>1. ASSUME NEW n \in Name PROVE Shown(n)' = dir'[<<n, 0>>]
  <2>1. ASSUME NEW m \in Name PROVE IndInv => Shown(m) = dir[<<m, 0>>]
    BY ShownIsWhole
  <2>2. IndInv' => Shown(n)' = dir'[<<n, 0>>]
    <3>1. <<n, 0>> \in Path /\ <<n, 0>>[2] = 0
      BY DEF Path
    <3>2. IndInv' => (dir'[<<n, 0>>] # None => written'[dir'[<<n, 0>>]] = "all")
      BY <3>1 DEF IndInv, StoredInv
    <3> QED
      BY <3>2 DEF Shown
  <2> QED
    BY <2>2
<1> QED
  BY <1>1, ShownIsWhole

\* A step that leaves every target and every answer alone is a stutter.
LEMMA StepStutters ==
    ASSUME IndInv, IndInv', target' = target,
           \A n \in Name : dir'[<<n, 0>>] = dir[<<n, 0>>],
           \A u \in Up : Told(u)' = Told(u)
    PROVE  UNCHANGED Promise!storeVars
BY SamePromise DEF Promise!storeVars

\* A step that only gives one upload an answer refuses it.
LEMMA StepRefuses ==
    ASSUME IndInv, IndInv', target' = target, NEW u \in Up, NEW reason,
           \A n \in Name : dir'[<<n, 0>>] = dir[<<n, 0>>],
           Told(u) = "pending", Told(u)' = reason,
           \A v \in Up \ {u} : Told(v)' = Told(v)
    PROVE  Promise!Refuse(u, reason)
<1>1. [v \in Up |-> Told(v)]' = [[v \in Up |-> Told(v)] EXCEPT ![u] = reason]
  OBVIOUS
<1> QED
  BY <1>1, SamePromise DEF Promise!Refuse

\* The rename stores the upload.
LEMMA RenameStores ==
    ASSUME IndInv, IndInv', NoTmpTargets, NEW u \in Up, Rename(u)
    PROVE  Promise!Store(u)
<1>1. TypeOK /\ target' = target /\ pc[u] = "rename"
  BY DEF IndInv, Rename
<1>2. dir[Tmp(target[u])] = u
  BY <1>1 DEF IndInv, TempInv
<1>3. /\ dir' = [dir EXCEPT ![target[u]] = u, ![Tmp(target[u])] = None]
      /\ pc' = [pc EXCEPT ![u] = "stored"]
  BY <1>2, UploadConstants DEF Rename, AfterRename
<1>4. target[u] \in Path /\ Tmp(target[u]) \in Path /\ target[u] # Tmp(target[u])
      /\ Tmp(target[u])[2] # 0 /\ target[u] = <<target[u][1], 0>> /\ target[u][1] \in Name
  BY <1>1, Paths, Targets DEF TypeOK
<1>5. \A n \in Name : dir'[<<n, 0>>] = IF n = target[u][1] THEN u ELSE dir[<<n, 0>>]
  <2> TAKE n \in Name
  <2>1. <<n, 0>> \in Path /\ <<n, 0>> # Tmp(target[u])
        /\ (<<n, 0>> = target[u] <=> n = target[u][1])
    BY <1>4 DEF Path
  <2> QED
    BY <1>1, <1>3, <1>4, <2>1 DEF TypeOK
<1>6. \A n \in Name : Shown(n)' = dir'[<<n, 0>>] /\ Shown(n) = dir[<<n, 0>>]
  <2>1. \A n \in Name : Shown(n) = dir[<<n, 0>>]
    BY ShownIsWhole
  <2>2. \A n \in Name : <<n, 0>> \in Path /\ <<n, 0>>[2] = 0
    BY DEF Path
  <2>3. \A n \in Name : dir'[<<n, 0>>] # None => written'[dir'[<<n, 0>>]] = "all"
    BY <2>2 DEF IndInv, StoredInv
  <2> QED
    BY <2>1, <2>3 DEF Shown
<1>7. [n \in Name |-> Shown(n)]' =
         [[n \in Name |-> Shown(n)] EXCEPT ![[v \in Up |-> target[v][1]][u]] = u]
  BY <1>4, <1>5, <1>6
<1>8. [v \in Up |-> Told(v)]' = [[v \in Up |-> Told(v)] EXCEPT ![u] = "stored"]
  BY <1>1, <1>3 DEF Told, InFlight, TypeOK
<1>9. Told(u) = "pending"
  BY <1>1 DEF Told, InFlight
<1> QED
  BY <1>1, <1>7, <1>8, <1>9, SamePromise DEF Promise!Store

\* A crash loses the uploads that are under way.
LEMMA CrashLoses ==
    ASSUME IndInv, IndInv', Crash
    PROVE  \E S \in SUBSET Up : Promise!Lose(S)
<1> DEFINE S == {u \in Up : pc[u] \in InFlight}
<1>1. TypeOK /\ target' = target /\ dir' = dir
  BY DEF IndInv, Crash
<1>2. \A u \in Up : Told(u)' = IF u \in S THEN "lost" ELSE Told(u)
  BY <1>1 DEF Crash, Told, InFlight
<1>3. [u \in Up |-> Told(u)]' = [u \in Up |-> IF u \in S THEN "lost" ELSE [v \in Up |-> Told(v)][u]]
  BY <1>2
<1>4. \A u \in S : [v \in Up |-> Told(v)][u] = "pending"
  BY DEF Told
<1>5. S \in SUBSET Up
  OBVIOUS
<1> HIDE DEF S
<1>6. Promise!Lose(S)
  BY <1>1, <1>3, <1>4, SamePromise DEF Promise!Lose
<1> QED
  BY <1>5, <1>6

\* An upload in whose way another one is may be answered with a conflict.
LEMMA OpenConflicts ==
    ASSUME IndInv, NoTmpTargets, TempNamed, [Next]_vars,
           NEW u \in Up, pc[u] = "open", pc'[u] = "conflict"
    PROVE  Promise!Contended(u)
<1>1. PICK v \in Up \ {u} : target[v] = target[u] /\ MayHaveTemp(v)
  BY ConflictStep
<1>2. Told(v) \in {"pending", "lost", "failed"}
  BY <1>1 DEF MayHaveTemp, IndInv, TempInv, Told, InFlight
<1> QED
  BY <1>1, <1>2 DEF Promise!Contended

\* Every step of the upload directory is one of the promise, or a stutter.
LEMMA PromiseStep ==
    ASSUME IndInv, IndInv', NoTmpTargets, TempNamed, [Next]_vars
    PROVE  [Promise!Next]_(Promise!storeVars)
<1> DEFINE Stutter == UNCHANGED Promise!storeVars
<1> SUFFICES Promise!Next \/ Stutter
  OBVIOUS
<1> HIDE DEF Stutter
<1>1. TypeOK
  BY DEF IndInv
<1>2. ASSUME target' = target, dir' = dir, \A u \in Up : Told(u)' = Told(u) PROVE Stutter
  BY <1>2, StepStutters DEF Stutter
<1>3. ASSUME NEW u \in Up, NEW reason \in {"refused", "failed"}, target' = target, dir' = dir,
             Told(u) = "pending", pc' = [pc EXCEPT ![u] = reason]
      PROVE  Promise!Next
  <2>1. Told(u)' = reason /\ \A v \in Up \ {u} : Told(v)' = Told(v)
    BY <1>1, <1>3 DEF Told, InFlight, TypeOK
  <2>2. Promise!Refuse(u, reason)
    BY <1>3, <2>1, StepRefuses
  <2> QED
    BY <2>2 DEF Promise!Next
<1>4. ASSUME NEW u \in Up, Arrive(u) PROVE Promise!Next \/ Stutter
  <2>1. CASE pc' = [pc EXCEPT ![u] = "open"]
    <3>1. \A v \in Up : Told(v)' = Told(v)
      BY <1>1, <1>4, <2>1 DEF Arrive, Told, InFlight, TypeOK
    <3> QED
      BY <1>2, <1>4, <3>1 DEF Arrive
  <2>2. CASE pc' = [pc EXCEPT ![u] = "refused"]
    <3>1. Told(u) = "pending"
      BY <1>4 DEF Arrive, Told
    <3> QED
      BY <1>3, <1>4, <2>2, <3>1 DEF Arrive
  <2> QED
    BY <1>4, <2>1, <2>2 DEF Arrive
<1>5. ASSUME NEW u \in Up, Open(u) PROVE Promise!Next \/ Stutter
  <2>1. CASE MayCreate(u)
    <3>1. /\ dir' = [dir EXCEPT ![Tmp(target[u])] = u] /\ target' = target
          /\ pc' = [pc EXCEPT ![u] = "copy"] /\ pc[u] = "open"
      BY <1>5, <2>1 DEF Open
    <3>2. \A n \in Name : dir'[<<n, 0>>] = dir[<<n, 0>>]
      <4>1. Tmp(target[u])[2] # 0
        BY <1>1, Paths
      <4>2. \A n \in Name : <<n, 0>> \in Path /\ <<n, 0>> # Tmp(target[u])
        BY <4>1 DEF Path
      <4> QED
        BY <1>1, <3>1, <4>2 DEF TypeOK
    <3>3. \A v \in Up : Told(v)' = Told(v)
      BY <1>1, <3>1 DEF Told, InFlight, TypeOK
    <3> QED
      BY <3>1, <3>2, <3>3, StepStutters DEF Stutter
  <2>2. CASE ~MayCreate(u)
    <3>1. /\ dir' = dir /\ target' = target
          /\ pc' = [pc EXCEPT ![u] = "conflict"] /\ pc[u] = "open"
      BY <1>5, <2>2 DEF Open, AnswerToExisting
    <3>2. Told(u) = "pending" /\ Told(u)' = "conflict" /\ \A v \in Up \ {u} : Told(v)' = Told(v)
      BY <1>1, <3>1 DEF Told, InFlight, TypeOK
    <3>3. Promise!Refuse(u, "conflict")
      BY <3>1, <3>2, StepRefuses
    <3>4. pc'[u] = "conflict"
      BY <1>1, <3>1 DEF TypeOK
    <3>5. Promise!Contended(u)
      BY <3>1, <3>4, OpenConflicts
    <3> QED
      BY <3>3, <3>5 DEF Promise!Next
  <2> QED
    BY <2>1, <2>2
<1>6. ASSUME NEW u \in Up, OpenFails(u) PROVE Promise!Next
  <2>1. Told(u) = "pending"
    BY <1>6 DEF OpenFails, Told, InFlight
  <2> QED
    BY <1>3, <1>6, <2>1 DEF OpenFails
<1>7. ASSUME NEW u \in Up, CopyPart(u) \/ CopyRest(u) \/ StepFails(u) PROVE Stutter
  <2>1. \A v \in Up : Told(v)' = Told(v)
    BY <1>1, <1>7 DEF CopyPart, CopyRest, StepFails, Told, InFlight, TypeOK
  <2> QED
    BY <1>2, <1>7, <2>1 DEF CopyPart, CopyRest, StepFails
<1>8. ASSUME NEW u \in Up, Cleanup(u) PROVE Promise!Next
  <2>1. /\ dir' = [dir EXCEPT ![Tmp(target[u])] = None] /\ target' = target
        /\ pc' = [pc EXCEPT ![u] = "failed"] /\ pc[u] = "cleanup"
    BY <1>8 DEF Cleanup, AfterCleanup
  <2>2. \A n \in Name : dir'[<<n, 0>>] = dir[<<n, 0>>]
    <3>1. Tmp(target[u])[2] # 0
      BY <1>1, Paths
    <3>2. \A n \in Name : <<n, 0>> \in Path /\ <<n, 0>> # Tmp(target[u])
      BY <3>1 DEF Path
    <3> QED
      BY <1>1, <2>1, <3>2 DEF TypeOK
  <2>3. Told(u) = "pending" /\ Told(u)' = "failed" /\ \A v \in Up \ {u} : Told(v)' = Told(v)
    BY <1>1, <2>1 DEF Told, InFlight, TypeOK
  <2>4. Promise!Refuse(u, "failed")
    BY <2>1, <2>2, <2>3, StepRefuses
  <2> QED
    BY <2>4 DEF Promise!Next
<1>9. ASSUME NEW u \in Up, Rename(u) PROVE Promise!Next
  BY <1>9, RenameStores DEF Promise!Next
<1>10. ASSUME NEW u \in Up, CleanupFails(u) PROVE Promise!Next
  <2>1. Told(u) = "pending"
    BY <1>10 DEF CleanupFails, Told, InFlight
  <2> QED
    BY <1>3, <1>10, <2>1 DEF CleanupFails
<1>11. CASE Crash
  BY <1>11, CrashLoses DEF Promise!Next
<1>12. CASE UNCHANGED vars
  BY <1>2, <1>12 DEF vars, Told
<1> QED
  BY <1>4, <1>5, <1>6, <1>7, <1>8, <1>9, <1>10, <1>11, <1>12 DEF Next, Step

\* Uploads are atomic for those who read the targets: the upload directory, with
\* its temp files, its renames, failing disks and crashes, implements FileStore,
\* when no target ends in ".tmp".
THEOREM StoreImplemented == Suffixes = {0} /\ SafeSpec => ImplementsStore
<1> SUFFICES ASSUME Suffixes = {0} PROVE SafeSpec => ImplementsStore
  OBVIOUS
<1>1. NoTmpTargets
  BY DEF NoTmpTargets
<1>2. SafeSpec => []IndInv
  BY <1>1, Invariance
<1>3. Init => TempNamed
  BY DEF Init, TempNamed
<1>4. TypeOK /\ TempNamed /\ [Next]_vars => TempNamed'
  BY <1>1, NamedStep
<1>5. Init => Promise!Init
  <2> SUFFICES ASSUME Init PROVE Promise!Init
    OBVIOUS
  <2>1. \A n \in Name : <<n, 0>> \in Path
    BY DEF Path
  <2>2. [n \in Name |-> Shown(n)] = [n \in Name |-> None]
    BY <2>1 DEF Init, Shown
  <2>3. [u \in Up |-> Told(u)] = [u \in Up |-> "pending"]
    BY DEF Init, Told
  <2>4. \A u \in Up : target[u][1] \in Name
    BY DEF Init
  <2> QED
    BY <2>2, <2>3, <2>4 DEF Promise!Init
<1>6. IndInv /\ IndInv' /\ TempNamed /\ [Next]_vars => [Promise!Next]_(Promise!storeVars)
  BY <1>1, PromiseStep
<1> QED
  BY <1>2, <1>3, <1>4, <1>5, <1>6, TypeInvariance, PTL DEF SafeSpec, ImplementsStore, Promise!Spec
=============================================================================
