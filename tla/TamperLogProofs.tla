-------------------------- MODULE TamperLogProofs --------------------------
(***************************************************************************)
(* Proofs about the audit log, for any set of calls, any bound on the      *)
(* calls in flight and any number of processes: the entries of a process   *)
(* form one chain, and a file written without overlapping calls and        *)
(* without failed writes verifies after any number of crashes.             *)
(***************************************************************************)
EXTENDS TamperLog, SequenceTheorems, FiniteSetTheorems, TLAPS

(***************************************************************************)
(* Types                                                                   *)
(***************************************************************************)

LEMMA TypeInit == Init => TypeOK
<1> SUFFICES ASSUME Init PROVE TypeOK
  OBVIOUS
<1>1. torn \in BOOLEAN /\ smooth \in BOOLEAN
  BY Zenon DEF Init
<1>2. NoEntry \in [seq : Nat, prev : Call \cup {Genesis}, life : 0..MaxLife]
  BY LogConstants DEF NoEntry
<1>3. entry \in [Call -> [seq : Nat, prev : Call \cup {Genesis}, life : 0..MaxLife]]
  BY <1>2 DEF Init
<1>4. Nothing \in [call : Call \cup {Genesis}, dead : BOOLEAN]
  BY DEF Nothing
<1>5. /\ file \in Seq(Call \cup {Garbage}) /\ queue \in Seq(Call)
      /\ Len(queue) <= QueueCap
  BY LogConstants DEF Init
<1> QED BY <1>1, <1>3, <1>4, <1>5, LogConstants DEF Init, TypeOK

LEMMA TypeChain ==
    ASSUME TypeOK, NEW c \in Call, Chain(c)
    PROVE  TypeOK'
<1>1. [seq |-> NextSeq, prev |-> lastHash, life |-> life]
         \in [seq : Nat, prev : Call \cup {Genesis}, life : 0..MaxLife]
  BY LogConstants DEF NextSeq, TypeOK
<1>2. smooth' \in BOOLEAN
  BY Zenon DEF Chain, TypeOK
<1> QED BY <1>1, <1>2 DEF Chain, TypeOK, NextSeq, NextHash, fileVars, replicaVars

LEMMA TypeQueue ==
    ASSUME TypeOK, queue # <<>>
    PROVE  /\ Head(queue) \in Call
           /\ Tail(queue) \in Seq(Call)
           /\ Len(Tail(queue)) <= QueueCap
BY HeadTailProperties, LogConstants DEF TypeOK

LEMMA TypeStep == TypeOK /\ [Next]_vars => TypeOK'
<1> SUFFICES ASSUME TypeOK, [Next]_vars PROVE TypeOK'
  OBVIOUS
<1> USE DEF callVars, chainVars, fileVars, replicaVars
<1>1. ASSUME NEW c \in Call, AppendEntry(c) PROVE TypeOK'
  <2>1. file' \in Seq(Call \cup {Garbage})
    BY <1>1 DEF AppendEntry, LineOf, TypeOK
  <2> QED BY <1>1, <2>1 DEF AppendEntry, TypeOK
<1>2. ASSUME NEW c \in Call, AppendFails(c) PROVE TypeOK'
  <2>1. torn' \in BOOLEAN
    BY <1>2, Zenon DEF AppendFails, TypeOK
  <2> QED BY <1>2, <2>1 DEF AppendFails, AfterFailedWrite, TypeOK
<1>3. ASSUME NEW c \in Call, Enqueue(c) PROVE TypeOK'
  <2>1. queue' \in Seq(Call) /\ Len(queue') <= QueueCap
    BY <1>3, AppendProperties, LogConstants DEF Enqueue, HasRoom, TypeOK
  <2> QED BY <1>3, <2>1 DEF Enqueue, TypeOK
<1>4. CASE DispatchTake
  <2>1. sending' = [call |-> Head(queue), dead |-> CtxDone] /\ Head(queue) \in Call
    BY <1>4, TypeQueue DEF DispatchTake
  <2>2. CtxDone \in BOOLEAN
    BY Zenon DEF CtxDone
  <2>3. sending' \in [call : Call \cup {Genesis}, dead : BOOLEAN] /\ sending'.call \in Call
    BY <2>1, <2>2
  <2> QED BY <1>4, <2>3, TypeQueue DEF DispatchTake, TypeOK
<1>5. CASE DispatchSent
  <2>1. sending' \in [call : Call \cup {Genesis}, dead : BOOLEAN]
    BY <1>5 DEF DispatchSent, Nothing
  <2>2. mq' \subseteq Call /\ disp' = "idle"
    BY <1>5 DEF DispatchSent, TypeOK
  <2> QED BY <1>5, <2>1, <2>2 DEF DispatchSent, TypeOK
<1>6. CASE DispatchExit
  BY <1>6 DEF DispatchExit, TypeOK
<1>7. CASE CloseBegins
  <2>1. Queued \subseteq Call
    BY DEF Queued, TypeOK
  <2>2. pending' \subseteq Call /\ mode' = "cancelled"
    BY <1>7, <2>1 DEF CloseBegins, TypeOK
  <2> QED BY <1>7, <2>2 DEF CloseBegins, TypeOK
<1>8. CASE CloseDrains
  BY <1>8 DEF CloseDrains, TypeOK
<1>9. CASE DrainOne
  <2>1. mq' \subseteq Call
    BY <1>9, TypeQueue DEF DrainOne, TypeOK
  <2> QED BY <1>9, <2>1, TypeQueue DEF DrainOne, TypeOK
<1>10. CASE CloseEnds
  BY <1>10 DEF CloseEnds, TypeOK
<1>11. CASE Crash
  <2>1. Nothing \in [call : Call \cup {Genesis}, dead : BOOLEAN]
    BY DEF Nothing
  <2>2. queue' \in Seq(Call) /\ Len(queue') <= QueueCap
    BY <1>11, LogConstants DEF Crash
  <2>3. pc' \in [Call -> {"new", "chained", "appended", "done", "failed", "lost"}]
    BY <1>11 DEF Crash, TypeOK
  <2>4. disp' = "exited" /\ mode' = "down" /\ pending' = {} /\ sending' = Nothing
    BY <1>11 DEF Crash
  <2> QED BY <1>11, <2>1, <2>2, <2>3, <2>4 DEF Crash, TypeOK
<1>12. CASE Restart
  <2>1. life' \in 1..MaxLife
    BY <1>12, LogConstants DEF Restart, TypeOK
  <2>2. CASE Unreadable
    BY <1>12, <2>1, <2>2 DEF Restart, TypeOK
  <2>3. CASE ~Unreadable
    <3>1. file = <<>> \/ file[Len(file)] \in Call
      BY <2>3 DEF Unreadable, TypeOK
    <3>2. RecoveredSeq \in Nat /\ RecoveredHash \in Call \cup {Genesis}
      BY <3>1 DEF RecoveredSeq, RecoveredHash, TypeOK
    <3> QED BY <1>12, <2>1, <2>3, <3>2 DEF Restart, TypeOK
  <2> QED BY <2>2, <2>3
<1>13. CASE UNCHANGED vars
  BY <1>13 DEF vars, TypeOK, Queued
<1> QED BY <1>1, <1>2, <1>3, <1>4, <1>5, <1>6, <1>7, <1>8, <1>9, <1>10, <1>11,
           <1>12, <1>13, TypeChain DEF Next, Dispatcher, Closer

\* The variables of the log keep their types.
THEOREM TypeCorrect == SafeSpec => []TypeOK
<1>1. TypeOK /\ [Next]_vars => TypeOK'
  BY TypeStep
<1> QED BY <1>1, TypeInit, PTL DEF SafeSpec

(***************************************************************************)
(* The chain of one process                                                *)
(***************************************************************************)

LEMMA ChainInvInit == Init => ChainInv
BY DEF Init, ChainInv, ChainLinear, NoEntry

\* A step that numbers no entry and recovers nothing.
LEMMA ChainInvSame ==
    ASSUME ChainInv, UNCHANGED <<life, entry, lastSeq, lastHash>>,
           \A c \in Call : pc'[c] = "new" => pc[c] = "new"
    PROVE  ChainInv'
BY DEF ChainInv, ChainLinear

LEMMA ChainInvChain ==
    ASSUME TypeOK, ChainInv, NEW c \in Call, Chain(c)
    PROVE  ChainInv'
<1>1. /\ lastSeq' = lastSeq + 1 /\ lastHash' = c /\ life' = life
      /\ entry' = [entry EXCEPT ![c] =
                      [seq |-> lastSeq + 1, prev |-> lastHash, life |-> life]]
      /\ pc' = [pc EXCEPT ![c] = "chained"] /\ pc[c] = "new"
  BY DEF Chain, NextSeq, NextHash
<1>2. /\ entry'[c].seq = lastSeq + 1 /\ entry'[c].prev = lastHash
      /\ entry'[c].life = life /\ life \in Nat /\ life # 0 /\ lastSeq \in Nat
  BY <1>1, LogConstants DEF TypeOK
<1>3. \A d \in Call : /\ d # c => entry'[d] = entry[d]
                      /\ entry[d].seq \in Nat /\ entry[d].life \in Nat
                      /\ entry[d].life = life => entry[d].seq <= lastSeq
  BY <1>1, LogConstants DEF TypeOK, ChainInv
<1>4. ChainLinear'
  <2> SUFFICES ASSUME NEW d \in Call, NEW e \in Call,
                      entry'[d].life = entry'[e].life, entry'[d].life # 0
               PROVE  /\ entry'[d].seq = entry'[e].seq => d = e
                      /\ entry'[e].seq = entry'[d].seq + 1 => entry'[e].prev = d
    BY DEF ChainLinear
  <2>1. CASE d = c /\ e = c
    BY <1>2, <2>1
  <2>2. CASE d = c /\ e # c
    BY <1>2, <1>3, <2>2
  <2>3. CASE d # c /\ e = c
    <3>1. entry[d].life = life /\ entry[d].seq <= lastSeq
      BY <1>2, <1>3, <2>3
    <3>2. entry[d].seq = lastSeq => d = lastHash
      BY <3>1 DEF ChainInv
    <3> QED BY <1>2, <1>3, <2>3, <3>1, <3>2
  <2>4. CASE d # c /\ e # c
    BY <1>3, <2>4 DEF ChainInv, ChainLinear
  <2> QED BY <2>1, <2>2, <2>3, <2>4
<1>5. ASSUME NEW d \in Call
      PROVE  /\ entry'[d].life <= life'
             /\ pc'[d] = "new" => entry'[d].life = 0
             /\ entry'[d].life = life' => entry'[d].seq <= lastSeq'
             /\ entry'[d].life = life' /\ entry'[d].seq = lastSeq' => lastHash' = d
  <2>1. CASE d = c
    BY <1>1, <1>2, <2>1 DEF TypeOK
  <2>2. CASE d # c
    BY <1>1, <1>2, <1>3, <2>2 DEF ChainInv, TypeOK
  <2> QED BY <2>1, <2>2
<1> QED BY <1>4, <1>5 DEF ChainInv

\* A new process starts with no entry of its own.
LEMMA ChainInvRestart ==
    ASSUME TypeOK, ChainInv, Restart
    PROVE  ChainInv'
<1>1. life' = life + 1 /\ UNCHANGED <<pc, entry>>
  BY DEF Restart, callVars
<1>2. \A c \in Call : entry[c].life \in Nat /\ life \in Nat /\ entry[c].life # life'
                      /\ entry[c].life <= life'
  BY <1>1, LogConstants DEF TypeOK, ChainInv
<1> QED BY <1>1, <1>2 DEF ChainInv, ChainLinear

LEMMA ChainInvStep == TypeOK /\ ChainInv /\ [Next]_vars => ChainInv'
<1> SUFFICES ASSUME TypeOK, ChainInv, [Next]_vars PROVE ChainInv'
  OBVIOUS
<1> USE DEF callVars, chainVars, fileVars, replicaVars
<1>1. ASSUME UNCHANGED <<life, entry, lastSeq, lastHash, pc>> PROVE ChainInv'
  BY <1>1, ChainInvSame
<1>2. ASSUME NEW c \in Call, NEW p, p # "new", pc' = [pc EXCEPT ![c] = p],
             UNCHANGED <<life, entry, lastSeq, lastHash>>
      PROVE  ChainInv'
  <2>1. \A d \in Call : pc'[d] = "new" => pc[d] = "new"
    BY <1>2 DEF TypeOK
  <2> QED BY <1>2, <2>1, ChainInvSame
<1>3. ASSUME NEW c \in Call, AppendEntry(c) \/ AppendFails(c) \/ Enqueue(c)
      PROVE  ChainInv'
  BY <1>2, <1>3 DEF AppendEntry, AppendFails, Enqueue, AfterFailedWrite
<1>4. CASE Crash
  <2>1. \A d \in Call : pc'[d] = "new" => pc[d] = "new"
    BY <1>4 DEF Crash
  <2> QED BY <1>4, <2>1, ChainInvSame DEF Crash
<1>5. CASE Dispatcher
  BY <1>1, <1>5 DEF Dispatcher, DispatchTake, DispatchSent, DispatchExit
<1>6. CASE CloseBegins \/ Closer
  BY <1>1, <1>6 DEF CloseBegins, Closer, CloseDrains, DrainOne, CloseEnds
<1>7. CASE UNCHANGED vars
  BY <1>1, <1>7 DEF vars
<1> QED BY <1>3, <1>4, <1>5, <1>6, <1>7, ChainInvChain, ChainInvRestart DEF Next

\* The entries one process issues form one chain with unique numbers, in
\* whatever order the calls append them and whatever writes fail.
THEOREM ChainIsLinear == SafeSpec => []ChainLinear
<1>1. TypeOK /\ ChainInv /\ [Next]_vars => ChainInv'
  BY ChainInvStep
<1>2. ChainInv => ChainLinear
  BY DEF ChainInv
<1> QED BY <1>1, <1>2, ChainInvInit, TypeCorrect, PTL DEF SafeSpec

(***************************************************************************)
(* Verification of a file written without overlaps and failed writes       *)
(***************************************************************************)

LEMMA SmoothInit == Init => SmoothInv
BY DEF Init, SmoothInv, Lines, Chained, FollowsFile

\* A step that leaves the file, its entries and the calls in place.
LEMMA SmoothSame ==
    ASSUME SmoothInv, UNCHANGED <<smooth, torn, file, entry, lastSeq, lastHash, pc>>,
           Installed' = Installed
    PROVE  SmoothInv'
<1>1. Chained' = Chained /\ Lines' = Lines
  BY DEF Chained, Lines
<1>2. \A h : FollowsFile(h)' <=> FollowsFile(h)
  BY DEF FollowsFile
<1> QED BY <1>1, <1>2 DEF SmoothInv, FollowsFile

\* The facts about the lines survive a step that touches no entry on file.
LEMMA LinesKept ==
    ASSUME SmoothInv, smooth, file' = file, torn' = torn,
           \A i \in Lines : /\ entry'[file[i]] = entry[file[i]]
                            /\ pc'[file[i]] \notin {"new", "chained"}
    PROVE  /\ ~torn'
           /\ \A i \in Lines' :
                /\ file'[i] \in Call
                /\ pc'[file'[i]] \notin {"new", "chained"}
                /\ entry'[file'[i]].seq = i
                /\ i > 1 => entry'[file'[i]].prev = file'[i - 1]
<1>1. Lines' = Lines
  BY DEF Lines
<1>2. \A i \in Lines : i > 1 => i - 1 \in Lines
  BY DEF Lines
<1> QED BY <1>1, <1>2 DEF SmoothInv

LEMMA SmoothChain ==
    ASSUME TypeOK, SmoothInv, NEW c \in Call, Chain(c)
    PROVE  SmoothInv'
<1> SUFFICES ASSUME smooth' PROVE SmoothInv'
  BY DEF SmoothInv
<1>1. smooth /\ Chained = {}
  BY DEF Chain
<1>2. lastSeq = Len(file) /\ FollowsFile(lastHash) /\ Installed
  BY <1>1 DEF SmoothInv, Chain
<1>3. /\ entry' = [entry EXCEPT ![c] =
                      [seq |-> lastSeq + 1, prev |-> lastHash, life |-> life]]
      /\ pc' = [pc EXCEPT ![c] = "chained"] /\ pc[c] = "new"
      /\ lastSeq' = lastSeq + 1 /\ lastHash' = c
      /\ UNCHANGED <<mode, file, torn>>
  BY DEF Chain, NextSeq, NextHash, fileVars
<1>4. Chained' = {c}
  BY <1>1, <1>3 DEF Chained, TypeOK
<1>5. \A i \in Lines : /\ entry'[file[i]] = entry[file[i]]
                       /\ pc'[file[i]] \notin {"new", "chained"}
  BY <1>1, <1>3 DEF SmoothInv, TypeOK
<1>6. entry'[c].seq = Len(file') + 1 /\ FollowsFile(entry[c].prev)'
  BY <1>2, <1>3 DEF FollowsFile, TypeOK
<1>7. Installed' /\ lastSeq' = Len(file') + 1 /\ lastHash' = c
  BY <1>2, <1>3 DEF Installed
<1> QED BY <1>1, <1>3, <1>4, <1>5, <1>6, <1>7, LinesKept DEF SmoothInv

LEMMA SmoothAppend ==
    ASSUME TypeOK, SmoothInv, NEW c \in Call, AppendEntry(c)
    PROVE  SmoothInv'
<1> SUFFICES ASSUME smooth' PROVE SmoothInv'
  BY DEF SmoothInv
<1>1. smooth /\ ~torn /\ c \in Chained /\ Chained = {c}
  BY DEF AppendEntry, SmoothInv, Chained
<1>2. /\ file' = Append(file, c) /\ torn' = FALSE
      /\ pc' = [pc EXCEPT ![c] = "appended"]
      /\ UNCHANGED <<mode, entry, lastSeq, lastHash>>
  BY <1>1 DEF AppendEntry, LineOf, chainVars
<1>3. /\ entry[c].seq = Len(file) + 1 /\ FollowsFile(entry[c].prev)
      /\ lastSeq = Len(file) + 1 /\ lastHash = c
  BY <1>1 DEF SmoothInv
<1>4. /\ Len(file') = Len(file) + 1 /\ Len(file) \in Nat
      /\ file'[Len(file) + 1] = c
      /\ \A i \in Lines : file'[i] = file[i] /\ i \in Lines'
      /\ Lines' = Lines \cup {Len(file) + 1}
  BY <1>2, AppendProperties DEF TypeOK, Lines
<1>5. Chained' = {}
  BY <1>1, <1>2 DEF Chained, TypeOK
<1>6. ASSUME NEW i \in Lines'
      PROVE  /\ file'[i] \in Call
             /\ pc'[file'[i]] \notin {"new", "chained"}
             /\ entry'[file'[i]].seq = i
             /\ i > 1 => entry'[file'[i]].prev = file'[i - 1]
  <2>1. CASE i \in Lines
    <3>1. /\ file[i] \in Call /\ pc[file[i]] \notin {"new", "chained"}
          /\ entry[file[i]].seq = i
          /\ i > 1 => entry[file[i]].prev = file[i - 1] /\ i - 1 \in Lines
      BY <1>1, <2>1 DEF SmoothInv, Lines
    <3> QED BY <1>2, <1>4, <2>1, <3>1 DEF TypeOK
  <2>2. CASE i = Len(file) + 1
    <3>1. i > 1 => Len(file) \in Lines /\ entry[c].prev = file[Len(file)]
      BY <1>3, <1>4, <2>2 DEF FollowsFile, Lines
    <3> QED BY <1>2, <1>3, <1>4, <2>2, <3>1 DEF TypeOK
  <2> QED BY <1>4, <2>1, <2>2
<1>7. lastSeq' = Len(file') /\ FollowsFile(lastHash)'
  BY <1>2, <1>3, <1>4 DEF FollowsFile
<1> QED BY <1>2, <1>5, <1>6, <1>7 DEF SmoothInv

LEMMA SmoothEnqueue ==
    ASSUME TypeOK, SmoothInv, NEW c \in Call, Enqueue(c)
    PROVE  SmoothInv'
<1> SUFFICES ASSUME smooth' PROVE SmoothInv'
  BY DEF SmoothInv
<1>1. /\ pc' = [pc EXCEPT ![c] = "done"] /\ pc[c] = "appended"
      /\ UNCHANGED <<mode, entry, lastSeq, lastHash, file, torn, smooth>>
  BY DEF Enqueue, HasRoom, chainVars, fileVars
<1>2. Chained' = Chained
  BY <1>1 DEF Chained, TypeOK
<1>3. \A i \in Lines : /\ entry'[file[i]] = entry[file[i]]
                       /\ pc'[file[i]] \notin {"new", "chained"}
  BY <1>1 DEF SmoothInv, TypeOK
<1>4. \A h : FollowsFile(h)' <=> FollowsFile(h)
  BY <1>1 DEF FollowsFile
<1>5. Installed' = Installed
  BY <1>1 DEF Installed
<1> QED BY <1>1, <1>2, <1>3, <1>4, <1>5, LinesKept DEF SmoothInv, FollowsFile

LEMMA SmoothCrash ==
    ASSUME TypeOK, SmoothInv, Crash
    PROVE  SmoothInv'
<1> SUFFICES ASSUME smooth' PROVE SmoothInv'
  BY DEF SmoothInv
<1>1. /\ mode' = "down" /\ smooth
      /\ pc' = [d \in Call |-> IF d \in InFlight THEN "lost" ELSE pc[d]]
      /\ UNCHANGED <<entry, file, torn, smooth>>
  BY DEF Crash, fileVars
<1>2. Chained' = {}
  BY <1>1 DEF Chained, InFlight
<1>3. ~Installed'
  BY <1>1 DEF Installed
<1>4. \A i \in Lines : /\ entry'[file[i]] = entry[file[i]]
                       /\ pc'[file[i]] \notin {"new", "chained"}
  BY <1>1 DEF SmoothInv
<1> QED BY <1>1, <1>2, <1>3, <1>4, LinesKept DEF SmoothInv

\* Every line of a smooth file parses, so the recovery never falls back, and
\* it takes up the chain where the last line leaves it.
LEMMA SmoothRestart ==
    ASSUME TypeOK, SmoothInv, Restart
    PROVE  SmoothInv'
<1> SUFFICES ASSUME smooth' PROVE SmoothInv'
  BY DEF SmoothInv
<1>1. smooth /\ UNCHANGED <<entry, file, torn, smooth, pc>>
  BY DEF Restart, callVars, fileVars
<1>2. Chained = {}
  BY <1>1 DEF SmoothInv, Restart, Installed
<1>3. Chained' = {}
  BY <1>1, <1>2 DEF Chained
<1>4. file # <<>> => Len(file) \in Lines
  BY EmptySeq DEF TypeOK, Lines
<1>5. ~Unreadable
  BY <1>1, <1>4, LogConstants DEF SmoothInv, Unreadable
<1>6. lastSeq' = Len(file) /\ (Len(file) > 0 => lastHash' = file[Len(file)])
  BY <1>1, <1>4, <1>5 DEF Restart, RecoveredSeq, RecoveredHash, SmoothInv
<1>7. \A i \in Lines : /\ entry'[file[i]] = entry[file[i]]
                       /\ pc'[file[i]] \notin {"new", "chained"}
  BY <1>1 DEF SmoothInv
<1>8. FollowsFile(lastHash)' /\ lastSeq' = Len(file')
  BY <1>1, <1>6 DEF FollowsFile
<1> QED BY <1>1, <1>3, <1>7, <1>8, LinesKept DEF SmoothInv

LEMMA SmoothStep == TypeOK /\ SmoothInv /\ [Next]_vars => SmoothInv'
<1> SUFFICES ASSUME TypeOK, SmoothInv, [Next]_vars PROVE SmoothInv'
  OBVIOUS
<1> USE DEF callVars, chainVars, fileVars, replicaVars
<1>1. ASSUME NEW c \in Call, AppendFails(c) PROVE SmoothInv'
  BY <1>1 DEF AppendFails, SmoothInv
<1>2. ASSUME UNCHANGED <<smooth, torn, file, entry, lastSeq, lastHash, pc>>,
             Installed' = Installed
      PROVE  SmoothInv'
  BY <1>2, SmoothSame
<1>3. CASE Dispatcher
  <2>1. mode' = mode
    BY <1>3 DEF Dispatcher, DispatchTake, DispatchSent, DispatchExit
  <2>2. Installed' = Installed
    BY <2>1 DEF Installed
  <2> QED BY <1>2, <1>3, <2>2 DEF Dispatcher, DispatchTake, DispatchSent, DispatchExit
<1>4. CASE CloseBegins \/ Closer
  <2>1. Installed /\ Installed'
    BY <1>4 DEF CloseBegins, Closer, CloseDrains, DrainOne, CloseEnds, Installed
  <2> QED BY <1>2, <1>4, <2>1
          DEF CloseBegins, Closer, CloseDrains, DrainOne, CloseEnds
<1>5. CASE UNCHANGED vars
  <2>1. Installed' = Installed
    BY <1>5 DEF vars, Installed
  <2> QED BY <1>2, <1>5, <2>1 DEF vars
<1> QED BY <1>1, <1>3, <1>4, <1>5, SmoothChain, SmoothAppend, SmoothEnqueue,
           SmoothCrash, SmoothRestart DEF Next

\* A log written without overlapping calls and without failed writes, whose
\* previews are valid UTF-8, passes --verify-log at every moment, across any
\* number of crashes and restarts.
THEOREM SmoothLogVerifies == SafeSpec => []SmoothVerifies
<1>1. TypeOK /\ SmoothInv /\ [Next]_vars => SmoothInv'
  BY SmoothStep
<1>2. SmoothInv => SmoothVerifies
  BY LogConstants DEF SmoothInv, SmoothVerifies, Verifies, LineVerifies
<1> QED BY <1>1, <1>2, SmoothInit, TypeCorrect, PTL DEF SafeSpec

(***************************************************************************)
(* What is replicated is on file                                           *)
(***************************************************************************)

LEMMA RecordedInit == Init => RecordedInv
BY DEF Init, RecordedInv, Queued

\* A line appended behind the others leaves every call on file where it is.
LEMMA StillOnFile ==
    ASSUME TypeOK, NEW l \in Call \cup {Garbage}, file' = Append(file, l)
    PROVE  /\ Lines' = Lines \cup {Len(file) + 1}
           /\ \A i \in Lines : file'[i] = file[i]
           /\ file'[Len(file) + 1] = l
           /\ Len(file) \in Nat /\ Len(file') = Len(file) + 1
BY AppendProperties DEF TypeOK, Lines

\* What leaves the head of the queue was in it, and what remains was too.
LEMMA HeadQueued ==
    ASSUME TypeOK, queue # <<>>
    PROVE  /\ Head(queue) \in Queued
           /\ queue' = Tail(queue) => Queued' \subseteq Queued
<1>1. Head(queue) = queue[1] /\ 1 \in 1..Len(queue)
  BY HeadTailProperties, EmptySeq DEF TypeOK
<1>2. ASSUME queue' = Tail(queue), NEW i \in 1..Len(queue')
      PROVE  i + 1 \in 1..Len(queue) /\ queue'[i] = queue[i + 1]
  BY <1>2, HeadTailProperties DEF TypeOK
<1> QED BY <1>1, <1>2 DEF Queued

LEMMA RecordedStep == TypeOK /\ RecordedInv /\ [Next]_vars => RecordedInv'
<1> SUFFICES ASSUME TypeOK, RecordedInv, [Next]_vars PROVE RecordedInv'
  OBVIOUS
<1> USE DEF callVars, chainVars, fileVars, replicaVars
<1> DEFINE Past == {"appended", "done"}
<1> DEFINE OnDisk(c) == \E i \in Lines : file[i] \in {c, Garbage}
\* It suffices that no call gets past its write, or into the queue, otherwise.
<1>1. ASSUME file' = file,
             \A c \in Call : pc'[c] \in Past => pc[c] \in Past,
             \A c \in Call : pc[c] = "done" => pc'[c] = "done",
             \A c \in mq' \cup Queued' \cup pending' : c \in Call /\ pc'[c] = "done",
             disp' = "sending" => pc'[sending'.call] = "done"
      PROVE  RecordedInv'
  <2>1. Lines' = Lines
    BY <1>1 DEF Lines
  <2> QED BY <1>1, <2>1 DEF RecordedInv
<1>2. \A c \in mq \cup Queued \cup pending : c \in Call /\ pc[c] = "done"
  BY DEF RecordedInv, TypeOK, Queued
<1>3. ASSUME NEW c \in Call, Chain(c) \/ AppendFails(c) PROVE RecordedInv'
  <2>1. /\ pc' = [pc EXCEPT ![c] = "chained"] \/ pc' = [pc EXCEPT ![c] = "failed"]
        /\ pc[c] \in {"new", "chained"}
        /\ UNCHANGED <<file, queue, disp, sending, mq, pending>>
    BY <1>3 DEF Chain, AppendFails, AfterFailedWrite
  <2>2. Queued' = Queued
    BY <2>1 DEF Queued
  <2>3. \A d \in Call : (d = c \/ pc'[d] = pc[d]) /\ pc'[c] \in {"chained", "failed"}
    BY <2>1 DEF TypeOK
  <2>4. disp' = "sending" => sending'.call \in Call /\ pc[sending'.call] = "done"
    BY <2>1 DEF RecordedInv, TypeOK
  <2> QED BY <1>1, <1>2, <2>1, <2>2, <2>3, <2>4
<1>4. ASSUME NEW c \in Call, AppendEntry(c) PROVE RecordedInv'
  <2>1. /\ file' = Append(file, LineOf(c)) /\ pc' = [pc EXCEPT ![c] = "appended"]
        /\ pc[c] = "chained"
        /\ UNCHANGED <<queue, disp, sending, mq, pending>>
    BY <1>4 DEF AppendEntry
  <2>2. LineOf(c) \in {c, Garbage}
    BY DEF LineOf
  <2>3. /\ \A i \in Lines : i \in Lines' /\ file'[i] = file[i]
        /\ Len(file) + 1 \in Lines' /\ file'[Len(file) + 1] = LineOf(c)
    BY <2>1, <2>2, StillOnFile
  <2>4. \A d \in Call : d # c => pc'[d] = pc[d]
    BY <2>1 DEF TypeOK
  <2>5. Queued' = Queued
    BY <2>1 DEF Queued
  <2>6. ASSUME NEW d \in Call, pc'[d] \in Past
        PROVE  \E i \in Lines' : file'[i] \in {d, Garbage}
    <3>1. CASE d = c
      BY <2>2, <2>3, <3>1
    <3>2. CASE d # c
      <4>1. PICK i \in Lines : file[i] \in {d, Garbage}
        BY <2>4, <2>6, <3>2 DEF RecordedInv
      <4> QED BY <2>3, <4>1
    <3> QED BY <3>1, <3>2
  <2>7. \A d \in mq' \cup Queued' \cup pending' : pc'[d] = "done"
    BY <1>2, <2>1, <2>4, <2>5
  <2>8. disp' = "sending" => pc'[sending'.call] = "done"
    BY <2>1, <2>4 DEF RecordedInv, TypeOK
  <2> QED BY <2>6, <2>7, <2>8 DEF RecordedInv
<1>5. ASSUME NEW c \in Call, Enqueue(c) PROVE RecordedInv'
  <2>1. /\ pc' = [pc EXCEPT ![c] = "done"] /\ pc[c] = "appended"
        /\ UNCHANGED <<file, disp, sending, mq, pending>>
    BY <1>5 DEF Enqueue
  <2>2. Queued' \subseteq Queued \cup {c}
    BY <1>5, AppendProperties DEF Enqueue, Queued, TypeOK
  <2>3. \A d \in Call : (d # c => pc'[d] = pc[d]) /\ pc'[c] = "done"
    BY <2>1 DEF TypeOK
  <2>4. disp' = "sending" => sending'.call \in Call /\ pc[sending'.call] = "done"
    BY <2>1 DEF RecordedInv, TypeOK
  <2> QED BY <1>1, <1>2, <2>1, <2>2, <2>3, <2>4
<1>6. ASSUME UNCHANGED <<file, pc>>,
             mq' \cup Queued' \cup pending' \subseteq
                 mq \cup Queued \cup pending
                 \cup (IF disp = "sending" THEN {sending.call} ELSE {}),
             disp' = "sending" => sending'.call \in Queued
                                  \/ (disp = "sending" /\ sending' = sending)
      PROVE  RecordedInv'
  BY <1>1, <1>2, <1>6 DEF RecordedInv, TypeOK
<1>7. CASE DispatchTake
  <2>1. sending'.call = Head(queue) /\ queue # <<>> /\ queue' = Tail(queue)
    BY <1>7 DEF DispatchTake
  <2> QED BY <1>6, <1>7, <2>1, HeadQueued DEF DispatchTake
<1>8. CASE DispatchSent
  <2>1. Queued' = Queued
    BY <1>8 DEF DispatchSent, Queued
  <2> QED BY <1>6, <1>8, <2>1 DEF DispatchSent
<1>9. CASE DispatchExit \/ CloseDrains \/ CloseEnds
  <2>1. Queued' = Queued
    BY <1>9 DEF DispatchExit, CloseDrains, CloseEnds, Queued
  <2> QED BY <1>6, <1>9, <2>1 DEF DispatchExit, CloseDrains, CloseEnds
<1>10. CASE CloseBegins
  <2>1. Queued' = Queued
    BY <1>10 DEF CloseBegins, Queued
  <2> QED BY <1>6, <1>10, <2>1 DEF CloseBegins
<1>11. CASE DrainOne
  BY <1>6, <1>11, HeadQueued DEF DrainOne
<1>12. CASE Crash
  <2>1. Queued' = {}
    BY <1>12 DEF Crash, Queued
  <2>2. \A c \in Call : /\ pc'[c] \in Past => pc[c] \in Past
                        /\ pc[c] = "done" => pc'[c] = "done"
    BY <1>12 DEF Crash, InFlight
  <2> QED BY <1>1, <1>2, <1>12, <2>1, <2>2 DEF Crash
<1>13. CASE Restart
  <2>1. Queued' = Queued
    BY <1>13 DEF Restart, Queued
  <2>2. UNCHANGED <<file, pc, sending, mq, pending>> /\ disp' \in {disp, "idle"}
    BY <1>13 DEF Restart
  <2> QED BY <1>6, <2>1, <2>2
<1>14. CASE UNCHANGED vars
  <2>1. Queued' = Queued
    BY <1>14 DEF vars, Queued
  <2> QED BY <1>6, <1>14, <2>1 DEF vars
<1> QED BY <1>3, <1>4, <1>5, <1>7, <1>8, <1>9, <1>10, <1>11, <1>12, <1>13, <1>14
        DEF Next, Dispatcher, Closer

\* Nothing is queued for replication, held at Close or replicated before it is
\* on file, across any number of crashes, restarts and failed writes.
THEOREM ReplicasAreRecorded == SafeSpec => []ReplicaRecorded
<1>1. TypeOK /\ RecordedInv /\ [Next]_vars => RecordedInv'
  BY RecordedStep
<1>2. TypeOK /\ RecordedInv => ReplicaRecorded
  BY DEF TypeOK, RecordedInv, ReplicaRecorded, Queued
<1> QED BY <1>1, <1>2, RecordedInit, TypeCorrect, PTL DEF SafeSpec

(***************************************************************************)
(* The numbers of the first process                                        *)
(***************************************************************************)

\* The calls in flight are finitely many, although Call need not be finite.
LEMMA FlightInit == Init => FlightBounded
<1> SUFFICES ASSUME Init PROVE FlightBounded
  OBVIOUS
<1>1. InFlight = {}
  BY DEF Init, InFlight
<1> QED BY <1>1, FS_EmptySet, LogConstants DEF FlightBounded

\* A step after which no other call is in flight.
LEMMA FlightShrinks ==
    ASSUME FlightBounded, InFlight' \subseteq InFlight
    PROVE  FlightBounded'
<1>1. /\ IsFiniteSet(InFlight') /\ Cardinality(InFlight') <= Cardinality(InFlight)
      /\ Cardinality(InFlight) \in Nat /\ Cardinality(InFlight') \in Nat
  BY FS_Subset, FS_CardinalityType DEF FlightBounded
<1> QED BY <1>1, LogConstants DEF FlightBounded

LEMMA FlightStep == TypeOK /\ FlightBounded /\ [Next]_vars => FlightBounded'
<1> SUFFICES ASSUME TypeOK, FlightBounded, [Next]_vars PROVE FlightBounded'
  OBVIOUS
<1> USE DEF callVars
<1>1. ASSUME NEW c \in Call, Chain(c) PROVE FlightBounded'
  <2>1. InFlight' = InFlight \cup {c} /\ Cardinality(InFlight) < MaxInFlight
        /\ c \notin InFlight
    BY <1>1 DEF Chain, InFlight, TypeOK
  <2>2. /\ IsFiniteSet(InFlight') /\ Cardinality(InFlight') = Cardinality(InFlight) + 1
        /\ Cardinality(InFlight) \in Nat
    BY <2>1, FS_AddElement, FS_CardinalityType DEF FlightBounded
  <2> QED BY <2>1, <2>2, LogConstants DEF FlightBounded
<1>2. ASSUME NEW c \in Call, AppendEntry(c) \/ AppendFails(c) \/ Enqueue(c)
      PROVE  FlightBounded'
  <2>1. InFlight' \subseteq InFlight
    BY <1>2 DEF AppendEntry, AppendFails, AfterFailedWrite, Enqueue, InFlight, TypeOK
  <2> QED BY <2>1, FlightShrinks
<1>3. CASE Crash
  <2>1. InFlight' \subseteq InFlight
    BY <1>3 DEF Crash, InFlight
  <2> QED BY <2>1, FlightShrinks
<1>4. ASSUME pc' = pc PROVE FlightBounded'
  BY <1>4, FlightShrinks DEF InFlight
<1> QED BY <1>1, <1>2, <1>3, <1>4
        DEF Next, Dispatcher, DispatchTake, DispatchSent, DispatchExit, CloseBegins,
            Closer, CloseDrains, DrainOne, CloseEnds, Restart, vars

\* The calls about to append are finitely many, and counted.
LEMMA ChainedBounded ==
    ASSUME FlightBounded
    PROVE  /\ IsFiniteSet(Chained) /\ Cardinality(Chained) \in Nat
           /\ Cardinality(Chained) <= MaxInFlight
<1>1. Chained \subseteq InFlight
  BY DEF Chained, InFlight
<1>2. /\ IsFiniteSet(Chained) /\ Cardinality(Chained) <= Cardinality(InFlight)
      /\ Cardinality(InFlight) \in Nat /\ Cardinality(Chained) \in Nat
  BY <1>1, FS_Subset, FS_CardinalityType DEF FlightBounded
<1> QED BY <1>2, LogConstants DEF FlightBounded

LEMMA CompleteInit == Init => CompleteInv
<1> SUFFICES ASSUME Init PROVE CompleteInv
  OBVIOUS
<1>1. Chained = {} /\ Lines = {} /\ Len(file) = 0 /\ lastSeq = 0 /\ ~torn
  BY DEF Init, Chained, Lines
<1>2. Cardinality(Chained) = 0
  BY <1>1, FS_EmptySet
<1> QED BY <1>1, <1>2 DEF CompleteInv

\* A step that leaves the log and the calls before their write alone. What a
\* dispatcher, Close or the end of the process does is such a step.
LEMMA CompleteSame ==
    ASSUME CompleteInv, UNCHANGED <<life, torn, file, entry, lastSeq>>,
           Installed' => Installed /\ Chained' = Chained,
           \A c \in Call : /\ pc[c] \notin {"new", "chained"} =>
                                   pc'[c] \notin {"new", "chained"}
                           /\ pc[c] = "failed" => pc'[c] = "failed"
    PROVE  CompleteInv'
<1> SUFFICES ASSUME FirstLife' PROVE CompleteInv'
  BY DEF CompleteInv
<1>1. FirstLife
  BY DEF FirstLife
<1>2. Lines' = Lines /\ \A c : OnFile(c)' <=> OnFile(c)
  BY DEF Lines, OnFile
<1> QED BY <1>1, <1>2 DEF CompleteInv

LEMMA CompleteChain ==
    ASSUME TypeOK, FlightBounded, CompleteInv, NEW c \in Call, Chain(c)
    PROVE  CompleteInv'
<1> SUFFICES ASSUME FirstLife' PROVE CompleteInv'
  BY DEF CompleteInv
<1>1. /\ Installed /\ pc[c] = "new" /\ pc' = [pc EXCEPT ![c] = "chained"]
      /\ lastSeq' = lastSeq + 1 /\ lastSeq \in Nat
      /\ entry' = [entry EXCEPT ![c] =
                      [seq |-> lastSeq + 1, prev |-> lastHash, life |-> life]]
      /\ UNCHANGED <<life, file, torn>>
  BY DEF Chain, NextSeq, fileVars, TypeOK
<1>2. FirstLife
  BY <1>1 DEF FirstLife, TypeOK
<1>3. Chained' = Chained \cup {c} /\ c \notin Chained
  BY <1>1 DEF Chained, TypeOK
<1>4. Cardinality(Chained') = Cardinality(Chained) + 1 /\ Cardinality(Chained) \in Nat
  BY <1>3, ChainedBounded, FS_AddElement
<1>5. Lines' = Lines /\ \A d : OnFile(d)' <=> OnFile(d)
  BY <1>1 DEF Lines, OnFile
<1>6. /\ entry'[c].seq = lastSeq + 1
      /\ \A d \in Call : d # c => entry'[d] = entry[d] /\ pc'[d] = pc[d]
  BY <1>1 DEF TypeOK
<1>7. ASSUME NEW i \in Lines
      PROVE  /\ file'[i] \in Call
             /\ pc'[file'[i]] \notin {"new", "chained"}
             /\ entry'[file'[i]].seq \in 1..lastSeq'
             /\ entry'[file'[i]].seq < i + MaxInFlight
  <2>1. /\ file[i] \in Call /\ file[i] # c
        /\ pc[file[i]] \notin {"new", "chained"}
        /\ entry[file[i]].seq \in 1..lastSeq /\ entry[file[i]].seq < i + MaxInFlight
    BY <1>1, <1>2 DEF CompleteInv
  <2> QED BY <1>1, <1>6, <2>1
<1>8. lastSeq' = Len(file') + Cardinality(Chained')
  <2>1. lastSeq = Len(file) + Cardinality(Chained) /\ Len(file) \in Nat
    BY <1>1, <1>2 DEF CompleteInv, TypeOK
  <2> QED BY <1>1, <1>4, <2>1
<1>9. \A d \in Chained' : entry'[d].seq \in 1..lastSeq'
  BY <1>1, <1>2, <1>3, <1>6 DEF CompleteInv, Chained
<1>10. ASSUME NEW n \in 1..lastSeq'
       PROVE  \E d \in Call : entry'[d].seq = n /\ (d \in Chained' \/ OnFile(d)')
  <2>1. CASE n = lastSeq + 1
    BY <1>3, <1>6, <2>1
  <2>2. CASE n # lastSeq + 1
    <3>1. n \in 1..lastSeq
      BY <1>1, <2>2
    <3>2. PICK d \in Call : entry[d].seq = n /\ (d \in Chained \/ OnFile(d))
      BY <1>1, <1>2, <3>1 DEF CompleteInv
    <3>3. d # c
      BY <1>1, <1>2, <1>3, <3>2 DEF CompleteInv, OnFile
    <3> QED BY <1>3, <1>5, <1>6, <3>2, <3>3
  <2> QED BY <2>1, <2>2
<1> QED BY <1>1, <1>2, <1>5, <1>7, <1>8, <1>9, <1>10 DEF CompleteInv

LEMMA CompleteAppend ==
    ASSUME TypeOK, FlightBounded, CompleteInv, NEW c \in Call, AppendEntry(c)
    PROVE  CompleteInv'
<1> SUFFICES ASSUME FirstLife' PROVE CompleteInv'
  BY DEF CompleteInv
<1>1. /\ pc[c] = "chained" /\ pc' = [pc EXCEPT ![c] = "appended"] /\ Installed
      /\ UNCHANGED <<mode, life, entry, lastSeq>>
      /\ file' = Append(file, LineOf(c)) /\ torn' = FALSE
  BY DEF AppendEntry, chainVars, FileOpen, Installed
<1>2. FirstLife
  BY <1>1 DEF FirstLife, TypeOK
<1>3. LineOf(c) = c
  BY <1>2 DEF LineOf, CompleteInv
<1>4. /\ Lines' = Lines \cup {Len(file) + 1} /\ file'[Len(file) + 1] = c
      /\ \A i \in Lines : file'[i] = file[i]
      /\ Len(file) \in Nat /\ Len(file') = Len(file) + 1
  BY <1>1, <1>3, StillOnFile
<1>5. Chained' = Chained \ {c} /\ c \in Chained
  BY <1>1 DEF Chained, TypeOK
<1>6. /\ Cardinality(Chained') = Cardinality(Chained) - 1
      /\ Cardinality(Chained) \in Nat /\ Cardinality(Chained) <= MaxInFlight
  BY <1>5, ChainedBounded, FS_RemoveElement
<1>7. /\ lastSeq = Len(file) + Cardinality(Chained) /\ lastSeq \in Nat
      /\ entry[c].seq \in 1..lastSeq
  BY <1>1, <1>2, <1>5 DEF CompleteInv, TypeOK
<1>8. \A d \in Call : (d # c => pc'[d] = pc[d]) /\ pc'[c] = "appended"
  BY <1>1 DEF TypeOK
<1>9. ASSUME NEW i \in Lines'
      PROVE  /\ file'[i] \in Call
             /\ pc'[file'[i]] \notin {"new", "chained"}
             /\ entry'[file'[i]].seq \in 1..lastSeq'
             /\ entry'[file'[i]].seq < i + MaxInFlight
  <2>1. CASE i \in Lines
    <3>1. /\ file[i] \in Call /\ pc[file[i]] \notin {"new", "chained"}
          /\ entry[file[i]].seq \in 1..lastSeq /\ entry[file[i]].seq < i + MaxInFlight
      BY <1>2, <2>1 DEF CompleteInv
    <3> QED BY <1>1, <1>4, <1>8, <2>1, <3>1
  <2>2. CASE i = Len(file) + 1
    <3>1. entry[c].seq < i + MaxInFlight
      BY <1>4, <1>6, <1>7, <2>2, LogConstants
    <3> QED BY <1>1, <1>4, <1>7, <1>8, <2>2, <3>1
  <2> QED BY <1>4, <2>1, <2>2
<1>10. lastSeq' = Len(file') + Cardinality(Chained')
  BY <1>1, <1>4, <1>6, <1>7
<1>11. \A d \in Chained' : entry'[d].seq \in 1..lastSeq'
  BY <1>1, <1>2, <1>5 DEF CompleteInv
<1>12. ASSUME NEW n \in 1..lastSeq'
       PROVE  \E d \in Call : entry'[d].seq = n /\ (d \in Chained' \/ OnFile(d)')
  <2>1. PICK d \in Call : entry[d].seq = n /\ (d \in Chained \/ OnFile(d))
    BY <1>1, <1>2, <1>12 DEF CompleteInv
  <2>2. CASE d = c
    BY <1>1, <1>4, <2>1, <2>2 DEF OnFile
  <2>3. CASE d # c
    BY <1>1, <1>4, <1>5, <2>1, <2>3 DEF OnFile
  <2> QED BY <2>2, <2>3
<1> QED BY <1>1, <1>2, <1>9, <1>10, <1>11, <1>12 DEF CompleteInv

LEMMA CompleteStep ==
    TypeOK /\ FlightBounded /\ CompleteInv /\ [Next]_vars => CompleteInv'
<1> SUFFICES ASSUME TypeOK, FlightBounded, CompleteInv, [Next]_vars PROVE CompleteInv'
  OBVIOUS
<1> USE DEF callVars, chainVars, fileVars, replicaVars
<1>1. ASSUME NEW c \in Call, AppendFails(c) PROVE CompleteInv'
  <2>1. pc'[c] = "failed"
    BY <1>1 DEF AppendFails, AfterFailedWrite, TypeOK
  <2> QED BY <2>1 DEF CompleteInv, FirstLife
<1>2. ASSUME NEW c \in Call, Enqueue(c) PROVE CompleteInv'
  <2>1. /\ pc[c] = "appended" /\ pc' = [pc EXCEPT ![c] = "done"]
        /\ UNCHANGED <<mode, life, torn, file, entry, lastSeq>> /\ Installed
    BY <1>2 DEF Enqueue
  <2>2. Chained' = Chained
    BY <2>1 DEF Chained, TypeOK
  <2>3. \A d \in Call : /\ pc[d] \notin {"new", "chained"} =>
                                 pc'[d] \notin {"new", "chained"}
                        /\ pc[d] = "failed" => pc'[d] = "failed"
    BY <2>1 DEF TypeOK
  <2> QED BY <2>1, <2>2, <2>3, CompleteSame
<1>3. CASE Crash
  <2>1. ~Installed' /\ UNCHANGED <<life, torn, file, entry, lastSeq>>
    BY <1>3 DEF Crash, Installed
  <2>2. \A d \in Call : /\ pc[d] \notin {"new", "chained"} =>
                                 pc'[d] \notin {"new", "chained"}
                        /\ pc[d] = "failed" => pc'[d] = "failed"
    BY <1>3 DEF Crash, InFlight
  <2> QED BY <2>1, <2>2, CompleteSame
\* The second process is not the first.
<1>4. CASE Restart
  <2>1. life' # 1
    BY <1>4, LogConstants DEF Restart, TypeOK
  <2> QED BY <2>1 DEF CompleteInv, FirstLife
<1>5. ASSUME UNCHANGED <<life, torn, file, entry, lastSeq, pc>>, Installed' => Installed
      PROVE  CompleteInv'
  <2>1. Chained' = Chained
    BY <1>5 DEF Chained
  <2> QED BY <1>5, <2>1, CompleteSame
<1>6. CASE Dispatcher
  BY <1>5, <1>6 DEF Dispatcher, DispatchTake, DispatchSent, DispatchExit, Installed
<1>7. CASE CloseBegins \/ Closer
  BY <1>5, <1>7 DEF CloseBegins, Closer, CloseDrains, DrainOne, CloseEnds, Installed
<1>8. CASE UNCHANGED vars
  BY <1>5, <1>8 DEF vars, Installed
<1> QED BY <1>1, <1>2, <1>3, <1>4, <1>6, <1>7, <1>8, CompleteChain, CompleteAppend
        DEF Next

\* The numbers of the first process, proved of every reachable state.
LEMMA CompleteInvariance == SafeSpec => []CompleteInv
<1>1. TypeOK /\ FlightBounded /\ [Next]_vars => FlightBounded'
  BY FlightStep
<1>2. SafeSpec => []FlightBounded
  BY <1>1, FlightInit, TypeCorrect, PTL DEF SafeSpec
<1>3. TypeOK /\ FlightBounded /\ CompleteInv /\ [Next]_vars => CompleteInv'
  BY CompleteStep
<1> QED BY <1>2, <1>3, CompleteInit, TypeCorrect, PTL DEF SafeSpec

\* Without failed writes the first process loses nothing: with no call in
\* flight the numbers on file are exactly 1 to the number of lines.
THEOREM FirstLifeIsComplete == SafeSpec => []FirstLifeComplete
<1>1. TypeOK /\ CompleteInv => FirstLifeComplete
  <2> SUFFICES ASSUME TypeOK, CompleteInv, life = 1, mode = "up", InFlight = {},
                      \A c \in Call : pc[c] # "failed"
               PROVE  {entry[file[i]].seq : i \in Lines} = Lines
    BY DEF FirstLifeComplete
  <2>1. FirstLife /\ Installed /\ Chained = {}
    BY DEF FirstLife, Installed, Chained, InFlight
  <2>2. lastSeq = Len(file) /\ Lines = 1..lastSeq
    BY <2>1, FS_EmptySet DEF CompleteInv, Lines, TypeOK
  <2>3. \A i \in Lines : entry[file[i]].seq \in Lines
    BY <2>1, <2>2 DEF CompleteInv
  <2>4. \A n \in Lines : \E i \in Lines : entry[file[i]].seq = n
    BY <2>1, <2>2 DEF CompleteInv, OnFile
  <2> QED BY <2>3, <2>4
<1> QED BY <1>1, CompleteInvariance, TypeCorrect, PTL

\* However the calls overlap, no line of the first process is further ahead of
\* its number than calls can be in flight.
THEOREM DisplacementIsBounded == SafeSpec => []DisplacementBound
<1>1. CompleteInv => DisplacementBound
  BY DEF CompleteInv, DisplacementBound, FirstLife
<1> QED BY <1>1, CompleteInvariance, PTL
=============================================================================
