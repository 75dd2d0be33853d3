----------------------------- MODULE TamperLog -----------------------------
(***************************************************************************)
(* The tamper-evident audit log (internal/logger/logger.go).               *)
(*                                                                         *)
(* Handle is called by every goroutine of the agent.  It numbers, chains   *)
(* and signs an entry in one critical section of t.mu, appends it to the   *)
(* file in a second one, and then offers it to the replication queue.  A   *)
(* dispatcher sends the queue to the message queue (internal/mq).  A new   *)
(* process recovers the sequence number and the last hash from the last    *)
(* line of the file.                                                       *)
(*                                                                         *)
(* Each Call is one Handle call.  The hash of an entry is the Call that    *)
(* made it: hashes collide for no two entries.  Canonicalising and signing *)
(* cannot fail for what the agent logs (strings, integers, durations).     *)
(***************************************************************************)
EXTENDS Integers, Sequences, FiniteSets

CONSTANTS
    Call,         \* the Handle calls, each made at most once
    Genesis,      \* the hash before the first entry (nil)
    Garbage,      \* a line of the file that is not the JSON of one entry
    Split,        \* the calls that sign an attribute which JSON does not give
                  \* back as it was, as a preview cut within a UTF-8 rune
    MaxInFlight,  \* BOUND on the goroutines logging at once
    MaxLife,      \* BOUND on the number of processes started
    QueueCap,     \* capacity of t.queue (4096)
    DiskMayFail,  \* whether file.Write may fail, leaving a part of the line
    HonoursCtx,   \* whether the sender refuses a context that is done
    SendMayFail   \* whether the sender may fail at other times

ASSUME LogConstants ==
    /\ Genesis \notin Call /\ Garbage \notin Call /\ Split \subseteq Call
    /\ MaxInFlight \in Nat \ {0} /\ MaxLife \in Nat \ {0} /\ QueueCap \in Nat
    /\ DiskMayFail \in BOOLEAN /\ HonoursCtx \in BOOLEAN /\ SendMayFail \in BOOLEAN

VARIABLES
    mode,      \* the process: "up", "cancelled", "draining", "closed", "down",
               \* or "fallback" (New failed, the agent logs to stderr)
    life,      \* the number of the process
    lastSeq,   \* t.seq
    lastHash,  \* t.lastHash
    pc,        \* where a Handle call is
    entry,     \* the entry it made: seq, prev, and the process that made it
    file,      \* the lines of the log file: Calls or Garbage
    torn,      \* the file ends in a part of a line, without a newline
    queue,     \* t.queue
    disp,      \* the dispatcher: "idle", "sending" or "exited"
    sending,   \* the entry it sends, and whether its context was done before
    mq,        \* the entries the message queue has
    pending,   \* history: queued or being sent when Close was called
    smooth     \* history: no two calls overlapped between numbering and
               \* appending, and no write failed

vars == <<mode, life, lastSeq, lastHash, pc, entry, file, torn, queue, disp,
          sending, mq, pending, smooth>>

callVars == <<pc, entry>>
chainVars == <<lastSeq, lastHash>>
fileVars == <<file, torn>>
replicaVars == <<queue, disp, sending, mq, pending>>

NoEntry == [seq |-> 0, prev |-> Genesis, life |-> 0]
Nothing == [call |-> Genesis, dead |-> FALSE]

\* The calls that have a number but are not yet on file.
Chained == {c \in Call : pc[c] = "chained"}
InFlight == {c \in Call : pc[c] \in {"chained", "appended"}}

\* The handler is installed: New succeeded and the process has not ended.
Installed == mode \in {"up", "cancelled", "draining", "closed"}
FileOpen == mode \in {"up", "cancelled", "draining"}

-----------------------------------------------------------------------------
Init ==
    /\ mode = "up" /\ life = 1
    /\ lastSeq = 0 /\ lastHash = Genesis
    /\ pc = [c \in Call |-> "new"]
    /\ entry = [c \in Call |-> NoEntry]
    /\ file = <<>> /\ torn = FALSE
    /\ queue = <<>> /\ disp = "idle" /\ sending = Nothing
    /\ mq = {} /\ pending = {}
    /\ smooth = TRUE

-----------------------------------------------------------------------------
(* Handle *)

\* A seeded fault: the number is not advanced.
NextSeqStuck == IF lastSeq = 0 THEN 1 ELSE lastSeq

NextSeq == lastSeq + 1

\* A seeded fault: the chain is not moved on.
NextHashStuck(c) == lastHash

NextHash(c) == c

\* The first critical section: number, chain and sign.
Chain(c) ==
    /\ Installed
    /\ pc[c] = "new"
    /\ Cardinality(InFlight) < MaxInFlight
    /\ lastSeq' = NextSeq
    /\ entry' = [entry EXCEPT ![c] = [seq |-> NextSeq, prev |-> lastHash, life |-> life]]
    /\ lastHash' = NextHash(c)
    /\ pc' = [pc EXCEPT ![c] = "chained"]
    /\ smooth' = (smooth /\ Chained = {})
    /\ UNCHANGED <<mode, life, fileVars, replicaVars>>

\* What a successful write adds to the file: behind a part of a line, the
\* whole line is unreadable.
LineOf(c) == IF torn THEN Garbage ELSE c

\* The second critical section: one line, appended in the order of arrival.
AppendEntry(c) ==
    /\ FileOpen
    /\ pc[c] = "chained"
    /\ file' = Append(file, LineOf(c))
    /\ torn' = FALSE
    /\ pc' = [pc EXCEPT ![c] = "appended"]
    /\ UNCHANGED <<mode, life, entry, chainVars, replicaVars, smooth>>

\* A seeded fault: Handle goes on when appendEntry returned an error.
AfterFailedWriteGoesOn == "appended"

\* Handle returns the error, which slog drops.
AfterFailedWrite == "failed"

\* The write fails, with or without a part of the line on disk, or the file is
\* closed. The number of the entry is spent.
AppendFails(c) ==
    /\ pc[c] = "chained"
    /\ \/ DiskMayFail /\ FileOpen /\ torn' \in {torn, TRUE}
       \/ mode = "closed" /\ UNCHANGED torn
    /\ pc' = [pc EXCEPT ![c] = AfterFailedWrite]
    /\ smooth' = FALSE
    /\ UNCHANGED <<mode, life, entry, chainVars, file, replicaVars>>

HasRoom == Len(queue) < QueueCap

\* The select with a default: a full queue drops the replica.
Enqueue(c) ==
    /\ Installed
    /\ pc[c] = "appended"
    /\ queue' = IF HasRoom THEN Append(queue, c) ELSE queue
    /\ pc' = [pc EXCEPT ![c] = "done"]
    /\ UNCHANGED <<mode, life, entry, chainVars, fileVars, disp, sending, mq,
                   pending, smooth>>

-----------------------------------------------------------------------------
(* dispatchLoop and the sender *)

CtxDone == mode # "up"

\* The two ready branches of the select are equally good: an entry may be
\* taken although the context is done.
DispatchTake ==
    /\ Installed
    /\ disp = "idle"
    /\ queue # <<>>
    /\ disp' = "sending"
    /\ sending' = [call |-> Head(queue), dead |-> CtxDone]
    /\ queue' = Tail(queue)
    /\ UNCHANGED <<mode, life, callVars, chainVars, fileVars, mq, pending, smooth>>

\* Whether Send can deliver, and whether it can fail; its error is dropped.
Delivers(dead) == ~(dead /\ HonoursCtx)
Loses(dead) == SendMayFail \/ (dead /\ HonoursCtx)

DispatchSent ==
    /\ disp = "sending"
    /\ disp' = "idle"
    /\ sending' = Nothing
    /\ \/ Delivers(sending.dead) /\ mq' = mq \cup {sending.call}
       \/ Loses(sending.dead) /\ UNCHANGED mq
    /\ UNCHANGED <<mode, life, callVars, chainVars, fileVars, queue, pending, smooth>>

\* A seeded fault: the loop does not watch its context.
SeesDoneNever == FALSE

SeesDone == CtxDone

DispatchExit ==
    /\ Installed
    /\ disp = "idle"
    /\ SeesDone
    /\ disp' = "exited"
    /\ UNCHANGED <<mode, life, callVars, chainVars, fileVars, queue, sending,
                   mq, pending, smooth>>

-----------------------------------------------------------------------------
(* Close: cancel, wait for the dispatcher, drain, close the file *)

Queued == {queue[i] : i \in 1..Len(queue)}

CloseBegins ==
    /\ mode = "up"
    /\ mode' = "cancelled"
    /\ pending' = Queued \cup (IF disp = "sending" THEN {sending.call} ELSE {})
    /\ UNCHANGED <<life, callVars, chainVars, fileVars, queue, disp, sending,
                   mq, smooth>>

CloseDrains ==
    /\ mode = "cancelled"
    /\ disp = "exited"
    /\ mode' = "draining"
    /\ UNCHANGED <<life, callVars, chainVars, fileVars, replicaVars, smooth>>

\* drainCtx is live here; CloseEnds ends the loop when it is not.
DrainOne ==
    /\ mode = "draining"
    /\ queue # <<>>
    /\ queue' = Tail(queue)
    /\ \/ mq' = mq \cup {Head(queue)}
       \/ SendMayFail /\ UNCHANGED mq
    /\ UNCHANGED <<mode, life, callVars, chainVars, fileVars, disp, sending,
                   pending, smooth>>

\* The queue is empty, or the three seconds of grace are over.
CloseEnds ==
    /\ mode = "draining"
    /\ mode' = "closed"
    /\ UNCHANGED <<life, callVars, chainVars, fileVars, replicaVars, smooth>>

-----------------------------------------------------------------------------
(* The process ends, in whatever state it is, and is started again *)

Crash ==
    /\ mode # "down"
    /\ mode' = "down"
    /\ pc' = [c \in Call |-> IF c \in InFlight THEN "lost" ELSE pc[c]]
    /\ queue' = <<>> /\ disp' = "exited" /\ sending' = Nothing /\ pending' = {}
    /\ UNCHANGED <<life, entry, chainVars, fileVars, mq, smooth>>

Unreadable == torn \/ (file # <<>> /\ file[Len(file)] = Garbage)

\* A seeded fault: the number is not recovered.
RecoveredSeqNot == 0

\* recoverLastHash: both come from the last line of the file.
RecoveredSeq == IF file = <<>> THEN 0 ELSE entry[file[Len(file)]].seq
RecoveredHash == IF file = <<>> THEN Genesis ELSE file[Len(file)]

Restart ==
    /\ mode = "down"
    /\ life < MaxLife
    /\ life' = life + 1
    /\ IF Unreadable
         THEN mode' = "fallback" /\ UNCHANGED <<chainVars, disp>>
         ELSE /\ mode' = "up"
              /\ lastSeq' = RecoveredSeq
              /\ lastHash' = RecoveredHash
              /\ disp' = "idle"
    /\ UNCHANGED <<callVars, fileVars, queue, sending, mq, pending, smooth>>

-----------------------------------------------------------------------------
Dispatcher == DispatchTake \/ DispatchSent \/ DispatchExit
Closer == CloseDrains \/ DrainOne \/ CloseEnds

Next ==
    \/ \E c \in Call :
        Chain(c) \/ AppendEntry(c) \/ AppendFails(c) \/ Enqueue(c)
    \/ Dispatcher
    \/ CloseBegins
    \/ Closer
    \/ Crash
    \/ Restart

SafeSpec == Init /\ [][Next]_vars

\* Close is called by main, which nobody interrupts; the dispatcher is a
\* goroutine; Send returns (its context has a deadline of five seconds, and
\* the file sender does local file operations). The three seconds of drainCtx
\* end the loop even while producers refill the queue.
Fairness ==
    /\ WF_vars(DispatchTake \/ DispatchSent)
    /\ WF_vars(DispatchExit)
    /\ WF_vars(CloseDrains)
    /\ WF_vars(CloseEnds)

Spec == SafeSpec /\ Fairness

-----------------------------------------------------------------------------
(* Properties *)

Lines == 1..Len(file)

\* The variables keep their types.
TypeOK ==
    /\ mode \in {"up", "cancelled", "draining", "closed", "down", "fallback"}
    /\ life \in 1..MaxLife
    /\ lastSeq \in Nat
    /\ lastHash \in Call \cup {Genesis}
    /\ pc \in [Call -> {"new", "chained", "appended", "done", "failed", "lost"}]
    /\ entry \in [Call -> [seq : Nat, prev : Call \cup {Genesis}, life : 0..MaxLife]]
    /\ file \in Seq(Call \cup {Garbage})
    /\ torn \in BOOLEAN
    /\ queue \in Seq(Call) /\ Len(queue) <= QueueCap
    /\ disp \in {"idle", "sending", "exited"}
    /\ sending \in [call : Call \cup {Genesis}, dead : BOOLEAN]
    /\ disp = "sending" => sending.call \in Call
    /\ mq \subseteq Call
    /\ pending \subseteq Call
    /\ smooth \in BOOLEAN

\* The loop of VerifyLogFile over one line: readable, next in sequence, its
\* signature valid for the bytes read back, and its prev_hash the hash of the
\* line before (VerifyEntry does not look at prev_hash for sequence number 1).
\* A preview cut within a rune is written as an escape and read back as other
\* bytes, so the signature of such an entry never matches; nor does that of one
\* with a request id that is not UTF-8, or an integer beyond 2^53.
LineVerifies(i) ==
    /\ file[i] # Garbage
    /\ entry[file[i]].seq = i
    /\ file[i] \notin Split
    /\ i > 1 => entry[file[i]].prev = file[i - 1]

\* --verify-log succeeds.
Verifies == ~torn /\ \A i \in Lines : LineVerifies(i)

\* Within one process the issued entries form one chain, however the calls
\* interleave: numbers are unique and consecutive numbers are linked.
ChainLinear ==
    \A c, d \in Call :
        entry[c].life = entry[d].life /\ entry[c].life # 0 =>
            /\ entry[c].seq = entry[d].seq => c = d
            /\ entry[d].seq = entry[c].seq + 1 => entry[d].prev = c

\* As long as no two calls overlapped and no write failed, the file verifies,
\* across any number of crashes and restarts.
SmoothVerifies == smooth /\ Split = {} => Verifies

\* In its first process, without failures, the log loses nothing: once no call
\* is in flight, the numbers on file are exactly 1 to the number of lines,
\* although their order may differ.
FirstLifeComplete ==
    (life = 1 /\ mode = "up" /\ InFlight = {} /\ \A c \in Call : pc[c] # "failed") =>
        {entry[file[i]].seq : i \in Lines} = Lines

\* How far out of order the file can be: a line is ahead of its number by less
\* than the number of calls in flight.
DisplacementBound ==
    (life = 1 /\ \A c \in Call : pc[c] # "failed") =>
        \A i \in Lines :
            file[i] # Garbage => entry[file[i]].seq < i + MaxInFlight

\* Nothing is replicated before it is on file: a consumer never holds an entry
\* whose local write failed.
ReplicaRecorded ==
    \A c \in mq \cup Queued \cup pending : pc[c] \in {"appended", "done", "lost"}
                                           /\ \E i \in Lines : file[i] \in {c, Garbage}

\* Close returns.
CloseTerminates == mode = "cancelled" ~> mode \in {"closed", "down"}

\* What the design says of every log ("a step that fails means the log was
\* tampered with"): the agent's own log verifies when no call is in flight.
\* The code does not satisfy this; the README says where it departs.
AlwaysVerifies == mode = "up" /\ InFlight = {} => Verifies

\* "Every log entry carries a globally unique sequence number."
\* The code does not satisfy this; the README says where it departs.
SeqUnique ==
    \A i, j \in Lines : i # j /\ file[i] # Garbage /\ file[j] # Garbage =>
        entry[file[i]].seq # entry[file[j]].seq

\* "Close flushes pending MQ messages": here with a sender that only fails
\* when it is given a context that is done.
\* The code does not satisfy this; the README says where it departs.
CloseFlushes == mode = "closed" /\ queue = <<>> => pending \subseteq mq

-----------------------------------------------------------------------------
(* Inductive invariants *)

\* The entries of the running process end in lastSeq and lastHash.
ChainInv ==
    /\ ChainLinear
    /\ \A c \in Call :
        /\ entry[c].life <= life
        /\ pc[c] = "new" => entry[c].life = 0
        /\ entry[c].life = life => entry[c].seq <= lastSeq
        /\ entry[c].life = life /\ entry[c].seq = lastSeq => lastHash = c

\* The line before the next one, as lastHash must name it.
FollowsFile(h) == Len(file) > 0 => h = file[Len(file)]

\* While no calls overlapped and no write failed, the file is a chain, and the
\* logger stands at its end or exactly one entry ahead of it.
SmoothInv ==
    smooth =>
        /\ ~torn
        /\ \A i \in Lines :
            /\ file[i] \in Call
            /\ pc[file[i]] \notin {"new", "chained"}
            /\ entry[file[i]].seq = i
            /\ i > 1 => entry[file[i]].prev = file[i - 1]
        /\ \A c, d \in Chained : c = d
        /\ \A c \in Chained :
            /\ entry[c].seq = Len(file) + 1
            /\ FollowsFile(entry[c].prev)
            /\ Installed /\ lastSeq = Len(file) + 1 /\ lastHash = c
        /\ Installed /\ Chained = {} => lastSeq = Len(file) /\ FollowsFile(lastHash)

OnFile(c) == \E i \in Lines : file[i] = c

\* A call that got past its write is on file, perhaps spoiled by a part of a
\* line before it, and only such calls get into the queue.
RecordedInv ==
    /\ \A c \in Call : pc[c] \in {"appended", "done"} =>
            \E i \in Lines : file[i] \in {c, Garbage}
    /\ \A c \in mq \cup Queued \cup pending : pc[c] = "done"
    /\ disp = "sending" => pc[sending.call] = "done"

\* The first process, as long as no write has failed.
FirstLife == life = 1 /\ \A c \in Call : pc[c] # "failed"

FlightBounded == IsFiniteSet(InFlight) /\ Cardinality(InFlight) <= MaxInFlight

\* Then every number given out is on file or in the hands of a call that is
\* about to append it, and each such call is one line the file is behind.
CompleteInv ==
    FirstLife =>
        /\ ~torn
        /\ \A i \in Lines :
            /\ file[i] \in Call
            /\ pc[file[i]] \notin {"new", "chained"}
            /\ entry[file[i]].seq \in 1..lastSeq
            /\ entry[file[i]].seq < i + MaxInFlight
        /\ Installed =>
            /\ lastSeq = Len(file) + Cardinality(Chained)
            /\ \A c \in Chained : entry[c].seq \in 1..lastSeq
            /\ \A n \in 1..lastSeq :
                \E c \in Call : entry[c].seq = n /\ (c \in Chained \/ OnFile(c))
=============================================================================
