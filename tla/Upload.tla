------------------------------- MODULE Upload -------------------------------
(***************************************************************************)
(* File uploads (internal/gateway/gateway.go: handleUpload and             *)
(* saveUploadedFile).                                                      *)
(*                                                                         *)
(* Every upload writes a temp file next to its target and renames it.  The *)
(* creation of the temp file is exclusive; nothing looks at the target.    *)
(* Uploads run concurrently, and the process may die at any time.          *)
(*                                                                         *)
(* A path is <<name, k>>: the name with k suffixes ".tmp".  The name       *)
(* stands for upload_<request id>_<file name>; a client chooses both, so   *)
(* two uploads may have one target, and the target of one may be the temp  *)
(* file of another.  The directory maps a path to the file behind it; a    *)
(* file is named after the upload that created it.                         *)
(***************************************************************************)
EXTENDS Integers, FiniteSets

CONSTANTS
    Up,          \* the uploads, each made once (a BOUND)
    Name,        \* names of targets
    Suffixes,    \* how many ".tmp" a target may end in: subset of {0, 1}
    None,        \* no file
    MaxCrashes,  \* BOUND on the crashes of the process
    DiskMayFail  \* whether writing, closing, renaming and removing may fail

ASSUME UploadConstants ==
    /\ None \notin Up
    /\ Suffixes \subseteq {0, 1}
    /\ MaxCrashes \in Nat /\ DiskMayFail \in BOOLEAN

VARIABLES
    pc,       \* where an upload is, or its answer
    target,   \* the path it is to be saved at
    dir,      \* the upload directory
    written,  \* how much of the upload is in its file
    crashes,  \* the number of crashes so far
    latest,   \* history: the last upload answered with success, for each path
    stuck     \* history: uploads whose temp file could not be removed

vars == <<pc, target, dir, written, crashes, latest, stuck>>

Path == Name \X (0..2)
Tmp(p) == <<p[1], p[2] + 1>>

InFlight == {"open", "copy", "rename", "cleanup"}
Answered == {"refused", "conflict", "failed", "stored"}

-----------------------------------------------------------------------------
Init ==
    /\ pc = [u \in Up |-> "new"]
    /\ target \in [Up -> Name \X Suffixes]
    /\ dir = [p \in Path |-> None]
    /\ written = [u \in Up |-> "nothing"]
    /\ crashes = 0
    /\ latest = [p \in Path |-> None]
    /\ stuck = {}

\* The checks before the file is touched: size, form, name, extension, path.
Arrive(u) ==
    /\ pc[u] = "new"
    /\ \E answer \in {"open", "refused"} : pc' = [pc EXCEPT ![u] = answer]
    /\ UNCHANGED <<target, dir, written, crashes, latest, stuck>>

\* A seeded fault: the temp file is created over what is there.
MayCreateAlways(u) == TRUE

\* O_CREATE with O_EXCL.
MayCreate(u) == dir[Tmp(target[u])] = None

AnswerToExisting == "conflict"

Open(u) ==
    /\ pc[u] = "open"
    /\ IF MayCreate(u)
         THEN /\ dir' = [dir EXCEPT ![Tmp(target[u])] = u]
              /\ pc' = [pc EXCEPT ![u] = "copy"]
         ELSE /\ pc' = [pc EXCEPT ![u] = AnswerToExisting]
              /\ UNCHANGED dir
    /\ UNCHANGED <<target, written, crashes, latest, stuck>>

\* The directory cannot be written.
OpenFails(u) ==
    /\ DiskMayFail
    /\ pc[u] = "open"
    /\ pc' = [pc EXCEPT ![u] = "failed"]
    /\ UNCHANGED <<target, dir, written, crashes, latest, stuck>>

\* A seeded fault: the rename does not wait for the end of the copy.
CopyLeavesPart == "part"

CopyLeaves == "all"

\* io.Copy and Close; the file grows for all to see.
CopyPart(u) ==
    /\ pc[u] = "copy"
    /\ written[u] = "nothing"
    /\ written' = [written EXCEPT ![u] = "part"]
    /\ UNCHANGED <<pc, target, dir, crashes, latest, stuck>>

CopyRest(u) ==
    /\ pc[u] = "copy"
    /\ written[u] = "part"
    /\ written' = [written EXCEPT ![u] = CopyLeaves]
    /\ pc' = [pc EXCEPT ![u] = "rename"]
    /\ UNCHANGED <<target, dir, crashes, latest, stuck>>

\* A full disk, a rename that is refused. The form has been read from the
\* client by then.
StepFails(u) ==
    /\ DiskMayFail
    /\ pc[u] \in {"copy", "rename"}
    /\ pc' = [pc EXCEPT ![u] = "cleanup"]
    /\ UNCHANGED <<target, dir, written, crashes, latest, stuck>>

\* A seeded fault: the temp file of a failed upload is left where it is.
AfterCleanupLeft(u) == dir

\* os.Remove goes by the name, whatever file is behind it.
AfterCleanup(u) == [dir EXCEPT ![Tmp(target[u])] = None]

Cleanup(u) ==
    /\ pc[u] = "cleanup"
    /\ dir' = AfterCleanup(u)
    /\ pc' = [pc EXCEPT ![u] = "failed"]
    /\ UNCHANGED <<target, written, crashes, latest, stuck>>

\* The same disk refuses os.Remove too; nobody looks at that error, and the
\* upload is answered with the first one.
CleanupFails(u) ==
    /\ DiskMayFail
    /\ pc[u] = "cleanup"
    /\ pc' = [pc EXCEPT ![u] = "failed"]
    /\ stuck' = stuck \cup {u}
    /\ UNCHANGED <<target, dir, written, crashes, latest>>

\* A seeded fault: the name of a temp file is not taken away by the rename.
AfterRenameLinked(u) == [dir EXCEPT ![target[u]] = dir[Tmp(target[u])]]

\* os.Rename replaces the target, and moves whatever is behind the temp name.
AfterRename(u) ==
    [dir EXCEPT ![target[u]] = dir[Tmp(target[u])], ![Tmp(target[u])] = None]

Rename(u) ==
    /\ pc[u] = "rename"
    /\ IF dir[Tmp(target[u])] # None
         THEN /\ dir' = AfterRename(u)
              /\ pc' = [pc EXCEPT ![u] = "stored"]
              /\ latest' = [latest EXCEPT ![target[u]] = u]
         ELSE /\ pc' = [pc EXCEPT ![u] = "cleanup"]
              /\ UNCHANGED <<dir, latest>>
    /\ UNCHANGED <<target, written, crashes, stuck>>

\* The process dies and is started again; the directory stays.
Crash ==
    /\ crashes < MaxCrashes
    /\ crashes' = crashes + 1
    /\ pc' = [u \in Up |-> IF pc[u] \in InFlight THEN "lost" ELSE pc[u]]
    /\ UNCHANGED <<target, dir, written, latest, stuck>>

-----------------------------------------------------------------------------
Step(u) ==
    \/ Open(u) \/ OpenFails(u) \/ CopyPart(u) \/ CopyRest(u) \/ StepFails(u)
    \/ Cleanup(u) \/ CleanupFails(u) \/ Rename(u)

Next == Crash \/ \E u \in Up : Arrive(u) \/ Step(u)

SafeSpec == Init /\ [][Next]_vars

\* A handler is a goroutine; the form has been parsed, so that io.Copy waits
\* for the disk only.
Fairness == \A u \in Up : WF_vars(Step(u))

Spec == SafeSpec /\ Fairness

-----------------------------------------------------------------------------
(* Properties *)

\* The variables keep their types.
TypeOK ==
    /\ pc \in [Up -> {"new", "lost"} \cup InFlight \cup Answered]
    /\ target \in [Up -> Name \X Suffixes]
    /\ dir \in [Path -> Up \cup {None}]
    /\ written \in [Up -> {"nothing", "part", "all"}]
    /\ crashes \in 0..MaxCrashes
    /\ latest \in [Path -> Up \cup {None}]
    /\ stuck \subseteq Up

\* The name of a target that is nobody's temp file never shows a part of a
\* file, through concurrent uploads of one target, failures and crashes.
NeverPartial ==
    \A p \in Path : p[2] = 0 /\ dir[p] # None => written[dir[p]] = "all"

\* A path shows what the last successful upload of it sent, and its answer
\* was true: no other upload's failure or cleanup touches it.
StoredIsOwn == \A p \in Path : latest[p] # None => dir[p] = latest[p]

\* An upload whose temp file may be in the directory: it is under way, a crash
\* interrupted it, or the system refused to remove the file.
MayHaveTemp(u) == pc[u] \in {"copy", "rename", "cleanup", "lost"} \/ u \in stuck

\* No handler leaves its temp file behind that could have removed it: a temp
\* file is explained by its own upload.
TempOwned == \A u \in Up : dir[Tmp(target[u])] = u => MayHaveTemp(u)

\* "Target file already exists": an upload is answered with a conflict only when
\* that is so, or another upload may have the temp file of the target; one that
\* was stored, refused or cleaned up never stands in the way of a later one.
ConflictExplained ==
    [][\A u \in Up : pc[u] = "open" /\ pc'[u] = "conflict" =>
        \/ dir[target[u]] # None
        \/ \E v \in Up \ {u} : target[v] = target[u] /\ MayHaveTemp(v)]_vars

\* Every upload is answered, or lost in a crash, and no temp file of an
\* answered upload remains that could be removed.
EveryUploadEnds ==
    \A u \in Up : pc[u] \in InFlight ~>
        \/ pc[u] = "lost"
        \/ pc[u] \in Answered /\ (dir[Tmp(target[u])] = u => u \in stuck)

\* What a reader finds under a name, and what a client has been told.
Shown(n) ==
    LET f == dir[<<n, 0>>] IN IF f # None /\ written[f] # "all" THEN "part" ELSE f

Told(u) == IF pc[u] \in {"new"} \cup InFlight THEN "pending" ELSE pc[u]

Promise ==
    INSTANCE FileStore WITH
        Upload  <- Up,
        Target  <- Name,
        wanted  <- [u \in Up |-> target[u][1]],
        content <- [n \in Name |-> Shown(n)],
        answer  <- [u \in Up |-> Told(u)]

\* When no target is a temp file, the directory keeps the promise of FileStore:
\* uploads are atomic for those who read the targets, through any interleaving,
\* failure and crash.
ImplementsStore == Promise!Spec

\* "An existing file is answered with 409, against accidental overwriting."
\* The code does not satisfy this; the README says where it departs.
ExistingKept ==
    [][\A p \in Path : p[2] = 0 /\ dir[p] # None => dir'[p] = dir[p]]_vars

-----------------------------------------------------------------------------
(* Inductive invariant, for targets that are nobody's temp file *)

\* An upload at work has the temp name of its target for itself.
TempInv ==
    /\ \A u \in Up : pc[u] \in {"copy", "rename", "cleanup"} => dir[Tmp(target[u])] = u
    /\ \A u \in Up : pc[u] = "rename" => written[u] = "all"
    /\ \A u \in stuck : pc[u] = "failed"

\* What is under a target was stored there, and is complete.
StoredInv ==
    \A p \in Path : p[2] = 0 =>
        /\ dir[p] = latest[p]
        /\ dir[p] # None => pc[dir[p]] = "stored" /\ written[dir[p]] = "all"

IndInv ==
    /\ TypeOK /\ TempInv /\ StoredInv /\ TempOwned
    /\ \A p \in Path : p[2] # 0 => latest[p] = None

\* A temp file bears the name its own upload gave it.
TempNamed ==
    \A p \in Path : p[2] # 0 /\ dir[p] # None => p = Tmp(target[dir[p]])
=============================================================================
